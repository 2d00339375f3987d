--------------------------- MODULE BoardLifeProofs ---------------------------
(***************************************************************************)
(* What holds of BoardRun while no planner is at work: what a run holds is *)
(* not edited, a task it calls done is complete, and the board implements  *)
(* TaskLife.  A planner gives a task back while a run works on it, so none *)
(* of this holds with planners.                                            *)
(***************************************************************************)
EXTENDS BoardProofs

Checking == {"verifySlot", "verifyAgent", "judged"}
Past == {"wholeSlot", "wholeStarted", "wholeAgent", "wholeLanded", "fixSlot", "fixAgent"}
          \cup Checking

-----------------------------------------------------------------------------
(* The invariant.                                                          *)

\* A task in the hands of a run is marked as such, or it was removed before the
\* run began.
HeldIsBusy == \A t \in Held : Present(t) => board[t].status \in RunBusy

\* A task under a check says so.
CheckIsSaid == \A t \in Task : work[t].at \in Checking /\ Present(t) => board[t].status = "verifying"

Complete(t) == \A s \in SubsOf(t) : board[t].subs[s] = "done"

\* Past its sub-tasks a task has all of them done.
PastIsComplete == \A t \in Task : work[t].at \in Past /\ Present(t) => Complete(t)

\* A task that waits for its sub-tasks waits for all of them, and one that went
\* well is done on the board.
PiecesTell ==
  \A t \in Task : work[t].at = "subs" /\ Present(t) =>
    \A s \in SubsOf(t) : /\ piece[t][s].at # "off"
                         /\ piece[t][s].ok => board[t].subs[s] = "done"

\* Nothing went well before it was worked on.
NotYetOk == \A t \in Task, s \in Sub : piece[t][s].at \in {"deps"} \cup AtSlot => ~piece[t][s].ok

LifeInv == BoardInv /\ HeldIsBusy /\ CheckIsSaid /\ PastIsComplete /\ PiecesTell /\ NotYetOk

-----------------------------------------------------------------------------
(* The steps of one task.                                                  *)

\* What a step of the coroutine of t makes of the status: it stays, a check
\* begins, the work or a fix begins, or the run lets the task go.
Stays(t) ==
  /\ board'[t].status = board[t].status
  /\ work'[t].at \in AtRest <=> work[t].at \in AtRest
  /\ work'[t].at \in Checking => work[t].at \in Checking
ToCheck(t) ==
  /\ Present(t) /\ ~run.stop /\ work[t].at \notin AtRest
  /\ board'[t].status = "verifying" /\ work'[t].at = "verifySlot"
ToWork(t) ==
  /\ Present(t) /\ work[t].at \notin AtRest
  /\ (board[t].status = "queued" /\ ~run.stop) \/ board[t].status = "verifying"
  /\ board'[t].status = "running" /\ work'[t].at \notin AtRest \cup Checking
GoesOut(t) ==
  /\ work[t].at \notin AtRest /\ work'[t].at \in {"leaving", "ended"}
  /\ \/ ~Present(t) /\ board'[t].status = board[t].status
     \/ Present(t) /\ ~run.stop /\ board'[t].status = "done"
     \/ Present(t) /\ board'[t].status = "failed"
     \/ Present(t) /\ run.stop /\ board'[t].status \in {"stopped", "ready", "draft"}
StatusGoes(t) == Stays(t) \/ ToCheck(t) \/ ToWork(t) \/ GoesOut(t)

\* An outcome lets the task go.
LEMMA LeaveGoesOut ==
  ASSUME BoardInv, NEW t \in Task, NEW outcome \in {"done", "failed", "stopped"},
         work[t].at \notin AtRest, Leave(t, outcome),
         outcome = "done" => ~run.stop, outcome = "stopped" => run.stop
  PROVE  GoesOut(t)
  <1>1. board \in [Task -> Card] /\ work \in [Task -> Work] /\ board[t] \in Card /\ work[t] \in Work
    BY Fields
  <1>2. work'[t].at = "leaving"
    BY <1>1 DEF Leave, Work
  <1>3. board'[t] = IF Present(t) THEN Finished(board[t], outcome) ELSE board[t]
    BY <1>1 DEF Leave, Changed
  <1>4. Finished(board[t], outcome).status =
          IF outcome = "stopped" /\ board[t].lane # "doing" THEN Settled(board[t]) ELSE outcome
    <2>1. CASE outcome = "done"
      BY <1>1, <2>1 DEF Finished, Card
    <2>2. CASE outcome = "stopped" /\ board[t].lane # "doing"
      BY <1>1, <2>2 DEF Finished, Card
    <2>3. CASE outcome = "failed" \/ (outcome = "stopped" /\ board[t].lane = "doing")
      BY <1>1, <2>3 DEF Finished, Card
    <2>4. QED
      BY <2>1, <2>2, <2>3
  <1>5. QED
    BY <1>2, <1>3, <1>4, SettledStatus DEF GoesOut

\* The coroutine of a task that is gone ends.
LEMMA VanishGoesOut ==
  ASSUME BoardInv, NEW t \in Task, work[t].at \notin AtRest, ~Present(t), Vanish(t)
  PROVE  GoesOut(t)
  <1>1. work \in [Task -> Work] /\ work[t] \in Work
    BY Fields
  <1>2. work'[t].at = "ended" /\ board' = board
    BY <1>1 DEF Vanish, Work
  <1>3. QED
    BY <1>2 DEF GoesOut

\* A check ends.
LEMMA ConcludeGoesOut ==
  ASSUME BoardInv, NEW t \in Task, work[t].at \notin AtRest, Conclude(t)
  PROVE  GoesOut(t)
  BY LeaveGoesOut DEF Conclude

\* The head of the loop of _verify: only a run that goes on comes to it.
LEMMA VerifyGoes ==
  ASSUME BoardInv, NEW t \in Task, NEW round \in 0..FixRounds, ~run.stop,
         work[t].at \notin AtRest, Verify(t, round)
  PROVE  GoesOut(t) \/ ToCheck(t)
  <1>1. CASE ~Present(t) /\ Vanish(t)
    BY <1>1, VanishGoesOut
  <1>2. CASE Conclude(t)
    BY <1>2, ConcludeGoesOut
  <1>3. CASE /\ Present(t) /\ board' = Status(t, "verifying")
             /\ work' = [work EXCEPT ![t].at = "verifySlot", ![t].round = round, ![t].asked = TRUE]
    <2>1. board \in [Task -> Card] /\ work \in [Task -> Work] /\ board[t] \in Card /\ work[t] \in Work
      BY Fields
    <2>2. board'[t].status = "verifying"
      BY <1>3, <2>1 DEF Status, Changed, Card
    <2>3. work'[t].at = "verifySlot"
      BY <1>3, <2>1 DEF Work
    <2>4. QED
      BY <1>3, <2>2, <2>3 DEF ToCheck
  <1>4. QED
    BY <1>1, <1>2, <1>3 DEF Verify

\* The end of the work of a task, before its check.
LEMMA WorkedGoes ==
  ASSUME BoardInv, NEW t \in Task, NEW ok \in BOOLEAN, work[t].at \notin AtRest, Worked(t, ok)
  PROVE  GoesOut(t) \/ ToCheck(t)
  <1>1. 0 \in 0..FixRounds
    BY BoundAssumption
  <1>2. QED
    BY <1>1, LeaveGoesOut, VerifyGoes DEF Worked

\* A coroutine that goes on and changes nothing but its point.
LEMMA GoToStays ==
  ASSUME BoardInv, NEW t \in Task, NEW point \in Point \ AtRest, GoTo(t, point),
         work[t].at \notin AtRest, point \in Checking => work[t].at \in Checking
  PROVE  Stays(t)
  <1>1. board \in [Task -> Card] /\ work \in [Task -> Work] /\ work[t] \in Work
    BY Fields
  <1>2. work'[t].at = point /\ board' = board
    BY <1>1 DEF GoTo, Work
  <1>3. QED
    BY <1>2 DEF Stays

\* Every step of the coroutine of a task does one of these to the status.
LEMMA StepGoes ==
  ASSUME LifeInv, NEW t \in Task, TaskStep(t) \/ TaskAgentEnds(t)
  PROVE  StatusGoes(t)
  <1>0. /\ board \in [Task -> Card] /\ work \in [Task -> Work] /\ board[t] \in Card /\ work[t] \in Work
        /\ BoardInv
    BY Fields DEF LifeInv
  <1> USE DEF AtRest, Point
  <1>1. CASE GoneAtStart(t)
    BY <1>0, <1>1, VanishGoesOut DEF GoneAtStart, StatusGoes
  <1>2. CASE AwaitDependency(t)
    <2>1. work[t].at \in {"begin", "deps"} /\ board' = board
      BY <1>2 DEF AwaitDependency, Looking
    <2>2. work'[t].at = "deps"
      BY <1>0, <1>2 DEF AwaitDependency, Work
    <2>3. QED
      BY <2>1, <2>2 DEF Stays, Checking, StatusGoes
  <1>3. CASE FailDependency(t)
    BY <1>0, <1>3, LeaveGoesOut DEF FailDependency, Looking, StatusGoes
  <1>4. CASE StartWork(t)
    <2>1. work[t].at \in {"begin", "deps"}
      BY <1>4 DEF StartWork, Looking
    <2>2. QED
      BY <1>0, <1>4, <2>1, LeaveGoesOut, VanishGoesOut, GoToStays DEF StartWork, Checking, StatusGoes
  <1>5. CASE JoinPieces(t)
    BY <1>0, <1>5, WorkedGoes DEF JoinPieces, StatusGoes
  <1>6. CASE TakeWholeSlot(t)
    <2>0. work[t].at = "wholeSlot"
      BY <1>6 DEF TakeWholeSlot, SlotRefused, SlotTaken
    <2>1. CASE run.stop /\ Leave(t, "stopped")
      BY <1>0, <2>0, <2>1, LeaveGoesOut DEF StatusGoes
    <2>2. CASE /\ ~run.stop /\ board' = Changed(t, StartedCard(board[t]))
               /\ work' = [work EXCEPT ![t].at = "wholeStarted"]
      <3>1. work'[t].at = "wholeStarted"
        BY <1>0, <2>2 DEF Work
      <3>2. Present(t) => board[t].status \in RunBusy
        <4>1. t \in Held
          BY <1>0, <2>0 DEF Held, BoardInv, Owned
        <4>2. QED
          BY <4>1 DEF LifeInv, HeldIsBusy
      <3>3. /\ ~Present(t) => board'[t] = board[t]
            /\ Present(t) => board'[t] = StartedCard(board[t])
        BY <1>0, <2>2 DEF Changed
      <3>4. StartedCard(board[t]).status =
              IF board[t].status \in {"queued", "stopped", "failed", "ready"} THEN "running"
              ELSE board[t].status
        BY <1>0 DEF StartedCard, Card
      <3>5. CASE Present(t) /\ board[t].status = "queued"
        BY <2>0, <2>2, <3>1, <3>3, <3>4, <3>5 DEF ToWork, StatusGoes, Checking
      <3>6. CASE ~(Present(t) /\ board[t].status = "queued")
        <4>1. board'[t].status = board[t].status
          BY <3>2, <3>3, <3>4, <3>6 DEF RunBusy
        <4>2. QED
          BY <2>0, <3>1, <4>1 DEF Stays, StatusGoes, Checking
      <3>7. QED
        BY <3>5, <3>6
    <2>3. QED
      BY <1>6, <2>1, <2>2 DEF TakeWholeSlot, SlotRefused, SlotTaken
  <1>7. CASE HireWhole(t)
    BY <1>0, <1>7, WorkedGoes, GoToStays DEF HireWhole, Checking, StatusGoes
  <1>8. CASE WholeLanded(t)
    <2>1. work[t].ok \in BOOLEAN
      BY <1>0 DEF Work
    <2>2. QED
      BY <1>0, <1>8, <2>1, WorkedGoes DEF WholeLanded, StatusGoes
  <1>9. CASE TakeVerifySlot(t)
    <2>0. work[t].at = "verifySlot"
      BY <1>9 DEF TakeVerifySlot, SlotRefused, SlotTaken
    <2>1. CASE Conclude(t)
      BY <1>0, <2>0, <2>1, ConcludeGoesOut DEF StatusGoes
    <2>2. CASE /\ UNCHANGED board
               /\ \E asked \in {work[t].asked, TRUE} :
                    work' = [work EXCEPT ![t].at = "verifyAgent", ![t].asked = asked]
      <3>1. work'[t].at = "verifyAgent"
        BY <1>0, <2>2 DEF Work
      <3>2. QED
        BY <2>0, <2>2, <3>1 DEF Stays, StatusGoes, Checking
    <2>3. QED
      BY <1>9, <2>1, <2>2 DEF TakeVerifySlot
  <1>10. CASE Judged(t)
    <2>0. work[t].at = "judged"
      BY <1>10 DEF Judged
    <2>1. CASE ~Present(t) /\ Vanish(t)
      BY <1>0, <2>0, <2>1, VanishGoesOut DEF StatusGoes
    <2>2. CASE Conclude(t)
      BY <1>0, <2>0, <2>2, ConcludeGoesOut DEF StatusGoes
    <2>3. CASE Leave(t, "failed")
      BY <1>0, <2>0, <2>3, LeaveGoesOut DEF StatusGoes
    <2>4. CASE Present(t) /\ board' = Status(t, "running") /\ work' = [work EXCEPT ![t].at = "fixSlot"]
      <3>1. board[t].status = "verifying"
        BY <2>0, <2>4 DEF LifeInv, CheckIsSaid, Checking
      <3>2. work'[t].at = "fixSlot" /\ board'[t].status = "running"
        BY <1>0, <2>4 DEF Work, Status, Changed, Card
      <3>3. QED
        BY <2>0, <2>4, <3>1, <3>2 DEF ToWork, StatusGoes, Checking
    <2>5. QED
      BY <1>10, <2>1, <2>2, <2>3, <2>4 DEF Judged
  <1>11. CASE TakeFixSlot(t)
    BY <1>0, <1>11, ConcludeGoesOut, GoToStays DEF TakeFixSlot, SlotRefused, SlotTaken, Checking, StatusGoes
  <1>12. CASE TaskEnds(t)
    <2>1. work'[t].at = "ended" /\ work[t].at = "leaving" /\ board' = board
      BY <1>0, <1>12 DEF TaskEnds, GoTo, Work
    <2>2. QED
      BY <2>1 DEF Stays, StatusGoes, Checking
  <1>13. ASSUME NEW outcome \in Endings, WholeEnds(t, outcome)
         PROVE  StatusGoes(t)
    <2>1. work'[t].at = "wholeLanded" /\ work[t].at = "wholeAgent" /\ board' = board
      BY <1>0, <1>13 DEF WholeEnds, AgentGone, Work
    <2>2. QED
      BY <2>1 DEF Stays, StatusGoes, Checking
  <1>14. ASSUME NEW outcome \in Endings, FixerEnds(t, outcome)
         PROVE  StatusGoes(t)
    <2>0. work[t].at = "fixAgent" /\ Hired(outcome)
      BY <1>14 DEF FixerEnds, AgentGone
    <2>1. CASE outcome = "completed" /\ Verify(t, work[t].round + 1)
      <3>1. ~run.stop
        BY <2>0, <2>1 DEF Hired
      <3>2. work[t].round + 1 \in 0..FixRounds
        BY <1>0, <2>0, BoundAssumption DEF BoardInv, Typed, Fixing, Work
      <3>3. QED
        BY <1>0, <2>0, <2>1, <3>1, <3>2, VerifyGoes DEF StatusGoes
    <2>2. CASE outcome = "cancelled" /\ Leave(t, "stopped")
      BY <1>0, <2>0, <2>2, LeaveGoesOut DEF Hired, StatusGoes
    <2>3. CASE Leave(t, "failed")
      BY <1>0, <2>0, <2>3, LeaveGoesOut DEF StatusGoes
    <2>4. QED
      BY <1>14, <2>1, <2>2, <2>3 DEF FixerEnds
  <1>15. ASSUME NEW outcome \in Endings, NEW verdict \in Verdicts, VerifierEnds(t, outcome, verdict)
         PROVE  StatusGoes(t)
    <2>0. work[t].at = "verifyAgent"
      BY <1>15 DEF VerifierEnds, AgentGone
    <2>1. CASE run.stop /\ Leave(t, "stopped")
      BY <1>0, <2>0, <2>1, LeaveGoesOut DEF StatusGoes
    <2>2. CASE ~(run.stop /\ Leave(t, "stopped"))
      <3>1. /\ work' = [work EXCEPT ![t].at = "judged", ![t].ok = verdict # "unreadable"]
            /\ \/ board' = board
               \/ \E criteria : board' = Changed(t, [board[t] EXCEPT !.criteria = criteria])
        BY <1>15, <2>2 DEF VerifierEnds
      <3>2. work'[t].at = "judged"
        BY <1>0, <3>1 DEF Work
      <3>3. board'[t].status = board[t].status
        BY <1>0, <3>1 DEF Changed, Card
      <3>4. QED
        BY <2>0, <3>2, <3>3 DEF Stays, StatusGoes, Checking
    <2>3. QED
      BY <2>1, <2>2
  <1>16. QED
    BY <1>1, <1>2, <1>3, <1>4, <1>5, <1>6, <1>7, <1>8, <1>9, <1>10, <1>11, <1>12, <1>13, <1>14, <1>15
    DEF TaskStep, TaskAgentEnds

\* A task comes past its sub-tasks, or is called done, only from there or when it
\* has no sub-tasks or all of them went well.
LEMMA StepPast ==
  ASSUME BoardInv, NEW t \in Task, TaskStep(t) \/ TaskAgentEnds(t), Present(t),
         work'[t].at \in Past \/ (work'[t].outcome = "done" /\ work[t].outcome # "done")
  PROVE  \/ work[t].at \in Past \/ SubsOf(t) = {}
         \/ work[t].at = "subs" /\ \A s \in Sub : piece[t][s].at = "off" \/ piece[t][s].ok
  <1>0. work \in [Task -> Work] /\ work[t] \in Work
    BY Fields
  <1>1. ASSUME NEW point \in Point \ Past, GoTo(t, point)
        PROVE  FALSE
    BY <1>0, <1>1 DEF GoTo, Work
  <1>2. ASSUME NEW outcome \in {"failed", "stopped"}, Leave(t, outcome)
        PROVE  FALSE
    BY <1>0, <1>2 DEF Leave, Work, Past, Checking
  <1>3. CASE GoneAtStart(t)
    BY <1>3 DEF GoneAtStart
  <1>4. CASE AwaitDependency(t)
    <2>1. work'[t].at = "deps" /\ work'[t].outcome = work[t].outcome
      BY <1>0, <1>4 DEF AwaitDependency, Work
    <2>2. QED
      BY <2>1 DEF Past, Checking
  <1>5. CASE FailDependency(t)
    BY <1>2, <1>5 DEF FailDependency
  <1>6. CASE StartWork(t)
    BY <1>1, <1>2, <1>6 DEF StartWork, Point, Past, Checking
  <1>7. CASE JoinPieces(t)
    <2>1. \A s \in Sub : piece[t][s].at \in {"off", "ended"}
      BY <1>7 DEF JoinPieces
    <2>2. \A s \in Sub : piece[t][s].at = "ended" => piece[t][s].ok
      BY <1>2, <1>7 DEF JoinPieces, Worked
    <2>3. QED
      BY <1>7, <2>1, <2>2 DEF JoinPieces
  <1>8. CASE TaskEnds(t)
    <2>1. "ended" \in Point \ Past
      BY DEF Point, Past, Checking
    <2>2. QED
      BY <1>1, <1>8, <2>1 DEF TaskEnds
  <1>9. CASE \/ TakeWholeSlot(t) \/ HireWhole(t) \/ WholeLanded(t) \/ TakeVerifySlot(t) \/ Judged(t)
             \/ TakeFixSlot(t) \/ TaskAgentEnds(t)
    BY <1>9 DEF TakeWholeSlot, HireWhole, WholeLanded, TakeVerifySlot, Judged, TakeFixSlot, TaskAgentEnds,
                WholeEnds, FixerEnds, VerifierEnds, SlotRefused, SlotTaken, AgentGone, Past, Checking
  <1>10. QED
    BY <1>3, <1>4, <1>5, <1>6, <1>7, <1>8, <1>9 DEF TaskStep

\* Such a task has all of its sub-tasks done.
LEMMA StepComplete ==
  ASSUME LifeInv, NEW t \in Task, TaskStep(t) \/ TaskAgentEnds(t), Present(t),
         work'[t].at \in Past \/ (work'[t].outcome = "done" /\ work[t].outcome # "done")
  PROVE  Complete(t)
  <1>1. CASE work[t].at \in Past
    BY <1>1 DEF LifeInv, PastIsComplete
  <1>2. CASE SubsOf(t) = {}
    BY <1>2 DEF Complete
  <1>3. CASE work[t].at = "subs" /\ \A s \in Sub : piece[t][s].at = "off" \/ piece[t][s].ok
    BY <1>3 DEF LifeInv, PiecesTell, Complete, SubsOf
  <1>4. QED
    BY <1>1, <1>2, <1>3, StepPast DEF LifeInv

\* What a step of the coroutine of t makes of those of its sub-tasks: they stay,
\* or they begin, for every sub-task there is, or they are let go of.
PiecesBegin(t) ==
  \E p \in [Sub -> Piece] :
    /\ piece' = [piece EXCEPT ![t] = p]
    /\ \A s \in Sub : /\ p[s].at \in {"deps"} \cup AtSlot => ~p[s].ok
                      /\ work'[t].at = "subs" =>
                           /\ s \in SubsOf(t) => p[s].at # "off"
                           /\ p[s].ok => board[t].subs[s] = "done"

\* The coroutines of sub-tasks begin only when their task starts to wait for them.
LEMMA StepPieces ==
  ASSUME BoardInv, NEW t \in Task, TaskStep(t) \/ TaskAgentEnds(t)
  PROVE  (UNCHANGED piece /\ work'[t].at # "subs") \/ PiecesBegin(t)
  <1>0. work \in [Task -> Work] /\ piece \in [Task -> [Sub -> Piece]] /\ work[t] \in Work
    BY Fields DEF BoardInv, Typed
  <1> DEFINE Away == work'[t].at # "subs"
  <1>a. ASSUME \/ Vanish(t) \/ Conclude(t)
               \/ \E point \in Point \ {"subs"} : GoTo(t, point)
               \/ \E outcome \in Outcome : Leave(t, outcome)
               \/ \E round : Verify(t, round)
        PROVE  Away
    <2>1. ASSUME NEW outcome, Leave(t, outcome)
          PROVE  Away
      BY <1>0, <2>1 DEF Leave, Work
    <2>2. CASE Vanish(t)
      BY <1>0, <2>2 DEF Vanish, Work
    <2>3. CASE Conclude(t)
      BY <2>1, <2>3 DEF Conclude
    <2>4. ASSUME NEW point \in Point \ {"subs"}, GoTo(t, point)
          PROVE  Away
      BY <1>0, <2>4 DEF GoTo, Work
    <2>5. ASSUME NEW round, Verify(t, round)
          PROVE  Away
      BY <1>0, <2>2, <2>3, <2>5 DEF Verify, Work
    <2>6. QED
      BY <1>a, <2>1, <2>2, <2>3, <2>4, <2>5
  <1>b. ASSUME NEW ok, Worked(t, ok)
        PROVE  Away
    BY <1>a, <1>b DEF Worked, Outcome
  <1> HIDE DEF Away
  <1>1. CASE StartWork(t) /\ GoTo(t, "subs")
    <2> DEFINE p == [s \in Sub |-> CASE board[t].subs[s] = "absent" -> NoPiece
                                      [] board[t].subs[s] = "done" ->
                                           [at |-> "ended", ok |-> TRUE]
                                      [] OTHER -> [at |-> "deps", ok |-> FALSE]]
    <2>0. work'[t].at = "subs"
      BY <1>0, <1>1 DEF GoTo, Work
    <2>1. ~Leave(t, "stopped") /\ ~Vanish(t) /\ ~GoTo(t, "wholeSlot")
      BY <2>0, <1>a DEF Away, Outcome, Point
    <2>2. piece' = [piece EXCEPT ![t] = p]
      BY <1>1, <2>1 DEF StartWork
    <2>3. ASSUME NEW s \in Sub
          PROVE  /\ p[s] \in Piece
                 /\ p[s].at \in {"deps"} \cup AtSlot => ~p[s].ok
                 /\ s \in SubsOf(t) => p[s].at # "off"
                 /\ p[s].ok => board[t].subs[s] = "done"
      <3>1. CASE board[t].subs[s] = "absent"
        <4>1. p[s] = NoPiece
          BY <3>1
        <4>2. NoPiece \in Piece /\ NoPiece.at = "off" /\ NoPiece.ok = FALSE
          BY DEF NoPiece, Piece, PiecePoint
        <4>3. QED
          BY <3>1, <4>1, <4>2 DEF SubsOf
      <3>2. CASE board[t].subs[s] = "done"
        <4>1. p[s] = [at |-> "ended", ok |-> TRUE]
          BY <3>2
        <4>2. [at |-> "ended", ok |-> TRUE] \in Piece
          BY DEF Piece, PiecePoint
        <4>3. QED
          BY <3>2, <4>1, <4>2 DEF AtSlot
      <3>3. CASE board[t].subs[s] \notin {"absent", "done"}
        <4>1. p[s] = [at |-> "deps", ok |-> FALSE]
          BY <3>3
        <4>2. [at |-> "deps", ok |-> FALSE] \in Piece
          BY DEF Piece, PiecePoint
        <4>3. QED
          BY <4>1, <4>2
      <3>4. QED
        BY <3>1, <3>2, <3>3
    <2>4. p \in [Sub -> Piece]
      BY <2>3
    <2>5. QED
      BY <2>2, <2>3, <2>4 DEF PiecesBegin
  <1>2. CASE JoinPieces(t)
    <2> DEFINE p == [s \in Sub |-> NoPiece]
    <2>1. piece' = [piece EXCEPT ![t] = p]
      BY <1>2 DEF JoinPieces
    <2>2. NoPiece \in Piece /\ NoPiece.ok = FALSE
      BY DEF NoPiece, Piece, PiecePoint
    <2>3. work'[t].at # "subs"
      BY <1>2, <1>b DEF JoinPieces, Away
    <2>4. p \in [Sub -> Piece] /\ \A s \in Sub : p[s].ok = FALSE
      BY <2>2
    <2> HIDE DEF p
    <2>5. QED
      BY <2>1, <2>3, <2>4 DEF PiecesBegin
  <1>3. CASE StartWork(t) /\ ~GoTo(t, "subs")
    BY <1>3, <1>a DEF StartWork, Away, Point, Outcome
  <1>4. CASE AwaitDependency(t)
    BY <1>0, <1>4 DEF AwaitDependency, Work
  <1>5. CASE FailDependency(t) \/ GoneAtStart(t)
    BY <1>5, <1>a DEF FailDependency, GoneAtStart, Away, Outcome
  <1>6. CASE TakeWholeSlot(t)
    <2>1. CASE Leave(t, "stopped")
      BY <1>6, <2>1, <1>a DEF TakeWholeSlot, Away, Outcome
    <2>2. CASE work' = [work EXCEPT ![t].at = "wholeStarted"]
      BY <1>0, <1>6, <2>2 DEF TakeWholeSlot, Work
    <2>3. QED
      BY <1>6, <2>1, <2>2 DEF TakeWholeSlot
  <1>7. CASE HireWhole(t) \/ WholeLanded(t)
    BY <1>7, <1>a, <1>b DEF HireWhole, WholeLanded, Away, Point
  <1>8. CASE TakeVerifySlot(t)
    <2>1. CASE Conclude(t)
      BY <1>8, <2>1, <1>a DEF TakeVerifySlot, Away
    <2>2. CASE \E asked : work' = [work EXCEPT ![t].at = "verifyAgent", ![t].asked = asked]
      BY <1>0, <1>8, <2>2 DEF TakeVerifySlot, Work
    <2>3. QED
      BY <1>8, <2>1, <2>2 DEF TakeVerifySlot
  <1>9. CASE Judged(t)
    <2>1. CASE Vanish(t) \/ Conclude(t) \/ Leave(t, "failed")
      BY <1>9, <2>1, <1>a DEF Judged, Away, Outcome
    <2>2. CASE work' = [work EXCEPT ![t].at = "fixSlot"]
      BY <1>0, <1>9, <2>2 DEF Judged, Work
    <2>3. QED
      BY <1>9, <2>1, <2>2 DEF Judged
  <1>10. CASE TakeFixSlot(t) \/ TaskEnds(t)
    BY <1>10, <1>a DEF TakeFixSlot, TaskEnds, Away, Point
  <1>11. ASSUME NEW outcome \in Endings, WholeEnds(t, outcome) \/ FixerEnds(t, outcome)
         PROVE  UNCHANGED piece /\ work'[t].at # "subs"
    <2>1. CASE WholeEnds(t, outcome)
      BY <1>0, <2>1 DEF WholeEnds, Work
    <2>2. CASE FixerEnds(t, outcome)
      BY <2>2, <1>a DEF FixerEnds, Away, Outcome
    <2>3. QED
      BY <1>11, <2>1, <2>2
  <1>12. ASSUME NEW outcome \in Endings, NEW verdict \in Verdicts, VerifierEnds(t, outcome, verdict)
         PROVE  UNCHANGED piece /\ work'[t].at # "subs"
    <2>1. CASE Leave(t, "stopped")
      BY <1>12, <2>1, <1>a DEF VerifierEnds, Away, Outcome
    <2>2. CASE work' = [work EXCEPT ![t].at = "judged", ![t].ok = verdict # "unreadable"]
      BY <1>0, <1>12, <2>2 DEF VerifierEnds, Work
    <2>3. QED
      BY <1>12, <2>1, <2>2 DEF VerifierEnds
  <1>13. QED
    BY <1>1, <1>2, <1>3, <1>4, <1>5, <1>6, <1>7, <1>8, <1>9, <1>10, <1>11, <1>12
    DEF TaskStep, TaskAgentEnds

-----------------------------------------------------------------------------
(* The invariant is kept.                                                  *)

\* Without planners nothing is being planned.
LEMMA NothingPlanned ==
  ASSUME BoardInv, Job = {}
  PROVE  \A t \in Task : board[t].status # "planning"
  BY DEF BoardInv, BusyIsHeld

\* A coroutine that is not at rest belongs to a task the run holds.
LEMMA AtWorkIsHeld ==
  ASSUME BoardInv, NEW t \in Task
  PROVE  t \in Held <=> work[t].at \notin AtRest
  BY DEF BoardInv, Owned, Held, AtRest

\* The coroutine of a task keeps what the invariant says of its task.
LEMMA StepKeepsLife ==
  ASSUME LifeInv, NEW t \in Task, TaskStep(t) \/ TaskAgentEnds(t)
  PROVE  HeldIsBusy' /\ CheckIsSaid' /\ PastIsComplete' /\ PiecesTell' /\ NotYetOk'
  <1>0. BoardInv /\ UNCHANGED <<run, jobs, count>> /\ StatusGoes(t)
    BY StepGoes, StepFollows DEF LifeInv
  <1>1. PICK card \in Card, w \in Work : Moves(t, card, w)
    BY <1>0, StepMoves DEF TaskMoves
  <1>2. /\ board \in [Task -> Card] /\ work \in [Task -> Work]
        /\ piece \in [Task -> [Sub -> Piece]] /\ run.tasks \in SUBSET Task
    BY <1>0 DEF BoardInv, Typed, JobState
  <1>3. /\ board' = [board EXCEPT ![t] = card] /\ work' = [work EXCEPT ![t] = w]
        /\ ~Present(t) => card.status = "absent"
        /\ card.subs = board[t].subs
    BY <1>1 DEF Moves
  <1>4. \A u \in Task : u # t => board'[u] = board[u] /\ work'[u] = work[u]
    BY <1>2, <1>3
  <1>5. board'[t] = card /\ work'[t] = w
    BY <1>2, <1>3
  <1>6. Present(t)' => Present(t)
    BY <1>3, <1>5 DEF Present
  <1>7. HeldIsBusy'
    <2> SUFFICES ASSUME NEW u \in Held', Present(u)'
                 PROVE  board'[u].status \in RunBusy
      BY DEF HeldIsBusy
    <2>1. u \in Task /\ u \in run.tasks /\ work'[u].at \notin AtRest
      BY <1>0, <1>2 DEF Held, AtRest
    <2>2. CASE u # t
      <3>1. u \in Held /\ Present(u)
        BY <1>0, <1>4, <2>1, <2>2 DEF Held, AtRest, Present
      <3>2. QED
        BY <1>4, <2>1, <2>2, <3>1 DEF LifeInv, HeldIsBusy
    <2>3. CASE u = t
      <3>1. CASE Stays(t)
        <4>1. t \in Held /\ Present(t)
          BY <1>0, <1>6, <2>1, <2>3, <3>1, AtWorkIsHeld DEF Stays
        <4>2. QED
          BY <2>3, <3>1, <4>1 DEF LifeInv, HeldIsBusy, Stays
      <3>2. CASE ToCheck(t) \/ ToWork(t)
        BY <2>3, <3>2 DEF ToCheck, ToWork, RunBusy
      <3>3. CASE GoesOut(t)
        BY <2>1, <2>3, <3>3 DEF GoesOut, AtRest
      <3>4. QED
        BY <1>0, <3>1, <3>2, <3>3 DEF StatusGoes
    <2>4. QED
      BY <2>2, <2>3
  <1>8. CheckIsSaid'
    <2> SUFFICES ASSUME NEW u \in Task, work'[u].at \in Checking, Present(u)'
                 PROVE  board'[u].status = "verifying"
      BY DEF CheckIsSaid
    <2>1. CASE u # t
      BY <1>4, <2>1 DEF LifeInv, CheckIsSaid, Present
    <2>2. CASE u = t
      BY <1>0, <1>6, <2>2 DEF LifeInv, CheckIsSaid, StatusGoes, Stays, ToCheck, ToWork, GoesOut, Checking
    <2>3. QED
      BY <2>1, <2>2
  <1>9. PastIsComplete'
    <2> SUFFICES ASSUME NEW u \in Task, work'[u].at \in Past, Present(u)'
                 PROVE  Complete(u)'
      BY DEF PastIsComplete
    <2>1. CASE u # t
      BY <1>4, <2>1 DEF LifeInv, PastIsComplete, Present, Complete, SubsOf
    <2>2. CASE u = t
      <3>1. Complete(t)
        BY <1>6, <2>2, StepComplete
      <3>2. QED
        BY <1>3, <1>5, <2>2, <3>1 DEF Complete, SubsOf
    <2>3. QED
      BY <2>1, <2>2
  <1>10. PiecesTell' /\ NotYetOk'
    <2>1. CASE UNCHANGED piece /\ work'[t].at # "subs"
      <3>1. NotYetOk'
        BY <2>1 DEF LifeInv, NotYetOk
      <3>2. ASSUME NEW u \in Task, work'[u].at = "subs", Present(u)', NEW s \in SubsOf(u)'
            PROVE  piece'[u][s].at # "off" /\ (piece'[u][s].ok => board'[u].subs[s] = "done")
        <4>1. u # t
          BY <2>1, <3>2
        <4>2. work[u].at = "subs" /\ Present(u) /\ s \in SubsOf(u)
          BY <1>4, <3>2, <4>1 DEF Present, SubsOf
        <4>3. QED
          BY <1>4, <2>1, <4>1, <4>2 DEF LifeInv, PiecesTell
      <3>3. QED
        BY <3>1, <3>2 DEF PiecesTell
    <2>2. CASE PiecesBegin(t)
      <3>0. PICK p \in [Sub -> Piece] :
              /\ piece' = [piece EXCEPT ![t] = p]
              /\ \A s \in Sub : /\ p[s].at \in {"deps"} \cup AtSlot => ~p[s].ok
                                /\ work'[t].at = "subs" =>
                                     /\ s \in SubsOf(t) => p[s].at # "off"
                                     /\ p[s].ok => board[t].subs[s] = "done"
        BY <2>2 DEF PiecesBegin
      <3>1. piece'[t] = p /\ \A u \in Task : u # t => piece'[u] = piece[u]
        BY <1>2, <3>0
      <3>2. NotYetOk'
        BY <3>0, <3>1 DEF LifeInv, NotYetOk
      <3>3. ASSUME NEW u \in Task, work'[u].at = "subs", Present(u)', NEW s \in SubsOf(u)'
            PROVE  piece'[u][s].at # "off" /\ (piece'[u][s].ok => board'[u].subs[s] = "done")
        <4>1. CASE u # t
          <5>1. work[u].at = "subs" /\ Present(u) /\ s \in SubsOf(u)
            BY <1>4, <3>3, <4>1 DEF Present, SubsOf
          <5>2. QED
            BY <1>4, <3>1, <4>1, <5>1 DEF LifeInv, PiecesTell
        <4>2. CASE u = t
          <5>1. s \in SubsOf(t) /\ board'[t].subs = board[t].subs
            BY <1>3, <1>5, <3>3, <4>2 DEF SubsOf
          <5>2. QED
            BY <3>0, <3>1, <3>3, <4>2, <5>1 DEF SubsOf
        <4>3. QED
          BY <4>1, <4>2
      <3>4. QED
        BY <3>2, <3>3 DEF PiecesTell
    <2>3. QED
      BY <1>0, <2>1, <2>2, StepPieces
  <1>11. QED
    BY <1>7, <1>8, <1>9, <1>10

\* What a step of the coroutine of sub-task s of t comes to: its task begins, or
\* keeps its status, the other sub-tasks are as they were, and it went well only
\* if the board says that it is done.
OnePiece(t, s, p, card) ==
  /\ piece' = [piece EXCEPT ![t][s] = p]
  /\ board' = [board EXCEPT ![t] = card]
  /\ p.at # "off"
  /\ p.at \in {"deps"} \cup AtSlot => ~p.ok
  /\ p.ok /\ Present(t) /\ s \in SubsOf(t) => card.subs[s] = "done"
  /\ \/ card.status = board[t].status
     \/ Present(t) /\ ~run.stop /\ board[t].status = "queued" /\ card.status = "running"
  /\ card.subs[s] = "absent" <=> board[t].subs[s] = "absent"
  /\ \A q \in Sub : q # s => card.subs[q] = board[t].subs[q]
PieceLives(t, s) == \E p \in Piece, card \in Card : OnePiece(t, s, p, card)

\* A card with another status for one sub-task, if it is there.
LEMMA SubIsCard ==
  ASSUME BoardInv, NEW t \in Task, NEW s \in Sub, NEW status \in SubStatus \ {"absent"}
  PROVE  \E card \in Card :
           /\ SubIs(t, s, status) = [board EXCEPT ![t] = card]
           /\ card.status = board[t].status
           /\ Present(t) /\ s \in SubsOf(t) => card.subs[s] = status
           /\ card.subs[s] = "absent" <=> board[t].subs[s] = "absent"
           /\ \A q \in Sub : q # s => card.subs[q] = board[t].subs[q]
  <1>0. board \in [Task -> Card] /\ board[t] \in Card
    BY Fields
  <1>1. CASE board[t].subs[s] = "absent" \/ ~Present(t)
    <2>1. SubIs(t, s, status) = [board EXCEPT ![t] = board[t]]
      BY <1>0, <1>1 DEF SubIs, Changed
    <2>2. QED
      BY <1>0, <1>1, <2>1 DEF SubsOf
  <1>2. CASE board[t].subs[s] # "absent" /\ Present(t)
    <2> DEFINE card == [board[t] EXCEPT !.subs[s] = status]
    <2>1. card \in Card /\ card.status = board[t].status
          /\ \A q \in Sub : card.subs[q] = IF q = s THEN status ELSE board[t].subs[q]
      BY <1>0 DEF Card
    <2>2. SubIs(t, s, status) = [board EXCEPT ![t] = card]
      BY <1>2 DEF SubIs, Changed
    <2> HIDE DEF card
    <2>3. status # "absent"
      OBVIOUS
    <2>4. QED
      BY <1>2, <2>1, <2>2, <2>3
  <1>3. QED
    BY <1>1, <1>2

\* Every step of the coroutine of a sub-task is one of these.
LEMMA PieceStepLives ==
  ASSUME LifeInv, NEW t \in Task, NEW s \in Sub, PieceStep(t, s) \/ PieceAgentEnds(t, s)
  PROVE  PieceLives(t, s)
  <1>0. /\ board \in [Task -> Card] /\ board[t] \in Card
        /\ piece \in [Task -> [Sub -> Piece]] /\ piece[t][s] \in Piece
        /\ BoardInv
    BY Fields DEF LifeInv, BoardInv, Typed
  <1>1. piece[t][s].at \notin {"off", "ended"} => work[t].at = "subs" /\ t \in Held
    BY <1>0 DEF BoardInv, Owned, Held
  <1>2. board = [board EXCEPT ![t] = board[t]]
    BY <1>0
  <1>3. ASSUME NEW point \in PiecePoint \ {"off"}, PieceAt(t, s, point),
               piece[t][s].at \in {"deps"} \cup AtSlot
        PROVE  \E p \in Piece : piece' = [piece EXCEPT ![t][s] = p] /\ p.at # "off" /\ ~p.ok
    <2> DEFINE p == [piece[t][s] EXCEPT !.at = point]
    <2>1. p \in Piece /\ p.at = point /\ p.ok = piece[t][s].ok
      BY <1>0 DEF Piece
    <2>2. piece' = [piece EXCEPT ![t][s] = p]
      BY <1>0, <1>3 DEF PieceAt
    <2>3. ~piece[t][s].ok
      BY <1>3 DEF LifeInv, NotYetOk
    <2>4. QED
      BY <2>1, <2>2, <2>3
  <1>4. ASSUME NEW p \in Piece, piece' = [piece EXCEPT ![t][s] = p], p.at # "off", ~p.ok,
               UNCHANGED board
        PROVE  PieceLives(t, s)
    <2>1. OnePiece(t, s, p, board[t])
      BY <1>2, <1>4 DEF OnePiece
    <2>2. QED
      BY <1>0, <2>1 DEF PieceLives
  <1>5. ASSUME NEW p \in Piece, piece' = [piece EXCEPT ![t][s] = p], p.at # "off",
               NEW status \in SubStatus \ {"absent"}, board' = SubIs(t, s, status),
               p.ok => status = "done" /\ p.at \notin {"deps"} \cup AtSlot
        PROVE  PieceLives(t, s)
    <2>1. PICK card \in Card :
            /\ SubIs(t, s, status) = [board EXCEPT ![t] = card]
            /\ card.status = board[t].status
            /\ Present(t) /\ s \in SubsOf(t) => card.subs[s] = status
            /\ card.subs[s] = "absent" <=> board[t].subs[s] = "absent"
            /\ \A q \in Sub : q # s => card.subs[q] = board[t].subs[q]
      BY <1>0, SubIsCard
    <2>2. OnePiece(t, s, p, card)
      BY <1>5, <2>1 DEF OnePiece
    <2>3. QED
      BY <2>2 DEF PieceLives
  <1>6. CASE Block(t, s)
    <2>1. PICK p \in Piece : piece' = [piece EXCEPT ![t][s] = p] /\ p.at # "off" /\ ~p.ok
      BY <1>3, <1>6 DEF Block, PiecePoint
    <2>2. QED
      BY <1>5, <1>6, <2>1 DEF Block, SubStatus
  <1>7. CASE SeekSlot(t, s)
    <2>1. PICK p \in Piece : piece' = [piece EXCEPT ![t][s] = p] /\ p.at # "off" /\ ~p.ok
      BY <1>3, <1>7 DEF SeekSlot, PiecePoint
    <2>2. QED
      BY <1>4, <1>7, <2>1 DEF SeekSlot
  <1>8. CASE TakeSlot(t, s)
    <2>1. PICK p \in Piece : piece' = [piece EXCEPT ![t][s] = p] /\ p.at # "off" /\ ~p.ok
      BY <1>3, <1>8 DEF TakeSlot, PiecePoint, AtSlot
    <2>2. CASE UNCHANGED board
      BY <1>4, <2>1, <2>2
    <2>3. CASE ~run.stop /\ board' = Changed(t, StartedCard(board[t]))
      <3>1. PICK card \in Card :
              /\ board' = [board EXCEPT ![t] = card]
              /\ IF Present(t) THEN card = StartedCard(board[t]) ELSE card = board[t]
        <4>1. StartedCard(board[t]) \in Card
          BY <1>0 DEF StartedCard, Card, TaskStatus
        <4>2. QED
          BY <1>0, <2>3, <4>1, ChangedCard
      <3>2. Present(t) => board[t].status \in RunBusy
        BY <1>1, <1>8 DEF TakeSlot, LifeInv, HeldIsBusy
      <3>3. /\ StartedCard(board[t]).subs = board[t].subs
            /\ Present(t) => \/ StartedCard(board[t]).status = board[t].status
                             \/ /\ board[t].status = "queued"
                                /\ StartedCard(board[t]).status = "running"
        BY <1>0, <3>2 DEF StartedCard, Card, RunBusy
      <3>4. OnePiece(t, s, p, card)
        BY <2>1, <2>3, <3>1, <3>3 DEF OnePiece
      <3>5. QED
        BY <2>1, <3>4 DEF PieceLives
    <2>4. QED
      BY <1>8, <2>2, <2>3 DEF TakeSlot
  <1>9. CASE HireWorker(t, s)
    <2>1. PICK p \in Piece : piece' = [piece EXCEPT ![t][s] = p] /\ p.at # "off" /\ ~p.ok
      BY <1>3, <1>9 DEF HireWorker, PiecePoint, AtSlot
    <2>2. QED
      BY <1>4, <1>5, <1>9, <2>1 DEF HireWorker, SubStatus
  <1>10. CASE PieceEnds(t, s)
    <2> DEFINE p == [piece[t][s] EXCEPT !.at = "ended"]
    <2>1. p \in Piece /\ p.at = "ended" /\ p.ok = piece[t][s].ok
      BY <1>0 DEF Piece, PiecePoint
    <2>2. piece' = [piece EXCEPT ![t][s] = p] /\ board' = [board EXCEPT ![t] = board[t]]
      BY <1>0, <1>2, <1>10 DEF PieceEnds, PieceAt
    <2>3. p.ok /\ Present(t) /\ s \in SubsOf(t) => board[t].subs[s] = "done"
      BY <1>1, <1>10, <2>1 DEF PieceEnds, LifeInv, PiecesTell
    <2>4. OnePiece(t, s, p, board[t])
      BY <2>1, <2>2, <2>3 DEF OnePiece, AtSlot
    <2>5. QED
      BY <1>0, <2>1, <2>4 DEF PieceLives
  <1>11. ASSUME NEW outcome \in Endings, WorkerEnds(t, s, outcome)
         PROVE  PieceLives(t, s)
    <2> DEFINE p == [piece[t][s] EXCEPT !.at = "leaving", !.ok = outcome = "completed"]
               status == CASE outcome = "completed" -> "done"
                           [] outcome = "cancelled" -> "stopped"
                           [] OTHER -> "failed"
    <2>1. p \in Piece /\ p.at = "leaving" /\ (p.ok <=> outcome = "completed")
      BY <1>0 DEF Piece, PiecePoint
    <2>2. piece' = [piece EXCEPT ![t][s] = p] /\ board' = SubIs(t, s, status)
      BY <1>0, <1>11 DEF WorkerEnds
    <2>3. status \in SubStatus \ {"absent"} /\ (outcome = "completed" => status = "done")
      BY DEF Endings, SubStatus
    <2> HIDE DEF p, status
    <2>4. QED
      BY <1>5, <2>1, <2>2, <2>3 DEF AtSlot
  <1>12. QED
    BY <1>6, <1>7, <1>8, <1>9, <1>10, <1>11 DEF PieceStep, PieceAgentEnds

\* The coroutine of a sub-task keeps what the invariant says of its task.
LEMMA PieceKeepsLife ==
  ASSUME LifeInv, NEW t \in Task, NEW s \in Sub, PieceStep(t, s) \/ PieceAgentEnds(t, s)
  PROVE  HeldIsBusy' /\ CheckIsSaid' /\ PastIsComplete' /\ PiecesTell' /\ NotYetOk'
  <1>1. PICK p \in Piece, card \in Card : OnePiece(t, s, p, card)
    BY PieceStepLives DEF PieceLives
  <1>2. /\ board \in [Task -> Card] /\ piece \in [Task -> [Sub -> Piece]]
        /\ UNCHANGED <<run, work>> /\ work[t].at = "subs"
    BY PieceStepMoves DEF PieceMoves, LifeInv, BoardInv, Typed, Owned
  <1>3. /\ board'[t] = card /\ \A u \in Task : u # t => board'[u] = board[u]
        /\ \A u \in Task, q \in Sub : piece'[u][q] = IF u = t /\ q = s THEN p ELSE piece[u][q]
    BY <1>1, <1>2 DEF OnePiece
  <1>4. /\ card.status = board[t].status
           \/ (Present(t) /\ board[t].status = "queued" /\ card.status = "running")
        /\ Present(t)' <=> Present(t)
    BY <1>1, <1>3 DEF OnePiece, Present
  <1>5. HeldIsBusy'
    <2>1. Held' = Held
      BY <1>2 DEF Held
    <2>2. Held \subseteq Task
      BY DEF Held, LifeInv, BoardInv, Typed, JobState
    <2>3. QED
      BY <1>3, <1>4, <2>1, <2>2 DEF LifeInv, HeldIsBusy, Present, RunBusy
  <1>6. CheckIsSaid'
    BY <1>2, <1>3 DEF LifeInv, CheckIsSaid, Present, Checking
  <1>7. PastIsComplete'
    BY <1>2, <1>3 DEF LifeInv, PastIsComplete, Present, Complete, SubsOf, Past, Checking
  <1>8. ASSUME NEW u \in Task, work'[u].at = "subs", Present(u)', NEW q \in SubsOf(u)'
        PROVE  piece'[u][q].at # "off" /\ (piece'[u][q].ok => board'[u].subs[q] = "done")
    <2>1. CASE u = t
      <3>1. /\ Present(t) /\ q \in SubsOf(t)
            /\ q # s => card.subs[q] = board[t].subs[q]
        BY <1>1, <1>3, <1>4, <1>8, <2>1 DEF OnePiece, SubsOf
      <3>2. piece[t][q].at # "off" /\ (piece[t][q].ok => board[t].subs[q] = "done")
        BY <1>2, <3>1 DEF LifeInv, PiecesTell
      <3>3. q \in Sub
        BY <3>1 DEF SubsOf
      <3>4. QED
        BY <1>1, <1>3, <2>1, <3>1, <3>2, <3>3 DEF OnePiece
    <2>2. CASE u # t
      <3>1. board'[u] = board[u] /\ work'[u] = work[u] /\ Present(u) /\ q \in SubsOf(u) /\ q \in Sub
        BY <1>2, <1>3, <1>8, <2>2 DEF Present, SubsOf
      <3>2. piece'[u][q] = piece[u][q]
        BY <1>3, <2>2, <3>1
      <3>3. QED
        BY <1>8, <3>1, <3>2 DEF LifeInv, PiecesTell
    <2>3. QED
      BY <2>1, <2>2
  <1>9. NotYetOk'
    <2>1. p.at \in {"deps"} \cup AtSlot => ~p.ok
      BY <1>1 DEF OnePiece
    <2>2. QED
      BY <1>3, <2>1 DEF LifeInv, NotYetOk
  <1>10. QED
    BY <1>5, <1>6, <1>7, <1>8, <1>9 DEF PiecesTell

\* An edit: one card becomes another, by hand, and what may have been asked of it
\* changes.
Edits(t) ==
  \E card \in Card, asked \in BOOLEAN :
    /\ Edit(t, card) /\ work' = [work EXCEPT ![t].asked = asked]
    /\ card.status \in {board[t].status, "draft", "ready", "done", "absent"}
UserEdits(t) ==
  \/ RemoveTask(t) \/ SetCriteria(t) \/ \E lane \in {"todo", "doing", "done"} : MoveTask(t, lane)
  \/ \E s \in Sub : AddSubtask(t, s) \/ RemoveSubtask(t, s) \/ TickSubtask(t, s)

\* Settling the status of a card keeps it or makes it draft, ready or done.
LEMMA SettleStatus ==
  ASSUME NEW card \in Card, card.status \notin Busy
  PROVE  Settle(card) \in Card /\ Settle(card).status \in {card.status, "draft", "ready", "done"}
  <1> DEFINE status == CASE card.lane = "done" -> "done"
                         [] card.lane # "done" /\ card.status \in {"draft", "ready"} -> Settled(card)
                         [] OTHER -> card.status
  <1>1. Settle(card) = [card EXCEPT !.status = status]
    BY DEF Settle
  <1>2. status \in {card.status, "draft", "ready", "done"}
    BY SettledStatus
  <1>3. Settle(card).status = status
    BY <1>1 DEF Card
  <1>4. QED
    BY <1>2, <1>3, SettleCard

\* Everything the user does to a card is an edit.
LEMMA UserEditsOne ==
  ASSUME BoardInv, NEW t \in Task, UserEdits(t)
  PROVE  Edits(t)
  <1>0. board[t] \in Card /\ work[t].asked \in BOOLEAN /\ board[t].status \notin Busy
    BY Fields DEF Work, UserEdits, RemoveTask, SetCriteria, MoveTask, AddSubtask, RemoveSubtask,
                  TickSubtask, Edit
  <1>1. UNCHANGED work => work' = [work EXCEPT ![t].asked = work[t].asked]
    BY Fields DEF Work
  <1>2. ASSUME NEW card \in Card, Edit(t, card), UNCHANGED work,
               card.status \in {board[t].status, "draft", "ready", "done", "absent"}
        PROVE  Edits(t)
    BY <1>0, <1>1, <1>2 DEF Edits
  <1>3. CASE RemoveTask(t)
    <2>1. [board[t] EXCEPT !.status = "absent"] \in Card
          /\ [board[t] EXCEPT !.status = "absent"].status = "absent"
      BY <1>0 DEF Card, TaskStatus
    <2>2. QED
      BY <1>2, <1>3, <2>1 DEF RemoveTask
  <1>4. CASE SetCriteria(t)
    <2>1. PICK criteria \in {"none", "pending"} : Edit(t, [board[t] EXCEPT !.criteria = criteria])
      BY <1>4 DEF SetCriteria
    <2>2. [board[t] EXCEPT !.criteria = criteria] \in Card
          /\ [board[t] EXCEPT !.criteria = criteria].status = board[t].status
      BY <1>0 DEF Card
    <2>3. work' = [work EXCEPT ![t].asked = FALSE]
      BY <1>4 DEF SetCriteria
    <2>4. QED
      BY <2>1, <2>2, <2>3 DEF Edits
  <1>5. ASSUME NEW lane \in {"todo", "doing", "done"}, MoveTask(t, lane)
        PROVE  Edits(t)
    <2> DEFINE moved == [board[t] EXCEPT !.lane = lane, !.status = "done"]
               back == [board[t] EXCEPT !.lane = lane, !.status = "draft"]
               over == [board[t] EXCEPT !.lane = lane]
    <2>1. /\ moved \in Card /\ moved.status = "done"
          /\ back \in Card /\ back.status = "draft"
          /\ over \in Card /\ over.status = board[t].status
      BY <1>0 DEF Card, TaskStatus
    <2>2. back.status \notin Busy
      BY <2>1 DEF Busy
    <2>3. Settle(back) \in Card /\ Settle(back).status \in {"draft", "ready", "done"}
      BY <2>1, <2>2, SettleStatus
    <2>4. Edit(t, moved) \/ Edit(t, Settle(back)) \/ Edit(t, over)
      <3>1. CASE lane = "done"
        BY <1>5, <3>1 DEF MoveTask
      <3>2. CASE lane # "done" /\ board[t].lane = "done"
        BY <1>5, <3>2 DEF MoveTask
      <3>3. CASE lane # "done" /\ board[t].lane # "done"
        BY <1>5, <3>3 DEF MoveTask
      <3>4. QED
        BY <3>1, <3>2, <3>3
    <2> HIDE DEF moved, back, over
    <2>5. QED
      BY <1>2, <1>5, <2>1, <2>3, <2>4 DEF MoveTask
  <1>6. ASSUME NEW s \in Sub, AddSubtask(t, s) \/ RemoveSubtask(t, s) \/ TickSubtask(t, s)
        PROVE  Edits(t)
    <2>1. ASSUME NEW status \in SubStatus
          PROVE  /\ [board[t] EXCEPT !.subs[s] = status] \in Card
                 /\ [board[t] EXCEPT !.subs[s] = status].status = board[t].status
      BY <1>0 DEF Card
    <2>2. CASE AddSubtask(t, s)
      <3> DEFINE card == [board[t] EXCEPT !.subs[s] = "pending"]
      <3>1. card \in Card /\ card.status = board[t].status
        BY <2>1 DEF SubStatus
      <3>2. Edit(t, Settle(card)) /\ UNCHANGED work
        BY <2>2 DEF AddSubtask
      <3> HIDE DEF card
      <3>3. QED
        BY <1>0, <1>2, <3>1, <3>2, SettleStatus
    <2>3. CASE RemoveSubtask(t, s)
      <3> DEFINE card == [board[t] EXCEPT !.subs[s] = "absent"]
      <3>1. card \in Card /\ card.status = board[t].status
        BY <2>1 DEF SubStatus
      <3>2. Edit(t, Settle(card)) /\ UNCHANGED work
        BY <2>3 DEF RemoveSubtask
      <3> HIDE DEF card
      <3>3. QED
        BY <1>0, <1>2, <3>1, <3>2, SettleStatus
    <2>4. CASE TickSubtask(t, s)
      <3>1. PICK status \in {"done", "pending"} : Edit(t, [board[t] EXCEPT !.subs[s] = status])
        BY <2>4 DEF TickSubtask
      <3>2. status \in SubStatus
        BY DEF SubStatus
      <3>3. QED
        BY <1>2, <2>1, <2>4, <3>1, <3>2 DEF TickSubtask
    <2>5. QED
      BY <1>6, <2>2, <2>3, <2>4
  <1>7. QED
    BY <1>3, <1>4, <1>5, <1>6 DEF UserEdits

\* Nobody edits what a run holds, so an edit touches no task at work.
LEMMA EditKeepsLife ==
  ASSUME LifeInv, NEW t \in Task, Edits(t)
  PROVE  t \notin Held /\ HeldIsBusy' /\ CheckIsSaid' /\ PastIsComplete' /\ PiecesTell' /\ NotYetOk'
  <1>1. PICK card \in Card, asked \in BOOLEAN :
          Edit(t, card) /\ work' = [work EXCEPT ![t].asked = asked]
    BY DEF Edits
  <1>2. board' = [board EXCEPT ![t] = card] /\ UNCHANGED <<run, piece>>
        /\ Present(t) /\ board[t].status \notin Busy
    BY <1>1 DEF Edit
  <1>3. Held' = Held /\ \A u \in Task : work'[u].at = work[u].at
    BY <1>1, <1>2, SameCoroutines DEF LifeInv
  <1>4. t \notin Held
    BY <1>2 DEF LifeInv, HeldIsBusy, RunBusy, Busy
  <1>5. work[t].at \in AtRest
    BY <1>4, AtWorkIsHeld DEF LifeInv
  <1>6. \A u \in Task : u # t => board'[u] = board[u]
    BY <1>2, Fields DEF LifeInv
  <1>7. Held \subseteq Task
    BY DEF Held, LifeInv, BoardInv, Typed, JobState
  <1>8. HeldIsBusy'
    BY <1>3, <1>4, <1>6, <1>7 DEF LifeInv, HeldIsBusy, Present
  <1>9. CheckIsSaid'
    BY <1>3, <1>5, <1>6 DEF LifeInv, CheckIsSaid, Present, Checking, AtRest
  <1>10. PastIsComplete'
    BY <1>3, <1>5, <1>6 DEF LifeInv, PastIsComplete, Present, Complete, SubsOf, Past, Checking, AtRest
  <1>11. PiecesTell'
    BY <1>2, <1>3, <1>5, <1>6 DEF LifeInv, PiecesTell, Present, SubsOf, AtRest
  <1>12. NotYetOk'
    BY <1>2 DEF LifeInv, NotYetOk
  <1>13. QED
    BY <1>4, <1>8, <1>9, <1>10, <1>11, <1>12

\* What the run, the user's buttons and a crash leave: every coroutine as it was,
\* or none, or one about to read its task.
LEMMA RunKeepsLife ==
  ASSUME LifeInv, BoardInv',
         \/ RunBegins \/ RunReturns \/ Stop \/ Crash \/ UNCHANGED vars
         \/ \E chosen \in SUBSET Task : Play(chosen)
  PROVE  HeldIsBusy' /\ CheckIsSaid' /\ PastIsComplete' /\ PiecesTell' /\ NotYetOk'
  <1>0. /\ BoardInv /\ board \in [Task -> Card] /\ Held' \subseteq Task
    BY DEF LifeInv, BoardInv, Typed, JobState, Held
  <1>1. Idle.at = "off" /\ [Idle EXCEPT !.at = "begin"].at = "begin" /\ NoPiece.ok = FALSE
    BY DEF Idle, NoPiece
  <1>2. CASE RunReturns \/ Crash
    <2>1. \A t \in Task : work'[t].at = "off"
      BY <1>1, <1>2 DEF RunReturns, Crash
    <2>2. NotYetOk'
      BY <1>1, <1>2 DEF RunReturns, Crash, LifeInv, NotYetOk
    <2>3. QED
      BY <1>0, <2>1, <2>2 DEF HeldIsBusy, Held, CheckIsSaid, PastIsComplete, PiecesTell, Past, Checking
  <1>3. CASE RunBegins
    <2>1. ASSUME NEW t \in Task
          PROVE  work'[t].at = IF t \in run.tasks THEN "begin" ELSE "off"
      BY <1>1, <1>3 DEF RunBegins
    <2>2. ASSUME NEW t \in Held', Present(t)'
          PROVE  board'[t].status \in RunBusy
      <3>1. t \in Task /\ t \in run.tasks
        BY <1>0, <2>1, <2>2 DEF Held
      <3>2. board[t] \in Card /\ board'[t] = IF Present(t) THEN Queued(board[t]) ELSE board[t]
        BY <1>0, <1>3, <3>1 DEF RunBegins
      <3>3. Present(t)
        BY <2>2, <3>2 DEF Present
      <3>4. Queued(board[t]).status = "queued"
        BY <3>2 DEF Queued, Card
      <3>5. QED
        BY <3>2, <3>3, <3>4 DEF RunBusy
    <2>3. CheckIsSaid' /\ PastIsComplete' /\ PiecesTell'
      BY <2>1 DEF CheckIsSaid, PastIsComplete, PiecesTell, Past, Checking
    <2>4. NotYetOk'
      BY <1>3 DEF RunBegins, LifeInv, NotYetOk
    <2>5. QED
      BY <2>2, <2>3, <2>4 DEF HeldIsBusy
  <1>4. CASE UNCHANGED <<board, work, piece>>
    <2>1. Held' \subseteq Held
      <3> SUFFICES ASSUME NEW t \in Held' PROVE t \in Held
        OBVIOUS
      <3>1. t \in Task /\ work[t].at \notin AtRest
        BY <1>0, <1>4 DEF Held, AtRest
      <3>2. QED
        BY <1>0, <3>1, AtWorkIsHeld
    <2>2. QED
      BY <1>4, <2>1 DEF LifeInv, HeldIsBusy, CheckIsSaid, PastIsComplete, PiecesTell, NotYetOk,
                        Present, SubsOf, Complete
  <1>5. QED
    BY <1>2, <1>3, <1>4 DEF Play, Stop, vars

\* The steps there are without planners.
LEMMA NoPlanner ==
  ASSUME Job = {}, [Next]_vars
  PROVE  \/ \E t \in Task : TaskStep(t) \/ TaskAgentEnds(t) \/ UserEdits(t)
         \/ \E t \in Task, s \in Sub : PieceStep(t, s) \/ PieceAgentEnds(t, s)
         \/ RunBegins \/ RunReturns \/ Stop \/ Crash \/ UNCHANGED vars
         \/ \E chosen \in SUBSET Task : Play(chosen)
  BY DEF Next, UserEdits, Plan, StartJob

\* Without planners, every step keeps the invariant.
LEMMA LifeStep ==
  ASSUME LifeInv, Job = {}, [Next]_vars
  PROVE  LifeInv'
  <1>1. BoardInv'
    BY BoardInvStep DEF LifeInv
  <1>2. HeldIsBusy' /\ CheckIsSaid' /\ PastIsComplete' /\ PiecesTell' /\ NotYetOk'
    <2>1. ASSUME NEW t \in Task, TaskStep(t) \/ TaskAgentEnds(t) \/ UserEdits(t)
          PROVE  HeldIsBusy' /\ CheckIsSaid' /\ PastIsComplete' /\ PiecesTell' /\ NotYetOk'
      BY <2>1, StepKeepsLife, UserEditsOne, EditKeepsLife DEF LifeInv
    <2>2. ASSUME NEW t \in Task, NEW s \in Sub, PieceStep(t, s) \/ PieceAgentEnds(t, s)
          PROVE  HeldIsBusy' /\ CheckIsSaid' /\ PastIsComplete' /\ PiecesTell' /\ NotYetOk'
      BY <2>2, PieceKeepsLife
    <2>3. QED
      BY <1>1, <2>1, <2>2, NoPlanner, RunKeepsLife
  <1>3. QED
    BY <1>1, <1>2 DEF LifeInv

\* A board that was loaded is in nobody's hands.
LEMMA InitLife == Init => LifeInv
  <1> SUFFICES ASSUME Init PROVE LifeInv
    OBVIOUS
  <1>1. BoardInv
    BY InitBoardInv
  <1>2. \A t \in Task : work[t].at = "off"
    BY DEF Init, Idle
  <1>3. \A t \in Task, s \in Sub : piece[t][s].ok = FALSE
    BY DEF Init, NoPiece
  <1>4. Held \subseteq Task
    BY <1>1 DEF Held, BoardInv, Typed, JobState
  <1>5. QED
    BY <1>1, <1>2, <1>3, <1>4
    DEF LifeInv, HeldIsBusy, Held, CheckIsSaid, PastIsComplete, PiecesTell, NotYetOk, Past, Checking

-----------------------------------------------------------------------------
(* What the board promises without planners.                               *)

\* "queued/running/verifying: a run holds it, and nothing may edit it": the guard
\* of BoardService.apply reads the status, and the run keeps the status busy for
\* as long as it holds the task.
THEOREM NothingHeldIsEdited == ASSUME Job = {} PROVE Spec => HeldNotEdited
  <1> DEFINE Goal == \A t \in Held : count'.edits # count.edits => board'[t] = board[t]
  <1>1. LifeInv /\ [Next]_vars => LifeInv'
    BY LifeStep
  <1>2. LifeInv /\ [Next]_vars => [Goal]_vars
    <2> SUFFICES ASSUME LifeInv, [Next]_vars, NEW t \in Held, count'.edits # count.edits
                 PROVE  board'[t] = board[t]
      OBVIOUS
    <2>1. /\ board \in [Task -> Card] /\ t \in Task
          /\ count \in [plays : 0..MaxPlays, edits : 0..MaxEdits, crashes : 0..MaxCrashes]
      BY DEF LifeInv, BoardInv, Typed, Held, JobState
    <2>2. ~UNCHANGED count
      OBVIOUS
    <2>3. CASE \E u \in Task : UserEdits(u)
      <3>1. PICK u \in Task : UserEdits(u)
        BY <2>3
      <3>2. Edits(u) /\ u \notin Held
        BY <3>1, UserEditsOne, EditKeepsLife DEF LifeInv
      <3>3. PICK card \in Card : board' = [board EXCEPT ![u] = card]
        BY <3>2 DEF Edits, Edit
      <3>4. QED
        BY <2>1, <3>2, <3>3
    <2>4. CASE Crash
      BY <2>1, <2>4 DEF Crash
    <2>5. CASE \E chosen \in SUBSET Task : Play(chosen)
      BY <2>1, <2>5 DEF Play, Played
    <2>6. CASE RunBegins \/ RunReturns \/ Stop \/ UNCHANGED vars
      BY <2>2, <2>6 DEF RunBegins, RunReturns, Stop, vars
    <2>7. ASSUME NEW u \in Task, TaskStep(u) \/ TaskAgentEnds(u)
          PROVE  UNCHANGED count
      BY <2>7, StepFollows DEF LifeInv
    <2>8. ASSUME NEW u \in Task, NEW s \in Sub, PieceStep(u, s) \/ PieceAgentEnds(u, s)
          PROVE  UNCHANGED count
      BY <2>8, PieceStepMoves DEF LifeInv, PieceMoves
    <2>9. QED
      BY <2>2, <2>3, <2>4, <2>5, <2>6, <2>7, <2>8, NoPlanner
  <1>3. QED
    BY InitLife, <1>1, <1>2, PTL DEF Spec, HeldNotEdited

\* A run that says a task is done has all of its sub-tasks done
\* (BoardRunner._work_task, _run_subtasks): no edit brings one in, or un-ticks
\* one, while the run works on the task.
THEOREM DoneTasksAreComplete == ASSUME Job = {} PROVE Spec => DoneIsComplete
  <1> DEFINE Goal == \A t \in Task :
                       work'[t].outcome = "done" /\ work[t].outcome # "done" /\ Present(t) =>
                         \A s \in SubsOf(t) : board'[t].subs[s] = "done"
  <1>1. LifeInv /\ [Next]_vars => LifeInv'
    BY LifeStep
  <1>2. LifeInv /\ [Next]_vars => [Goal]_vars
    <2> SUFFICES ASSUME LifeInv, [Next]_vars, NEW t \in Task,
                        work'[t].outcome = "done", work[t].outcome # "done", Present(t)
                 PROVE  \A s \in SubsOf(t) : board'[t].subs[s] = "done"
      OBVIOUS
    <2>1. work \in [Task -> Work] /\ board \in [Task -> Card]
      BY DEF LifeInv, BoardInv, Typed
    <2>2. ASSUME NEW u \in Task, TaskStep(u) \/ TaskAgentEnds(u)
          PROVE  \A s \in SubsOf(t) : board'[t].subs[s] = "done"
      <3>1. PICK card \in Card, w \in Work : Moves(u, card, w)
        BY <2>2, StepMoves DEF LifeInv, TaskMoves
      <3>2. u = t /\ board'[t].subs = board[t].subs
        BY <2>1, <3>1 DEF Moves
      <3>3. Complete(t)
        BY <2>2, <3>2, StepComplete
      <3>4. QED
        BY <3>2, <3>3 DEF Complete
    <2>3. ASSUME \/ \E u \in Task : UserEdits(u)
                 \/ \E u \in Task, s \in Sub : PieceStep(u, s) \/ PieceAgentEnds(u, s)
                 \/ RunBegins \/ RunReturns \/ Stop \/ Crash \/ UNCHANGED vars
                 \/ \E chosen \in SUBSET Task : Play(chosen)
          PROVE  FALSE
      <3>1. CASE \E u \in Task : UserEdits(u)
        <4>1. PICK u \in Task, asked \in BOOLEAN : work' = [work EXCEPT ![u].asked = asked]
          BY <3>1, UserEditsOne DEF LifeInv, Edits
        <4>2. work'[t].outcome = work[t].outcome
          BY <2>1, <4>1 DEF Work
        <4>3. QED
          BY <4>2
      <3>2. CASE \E u \in Task, s \in Sub : PieceStep(u, s) \/ PieceAgentEnds(u, s)
        <4>1. UNCHANGED work
          BY <3>2, PieceStepMoves DEF LifeInv, PieceMoves
        <4>2. QED
          BY <4>1
      <3>3. CASE RunBegins \/ RunReturns \/ Crash
        <4>1. Idle.outcome = "none" /\ [Idle EXCEPT !.at = "begin"].outcome = "none"
          BY DEF Idle
        <4>2. work'[t].outcome = "none"
          BY <3>3, <4>1 DEF RunBegins, RunReturns, Crash
        <4>3. QED
          BY <4>2
      <3>4. CASE Stop \/ UNCHANGED vars \/ \E chosen \in SUBSET Task : Play(chosen)
        BY <3>4 DEF Stop, Play, vars
      <3>5. QED
        BY <2>3, <3>1, <3>2, <3>3, <3>4
    <2>4. QED
      BY <2>2, <2>3, NoPlanner
  <1>3. QED
    BY InitLife, <1>1, <1>2, PTL DEF Spec, DoneIsComplete

-----------------------------------------------------------------------------
(* The board implements TaskLife, step by step.                            *)

\* A change of one card is a change of one status.
LEMMA OneStatus ==
  ASSUME BoardInv, NEW t \in Task, NEW card \in Card, board' = [board EXCEPT ![t] = card]
  PROVE  /\ Life!Became(t, card.status)
         /\ card.status = board[t].status =>
              [u \in Task |-> board[u].status]' = [u \in Task |-> board[u].status]
  <1>1. board \in [Task -> Card]
    BY Fields
  <1>2. \A u \in Task : board'[u].status = IF u = t THEN card.status ELSE board[u].status
    BY <1>1
  <1>3. Life!Became(t, card.status)
    BY <1>2 DEF Life!Became
  <1>4. QED
    BY <1>2, <1>3

\* A step of the coroutine of a task moves it on, lets it go or stutters.
LEMMA StepLives ==
  ASSUME LifeInv, NEW t \in Task, TaskStep(t) \/ TaskAgentEnds(t)
  PROVE  Life!MoveOn(t) \/ Life!LetGo(t) \/ UNCHANGED Life!vars
  <1>0. BoardInv /\ UNCHANGED run /\ StatusGoes(t)
    BY StepGoes, StepFollows DEF LifeInv
  <1>1. PICK card \in Card, w \in Work : Moves(t, card, w)
    BY <1>0, StepMoves DEF TaskMoves
  <1>2. /\ board \in [Task -> Card] /\ work \in [Task -> Work] /\ run.tasks \subseteq Task
        /\ board' = [board EXCEPT ![t] = card] /\ work' = [work EXCEPT ![t] = w]
    BY <1>0, <1>1 DEF BoardInv, Typed, JobState, Moves
  <1>3. board'[t] = card /\ \A u \in Task : u # t => work'[u] = work[u]
    BY <1>2
  <1>4. /\ work'[t].at \notin AtRest /\ work[t].at \notin AtRest => Held' = Held
        /\ work'[t].at \in AtRest /\ work[t].at \in AtRest => Held' = Held
        /\ work'[t].at \in AtRest => Held' = Held \ {t}
    BY <1>0, <1>2, <1>3 DEF Held, AtRest
  <1>5. /\ Life!Became(t, card.status)
        /\ card.status = board[t].status =>
             [u \in Task |-> board[u].status]' = [u \in Task |-> board[u].status]
    BY <1>0, <1>2, OneStatus
  <1>6. work[t].at \notin AtRest => t \in Held /\ (Present(t) => board[t].status \in RunBusy)
    BY <1>0, AtWorkIsHeld DEF LifeInv, HeldIsBusy
  <1>7. [u \in Task |-> board[u].status][t] = board[t].status
    OBVIOUS
  <1>8. CASE Stays(t)
    BY <1>0, <1>3, <1>4, <1>5, <1>8 DEF Stays, Life!vars
  <1>9. CASE ToCheck(t) \/ ToWork(t)
    <2>1. t \in Held /\ board[t].status \in Life!Working /\ Held' = Held /\ run'.stop = run.stop
      BY <1>0, <1>4, <1>6, <1>9 DEF ToCheck, ToWork, AtRest, Life!Working, RunBusy
    <2>2. \/ ~run.stop /\ board[t].status = "queued" /\ card.status = "running"
          \/ ~run.stop /\ card.status = "verifying"
          \/ board[t].status = "verifying" /\ card.status = "running"
      BY <1>3, <1>9 DEF ToCheck, ToWork
    <2>3. Life!MoveOn(t)
      BY <1>5, <1>7, <2>1, <2>2 DEF Life!MoveOn
    <2>4. QED
      BY <2>3
  <1>10. CASE GoesOut(t)
    <2>1. t \in Held /\ Held' = Held \ {t} /\ run'.stop = run.stop
      BY <1>0, <1>4, <1>6, <1>10 DEF GoesOut, AtRest
    <2>2. \/ board[t].status = "absent" /\ card.status = board[t].status
          \/ board[t].status # "absent" /\ ~run.stop /\ card.status = "done"
          \/ board[t].status # "absent" /\ card.status = "failed"
          \/ board[t].status # "absent" /\ run.stop /\ card.status \in {"stopped", "ready", "draft"}
      BY <1>3, <1>10 DEF GoesOut, Present
    <2>3. Life!LetGo(t)
      BY <1>5, <1>7, <2>1, <2>2 DEF Life!LetGo
    <2>4. QED
      BY <2>3
  <1>11. QED
    BY <1>0, <1>8, <1>9, <1>10 DEF StatusGoes

\* A step of the coroutine of a sub-task moves its task on or stutters.
LEMMA PieceStepsLife ==
  ASSUME LifeInv, NEW t \in Task, NEW s \in Sub, PieceStep(t, s) \/ PieceAgentEnds(t, s)
  PROVE  Life!MoveOn(t) \/ UNCHANGED Life!vars
  <1>1. PICK p \in Piece, card \in Card : OnePiece(t, s, p, card)
    BY PieceStepLives DEF PieceLives
  <1>2. UNCHANGED <<run, work>> /\ work[t].at = "subs" /\ BoardInv
    BY PieceStepMoves DEF PieceMoves, LifeInv, BoardInv, Owned
  <1>3. t \in Held /\ Held' = Held /\ run'.stop = run.stop
    BY <1>2, AtWorkIsHeld DEF Held, AtRest
  <1>4. /\ Life!Became(t, card.status)
        /\ card.status = board[t].status =>
             [u \in Task |-> board[u].status]' = [u \in Task |-> board[u].status]
    BY <1>1, <1>2, OneStatus DEF OnePiece
  <1>5. [u \in Task |-> board[u].status][t] = board[t].status
    OBVIOUS
  <1>6. CASE card.status = board[t].status
    BY <1>3, <1>4, <1>6 DEF Life!vars
  <1>7. CASE ~run.stop /\ board[t].status = "queued" /\ card.status = "running"
    <2>1. Life!MoveOn(t)
      BY <1>3, <1>4, <1>5, <1>7 DEF Life!MoveOn, Life!Working
    <2>2. QED
      BY <2>1
  <1>8. QED
    BY <1>1, <1>6, <1>7 DEF OnePiece

\* An edit changes a task nobody holds, or stutters.
LEMMA EditLives ==
  ASSUME LifeInv, NEW t \in Task, UserEdits(t)
  PROVE  Life!Change(t) \/ UNCHANGED Life!vars
  <1>0. BoardInv /\ t \notin Held /\ Edits(t)
    BY UserEditsOne, EditKeepsLife DEF LifeInv
  <1>1. PICK card \in Card, asked \in BOOLEAN :
          /\ Edit(t, card) /\ work' = [work EXCEPT ![t].asked = asked]
          /\ card.status \in {board[t].status, "draft", "ready", "done", "absent"}
    BY <1>0 DEF Edits
  <1>2. board' = [board EXCEPT ![t] = card] /\ UNCHANGED <<run, piece>>
        /\ Present(t) /\ board[t].status \notin Busy
    BY <1>1 DEF Edit
  <1>3. Held' = Held /\ run'.stop = run.stop
    BY <1>0, <1>1, <1>2, SameCoroutines
  <1>4. /\ Life!Became(t, card.status)
        /\ card.status = board[t].status =>
             [u \in Task |-> board[u].status]' = [u \in Task |-> board[u].status]
    BY <1>0, <1>2, OneStatus
  <1>5. [u \in Task |-> board[u].status][t] = board[t].status
    OBVIOUS
  <1>6. CASE card.status = board[t].status
    BY <1>3, <1>4, <1>6 DEF Life!vars
  <1>7. CASE card.status \in {"draft", "ready", "done", "absent"}
    <2>1. board[t].status \in TaskStatus
      BY <1>0, Fields DEF Card
    <2>2. board[t].status \in Life!Free \ {"absent"}
      BY <1>2, <2>1 DEF Present, TaskStatus, Busy, Life!Free
    <2>3. Life!Change(t)
      BY <1>0, <1>3, <1>4, <1>5, <1>7, <2>2 DEF Life!Change
    <2>4. QED
      BY <2>3
  <1>8. QED
    BY <1>1, <1>6, <1>7

\* The run takes its tasks and returns, the user's buttons stop it or begin
\* another, a crash ends it.
LEMMA RunLives ==
  ASSUME LifeInv, Job = {},
         \/ RunBegins \/ RunReturns \/ Stop \/ Crash
         \/ \E chosen \in SUBSET Task : Play(chosen)
  PROVE  Life!Next \/ UNCHANGED Life!vars
  <1>0. /\ BoardInv /\ board \in [Task -> Card] /\ run \in JobState
        /\ \A t \in Task : work[t].at # "off" => run.phase = "working" /\ t \in run.tasks
    BY DEF LifeInv, BoardInv, Typed, Owned
  <1>1. NoRun.stop = FALSE /\ NoRun.tasks = {} /\ Idle.at = "off"
        /\ [Idle EXCEPT !.at = "begin"].at = "begin"
    BY DEF NoRun, Idle
  <1>2. run.tasks \subseteq Task
    BY <1>0 DEF JobState
  <1>3. Held = {} => \A t \in Task : board[t].status \in Life!Free
    <2> SUFFICES ASSUME Held = {}, NEW t \in Task PROVE board[t].status \in Life!Free
      OBVIOUS
    <2>1. board[t].status \notin RunBusy /\ board[t].status # "planning"
      BY <1>0, NothingPlanned DEF BoardInv, BusyIsHeld, RunBusy
    <2>2. QED
      BY <1>0, <2>1 DEF Card, TaskStatus, RunBusy, Life!Free
  <1>4. CASE RunBegins
    <2>1. Held = {}
      BY <1>0, <1>2, <1>4 DEF RunBegins, Held
    <2>2. run'.tasks = run.tasks /\ run'.stop = run.stop
      BY <1>0, <1>4 DEF RunBegins, JobState
    <2>3. Held' = run.tasks
      <3>1. \A t \in run.tasks : work'[t].at = "begin"
        BY <1>1, <1>2, <1>4 DEF RunBegins
      <3>2. QED
        BY <2>2, <3>1 DEF Held
    <2>4. ASSUME NEW t \in Task
          PROVE  board'[t].status = IF t \in run.tasks /\ board[t].status # "absent"
                                    THEN "queued" ELSE board[t].status
      <3>1. board'[t] = IF t \in run.tasks /\ Present(t) THEN Queued(board[t]) ELSE board[t]
        BY <1>4 DEF RunBegins
      <3>2. Queued(board[t]).status = "queued"
        BY <1>0 DEF Queued, Card
      <3>3. QED
        BY <3>1, <3>2 DEF Present
    <2>5. PICK tasks \in SUBSET Task : tasks = run.tasks
      BY <1>2
    <2>6. Life!Take(tasks)
      BY <1>3, <2>1, <2>2, <2>3, <2>4, <2>5 DEF Life!Take
    <2>7. QED
      BY <2>6 DEF Life!Next
  <1>5. CASE RunReturns
    <2>1. Held = {} /\ Held' = {} /\ run'.stop = FALSE /\ UNCHANGED board
      BY <1>1, <1>5 DEF RunReturns, Held
    <2>2. Life!Return
      BY <2>1 DEF Life!Return
    <2>3. QED
      BY <2>2 DEF Life!Next
  <1>6. CASE Stop
    <2>1. UNCHANGED <<board, work>> /\ run'.tasks = run.tasks
          /\ (run'.stop = TRUE \/ run'.stop = run.stop)
      BY <1>0, <1>6 DEF Stop, JobState
    <2>2. Held' = Held
      BY <2>1 DEF Held
    <2>3. CASE run'.stop = TRUE
      <3>1. Life!Halt
        BY <2>1, <2>2, <2>3 DEF Life!Halt
      <3>2. QED
        BY <3>1 DEF Life!Next
    <2>4. CASE run'.stop = run.stop
      BY <2>1, <2>2, <2>4 DEF Life!vars
    <2>5. QED
      BY <2>1, <2>3, <2>4
  <1>7. CASE Crash
    <2>1. Held' = {} /\ run'.stop = FALSE
      BY <1>1, <1>7 DEF Crash, Held
    <2>2. ASSUME NEW t \in Task
          PROVE  board'[t].status = IF board[t].status \in Life!Working THEN "stopped"
                                    ELSE board[t].status
      <3>1. board[t] \in Card /\ board'[t] = Repaired(board[t]) /\ board[t].status # "planning"
        BY <1>0, <1>7, NothingPlanned DEF Crash
      <3>2. Repaired(board[t]).status = IF board[t].status \in Busy THEN "stopped"
                                        ELSE board[t].status
        BY <3>1 DEF Repaired, Card
      <3>3. QED
        BY <3>1, <3>2 DEF Busy, Life!Working
    <2>3. Life!Die
      BY <2>1, <2>2 DEF Life!Die
    <2>4. QED
      BY <2>3 DEF Life!Next
  <1>8. ASSUME NEW chosen \in SUBSET Task, Play(chosen)
        PROVE  Life!Next \/ UNCHANGED Life!vars
    <2>1. UNCHANGED <<board, work>> /\ run.phase = "idle"
      BY <1>8 DEF Play
    <2>2. \A t \in Task : work[t].at = "off"
      BY <1>0, <2>1
    <2>3. CASE run' = run
      BY <2>1, <2>3 DEF Life!vars, Held
    <2>4. CASE run' # run
      <3>1. PICK tasks \in SUBSET Task : run' = [phase |-> "starting", tasks |-> tasks, stop |-> FALSE]
        BY <1>8, <2>4 DEF Play
      <3>2. Held = {} /\ Held' = {} /\ run'.stop = FALSE
        BY <1>2, <2>1, <2>2, <3>1 DEF Held
      <3>3. Life!Return
        BY <2>1, <3>2 DEF Life!Return
      <3>4. QED
        BY <3>3 DEF Life!Next
    <2>5. QED
      BY <2>3, <2>4
  <1>9. QED
    BY <1>4, <1>5, <1>6, <1>7, <1>8

\* Without planners the board and its run implement TaskLife: a task is moved on
\* only by the run that holds it, a stopped run begins nothing and completes
\* nothing, and what is let go of is let go of once (BoardService, BoardRunner).
THEOREM BoardKeepsTaskLife == ASSUME Job = {} PROVE Spec => KeepsTaskLife
  <1>1. Init => Life!Init
    <2> SUFFICES ASSUME Init PROVE Life!Init
      OBVIOUS
    <2>1. \A t \in Task : board[t].status \in Life!Free
      <3>1. \A t \in Task : board[t] \in Card /\ board[t].status \notin Busy
        BY InitialBoardAssumption DEF Init
      <3>2. QED
        BY <3>1 DEF Card, TaskStatus, Busy, Life!Free
    <2>2. Held = {} /\ run.stop = FALSE
      BY DEF Init, Held, NoRun
    <2>3. QED
      BY <2>1, <2>2 DEF Life!Init
  <1>2. LifeInv /\ [Next]_vars => LifeInv'
    BY LifeStep
  <1>3. LifeInv /\ [Next]_vars => [Life!Next]_(Life!vars)
    <2> SUFFICES ASSUME LifeInv, [Next]_vars PROVE Life!Next \/ UNCHANGED Life!vars
      OBVIOUS
    <2>1. ASSUME NEW t \in Task, TaskStep(t) \/ TaskAgentEnds(t)
          PROVE  Life!Next \/ UNCHANGED Life!vars
      BY <2>1, StepLives DEF Life!Next
    <2>2. ASSUME NEW t \in Task, NEW s \in Sub, PieceStep(t, s) \/ PieceAgentEnds(t, s)
          PROVE  Life!Next \/ UNCHANGED Life!vars
      BY <2>2, PieceStepsLife DEF Life!Next
    <2>3. ASSUME NEW t \in Task, UserEdits(t)
          PROVE  Life!Next \/ UNCHANGED Life!vars
      BY <2>3, EditLives DEF Life!Next
    <2>4. CASE UNCHANGED vars
      BY <2>4 DEF vars, Life!vars, Held
    <2>5. QED
      BY <2>1, <2>2, <2>3, <2>4, RunLives, NoPlanner
  <1>4. QED
    BY InitLife, <1>1, <1>2, <1>3, PTL DEF Spec, KeepsTaskLife, Life!Spec
=============================================================================
