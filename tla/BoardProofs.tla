----------------------------- MODULE BoardProofs -----------------------------
(***************************************************************************)
(* What holds of BoardRun for every board, every number of tasks, slots,   *)
(* rounds, planner jobs, edits and crashes.                                *)
(***************************************************************************)
EXTENDS BoardRun, FiniteSetTheorems, TLAPS

RunBusy == {"queued", "running", "verifying"}
AtRest == {"off", "leaving", "ended"}
Fixing == {"fixSlot", "fixAgent"}

-----------------------------------------------------------------------------
(* The invariant.                                                          *)

JobState == [phase : {"idle", "starting", "working"}, tasks : SUBSET Task, stop : BOOLEAN]

\* The types of everything but the slots; a fix is never the last round.
Typed ==
  /\ board \in [Task -> Card]
  /\ run \in JobState
  /\ work \in [Task -> Work]
  /\ piece \in [Task -> [Sub -> Piece]]
  /\ jobs \in [Job -> JobState]
  /\ count \in [plays : 0..MaxPlays, edits : 0..MaxEdits, crashes : 0..MaxCrashes]
  /\ \A t \in Task : work[t].at \in Fixing => work[t].round < FixRounds

\* A coroutine at work belongs to the run, and a sub-task's to a task that
\* waits for its sub-tasks.
Owned ==
  /\ \A t \in Task : work[t].at # "off" => run.phase = "working" /\ t \in run.tasks
  /\ \A t \in Task, s \in Sub : piece[t][s].at \notin {"off", "ended"} => work[t].at = "subs"

BoardInv == Typed /\ Owned /\ BusyIsHeld

\* The types of one task, as the steps of its coroutine use them.
LEMMA Fields ==
  ASSUME BoardInv, NEW t \in Task
  PROVE  /\ board[t] \in Card /\ work[t] \in Work /\ piece[t] \in [Sub -> Piece]
         /\ board \in [Task -> Card] /\ work \in [Task -> Work]
         /\ work[t].round \in 0..FixRounds /\ work[t].at \in Point /\ work[t].outcome \in Outcome
  BY DEF BoardInv, Typed, Work

-----------------------------------------------------------------------------
(* The steps of one task.                                                  *)

\* What every step of the coroutine of t comes to: its own card and its own
\* state change, a card it leaves busy is one it still holds, a stopped run makes
\* no card done, a task is called done with its criteria passed, and a card that
\* is gone stays so.
Moves(t, card, w) ==
  /\ board' = [board EXCEPT ![t] = card]
  /\ work' = [work EXCEPT ![t] = w]
  /\ w.at # "off"
  /\ w.at \in Fixing => w.round < FixRounds
  /\ card.status \in RunBusy => w.at \notin AtRest
  /\ card.status = "planning" => board[t].status = "planning"
  /\ card.status = "done" => board[t].status = "done" \/ ~run.stop
  /\ ~Present(t) => card.status = "absent"
  /\ card.subs = board[t].subs
  /\ w.outcome = "done" =>
       work[t].outcome = "done" \/ ~Present(t) \/ card.criteria \in {"none", "passed"}
TaskMoves(t) == \E card \in Card, w \in Work : Moves(t, card, w)

\* The end of a task leaves a card nobody holds.
LEMMA FinishedCard ==
  ASSUME NEW card \in Card, NEW outcome \in {"done", "failed", "stopped"}
  PROVE  /\ Finished(card, outcome) \in Card
         /\ Finished(card, outcome).status \notin Busy
         /\ Finished(card, outcome).subs = card.subs
         /\ Finished(card, outcome).criteria = card.criteria
         /\ Finished(card, outcome).status = "done" => outcome = "done"
  <1>1. CASE outcome = "done"
    <2>1. Finished(card, outcome) = [card EXCEPT !.status = "done", !.lane = "done"]
      BY <1>1 DEF Finished
    <2>2. "done" \in TaskStatus /\ "done" \notin Busy
      BY DEF TaskStatus, Busy
    <2>3. QED
      BY <1>1, <2>1, <2>2 DEF Card
  <1>2. CASE outcome = "stopped" /\ card.lane # "doing"
    <2>1. Finished(card, outcome) = [card EXCEPT !.status = Settled(card)]
      BY <1>2 DEF Finished
    <2>2. Settled(card) \in TaskStatus /\ Settled(card) \notin Busy /\ Settled(card) # "done"
      BY DEF Settled, TaskStatus, Busy
    <2>3. QED
      BY <2>1, <2>2 DEF Card
  <1>3. CASE outcome = "failed" \/ (outcome = "stopped" /\ card.lane = "doing")
    <2>1. Finished(card, outcome) = [card EXCEPT !.status = outcome]
      BY <1>3 DEF Finished
    <2>2. outcome \in TaskStatus /\ outcome \notin Busy /\ outcome # "done"
      BY <1>3 DEF TaskStatus, Busy
    <2>3. QED
      BY <2>1, <2>2 DEF Card
  <1>4. QED
    BY <1>1, <1>2, <1>3

\* A change of the card of t, which changes nothing if t is gone.
LEMMA ChangedCard ==
  ASSUME BoardInv, NEW t \in Task, NEW card \in Card
  PROVE  \E new \in Card :
           /\ Changed(t, card) = [board EXCEPT ![t] = new]
           /\ IF Present(t) THEN new = card ELSE new = board[t] /\ new.status = "absent"
  <1>1. board \in [Task -> Card] /\ board[t] \in Card
    BY Fields
  <1>2. CASE Present(t)
    BY <1>1, <1>2 DEF Changed
  <1>3. CASE ~Present(t)
    BY <1>1, <1>3 DEF Changed, Present
  <1>4. QED
    BY <1>2, <1>3

\* A task ends: it is done only if the run goes on and its criteria passed.
LEMMA LeaveMoves ==
  ASSUME BoardInv, NEW t \in Task, NEW outcome \in {"done", "failed", "stopped"},
         Leave(t, outcome),
         outcome = "done" =>
           ~run.stop /\ (Present(t) => board[t].criteria \in {"none", "passed"})
  PROVE  TaskMoves(t)
  <1> DEFINE w == [work[t] EXCEPT !.at = "leaving", !.outcome = outcome]
  <1>1. board[t] \in Card /\ work[t] \in Work /\ work \in [Task -> Work]
    BY Fields
  <1>2. /\ Finished(board[t], outcome) \in Card
        /\ Finished(board[t], outcome).status \notin Busy
        /\ Finished(board[t], outcome).subs = board[t].subs
        /\ Finished(board[t], outcome).criteria = board[t].criteria
        /\ Finished(board[t], outcome).status = "done" => outcome = "done"
    BY <1>1, FinishedCard
  <1>3. PICK card \in Card :
          /\ Changed(t, Finished(board[t], outcome)) = [board EXCEPT ![t] = card]
          /\ IF Present(t) THEN card = Finished(board[t], outcome)
             ELSE card = board[t] /\ card.status = "absent"
    BY <1>2, ChangedCard
  <1>4. card.status \notin Busy
    BY <1>2, <1>3 DEF Busy
  <1>5. w \in Work /\ w.at = "leaving" /\ w.outcome = outcome
    BY <1>1 DEF Work, Point, Outcome
  <1>6. board' = [board EXCEPT ![t] = card] /\ work' = [work EXCEPT ![t] = w]
    BY <1>1, <1>3 DEF Leave
  <1>7. Moves(t, card, w)
    BY <1>2, <1>3, <1>4, <1>5, <1>6 DEF Moves, Busy, RunBusy, Fixing
  <1>8. QED
    BY <1>5, <1>7 DEF TaskMoves

\* The coroutine of a task that was removed ends and changes no card.
LEMMA VanishMoves ==
  ASSUME BoardInv, NEW t \in Task, ~Present(t), Vanish(t)
  PROVE  TaskMoves(t)
  <1> DEFINE w == [work[t] EXCEPT !.at = "ended", !.outcome = "gone"]
  <1>1. board[t] \in Card /\ work[t] \in Work /\ board \in [Task -> Card] /\ work \in [Task -> Work]
    BY Fields
  <1>2. w \in Work /\ w.at = "ended" /\ w.outcome = "gone"
    BY <1>1 DEF Work, Point, Outcome
  <1>3. board' = [board EXCEPT ![t] = board[t]] /\ work' = [work EXCEPT ![t] = w]
    BY <1>1 DEF Vanish
  <1>4. Moves(t, board[t], w)
    BY <1>2, <1>3 DEF Moves, Present, RunBusy, Fixing
  <1>5. QED
    BY <1>1, <1>2, <1>4 DEF TaskMoves

\* The end of a check that passed or was cut short by the stop.
LEMMA ConcludeMoves ==
  ASSUME BoardInv, NEW t \in Task, Conclude(t),
         run.stop \/ ~Present(t) \/ board[t].criteria \in {"none", "passed"}
  PROVE  TaskMoves(t)
  BY LeaveMoves DEF Conclude

\* A coroutine that goes on, or ends after it has let go of its card.
LEMMA GoOnMoves ==
  ASSUME BoardInv, NEW t \in Task, NEW card \in Card, NEW w \in Work,
         board' = [board EXCEPT ![t] = card], work' = [work EXCEPT ![t] = w],
         \/ card.status = board[t].status
         \/ Present(t) /\ w.at \notin AtRest /\ card.status \in RunBusy,
         card.subs = board[t].subs, w.outcome = work[t].outcome,
         w.at # "off", w.at \in AtRest => work[t].at \in AtRest,
         w.at \in Fixing => w.round < FixRounds
  PROVE  TaskMoves(t)
  <1>1. board[t].status \in RunBusy => work[t].at \notin AtRest
    BY DEF BoardInv, BusyIsHeld, Held, RunBusy, AtRest
  <1>2. Moves(t, card, w)
    BY <1>1 DEF Moves, Present, RunBusy
  <1>3. QED
    BY <1>2 DEF TaskMoves

\* A coroutine that goes on and leaves its card alone.
LEMMA GoToMoves ==
  ASSUME BoardInv, NEW t \in Task, NEW point \in Point \ (AtRest \cup Fixing), GoTo(t, point)
  PROVE  TaskMoves(t)
  <1> DEFINE w == [work[t] EXCEPT !.at = point]
  <1>1. board[t] \in Card /\ work[t] \in Work /\ board \in [Task -> Card] /\ work \in [Task -> Work]
    BY Fields
  <1>2. w \in Work /\ w.at = point /\ w.outcome = work[t].outcome
    BY <1>1 DEF Work
  <1>3. board' = [board EXCEPT ![t] = board[t]] /\ work' = [work EXCEPT ![t] = w]
    BY <1>1 DEF GoTo
  <1>4. QED
    BY <1>1, <1>2, <1>3, GoOnMoves DEF AtRest

\* A coroutine that goes on and marks its card busy.
LEMMA StatusMoves ==
  ASSUME BoardInv, NEW t \in Task, NEW status \in RunBusy, NEW w \in Work,
         Present(t), board' = Status(t, status), work' = [work EXCEPT ![t] = w],
         w.outcome = work[t].outcome, w.at \notin AtRest, w.at \in Fixing => w.round < FixRounds
  PROVE  TaskMoves(t)
  <1> DEFINE card == [board[t] EXCEPT !.status = status]
  <1>1. board[t] \in Card /\ status # "planning" /\ status \in TaskStatus
    BY Fields DEF RunBusy, TaskStatus
  <1>2. card \in Card /\ card.status = status /\ card.subs = board[t].subs
    BY <1>1 DEF Card
  <1>3. board' = [board EXCEPT ![t] = card]
    BY DEF Status, Changed
  <1>4. QED
    BY <1>1, <1>2, <1>3, GoOnMoves DEF AtRest

\* The head of the loop of _verify.
LEMMA VerifyMoves ==
  ASSUME BoardInv, NEW t \in Task, NEW round \in 0..FixRounds, Verify(t, round)
  PROVE  TaskMoves(t)
  <1>1. CASE ~Present(t) /\ Vanish(t)
    BY <1>1, VanishMoves
  <1>2. CASE board[t].criteria = "none" /\ Conclude(t)
    BY <1>2, ConcludeMoves
  <1>3. CASE /\ Present(t) /\ board[t].criteria # "none"
             /\ board' = Status(t, "verifying")
             /\ work' = [work EXCEPT ![t].at = "verifySlot", ![t].round = round,
                                     ![t].asked = TRUE]
    <2> DEFINE w == [work[t] EXCEPT !.at = "verifySlot", !.round = round, !.asked = TRUE]
    <2>1. work[t] \in Work /\ work \in [Task -> Work]
      BY Fields
    <2>2. w \in Work /\ w.at = "verifySlot" /\ w.outcome = work[t].outcome
      BY <2>1 DEF Work, Point
    <2>3. work' = [work EXCEPT ![t] = w]
      BY <1>3, <2>1
    <2>4. QED
      BY <1>3, <2>2, <2>3, StatusMoves DEF RunBusy, AtRest, Fixing
  <1>4. QED
    BY <1>1, <1>2, <1>3 DEF Verify

\* The end of the work of a task, before its check.
LEMMA WorkedMoves ==
  ASSUME BoardInv, NEW t \in Task, NEW ok \in BOOLEAN, Worked(t, ok)
  PROVE  TaskMoves(t)
  <1>1. 0 \in 0..FixRounds
    BY BoundAssumption
  <1>2. QED
    BY <1>1, LeaveMoves, VerifyMoves DEF Worked

\* Every step of the coroutine of a task is one of the moves above.
LEMMA StepMoves ==
  ASSUME BoardInv, NEW t \in Task, TaskStep(t) \/ TaskAgentEnds(t)
  PROVE  TaskMoves(t)
  <1>0. /\ board[t] \in Card /\ work[t] \in Work
        /\ board \in [Task -> Card] /\ work \in [Task -> Work]
    BY Fields
  <1>1. CASE GoneAtStart(t)
    BY <1>1, VanishMoves DEF GoneAtStart
  <1>2. CASE AwaitDependency(t)
    <2>1. PICK k \in 1..Len(DependsOn[t]) :
            work' = [work EXCEPT ![t].at = "deps",
                                 ![t].waits = {DependsOn[t][i] : i \in k..Len(DependsOn[t])}
                                                \cap Waits(t)]
      BY <1>2 DEF AwaitDependency
    <2> DEFINE waits == {DependsOn[t][i] : i \in k..Len(DependsOn[t])} \cap Waits(t)
               w == [work[t] EXCEPT !.at = "deps", !.waits = waits]
    <2>2. waits \in SUBSET Task
      BY <1>0 DEF Waits, Work
    <2>3. w \in Work /\ w.at = "deps" /\ w.outcome = work[t].outcome
      BY <1>0, <2>2 DEF Work, Point
    <2>4. work' = [work EXCEPT ![t] = w] /\ board' = [board EXCEPT ![t] = board[t]]
      BY <1>0, <1>2, <2>1 DEF AwaitDependency
    <2>5. QED
      BY <1>0, <2>3, <2>4, GoOnMoves DEF AtRest, Fixing
  <1>3. CASE FailDependency(t)
    BY <1>3, LeaveMoves DEF FailDependency
  <1>4. CASE StartWork(t)
    BY <1>4, LeaveMoves, VanishMoves, GoToMoves DEF StartWork, Point, AtRest, Fixing
  <1>5. CASE JoinPieces(t)
    BY <1>5, WorkedMoves DEF JoinPieces
  <1>6. CASE TakeWholeSlot(t)
    <2>1. CASE Leave(t, "stopped")
      BY <2>1, LeaveMoves
    <2>2. CASE /\ board' = Changed(t, StartedCard(board[t]))
               /\ work' = [work EXCEPT ![t].at = "wholeStarted"]
      <3> DEFINE w == [work[t] EXCEPT !.at = "wholeStarted"]
      <3>1. /\ StartedCard(board[t]) \in Card
            /\ StartedCard(board[t]).status \in {"running", board[t].status}
            /\ StartedCard(board[t]).subs = board[t].subs
        BY <1>0 DEF StartedCard, Card, TaskStatus
      <3>2. PICK card \in Card :
              /\ board' = [board EXCEPT ![t] = card]
              /\ (Present(t) /\ card = StartedCard(board[t])) \/ card = board[t]
        BY <2>2, <3>1, ChangedCard
      <3>3. w \in Work /\ w.at = "wholeStarted" /\ w.outcome = work[t].outcome
        BY <1>0 DEF Work, Point
      <3>4. work' = [work EXCEPT ![t] = w]
        BY <1>0, <2>2
      <3>5. QED
        BY <3>1, <3>2, <3>3, <3>4, GoOnMoves DEF AtRest, Fixing, RunBusy
    <2>3. QED
      BY <1>6, <2>1, <2>2 DEF TakeWholeSlot
  <1>7. CASE HireWhole(t)
    BY <1>7, WorkedMoves, GoToMoves DEF HireWhole, Point, AtRest, Fixing
  <1>8. CASE WholeLanded(t)
    <2>1. work[t].ok \in BOOLEAN
      BY <1>0 DEF Work
    <2>2. QED
      BY <1>8, <2>1, WorkedMoves DEF WholeLanded
  <1>9. CASE TakeVerifySlot(t)
    <2>1. CASE run.stop /\ Conclude(t)
      BY <2>1, ConcludeMoves
    <2>2. ASSUME NEW asked \in {work[t].asked, TRUE}, UNCHANGED board,
                 work' = [work EXCEPT ![t].at = "verifyAgent", ![t].asked = asked]
          PROVE  TaskMoves(t)
      <3> DEFINE w == [work[t] EXCEPT !.at = "verifyAgent", !.asked = asked]
      <3>1. w \in Work /\ w.at = "verifyAgent" /\ w.outcome = work[t].outcome
        BY <1>0 DEF Work, Point
      <3>2. work' = [work EXCEPT ![t] = w] /\ board' = [board EXCEPT ![t] = board[t]]
        BY <1>0, <2>2
      <3>3. QED
        BY <1>0, <3>1, <3>2, GoOnMoves DEF AtRest, Fixing
    <2>3. QED
      BY <1>9, <2>1, <2>2 DEF TakeVerifySlot, SlotRefused
  <1>10. CASE Judged(t)
    <2>1. CASE ~Present(t) /\ Vanish(t)
      BY <2>1, VanishMoves
    <2>2. CASE Passed(t) /\ Conclude(t)
      BY <2>2, ConcludeMoves DEF Passed
    <2>3. CASE Leave(t, "failed")
      BY <2>3, LeaveMoves
    <2>4. CASE /\ Present(t) /\ work[t].round < FixRounds
               /\ board' = Status(t, "running") /\ work' = [work EXCEPT ![t].at = "fixSlot"]
      <3> DEFINE w == [work[t] EXCEPT !.at = "fixSlot"]
      <3>1. w \in Work /\ w.at = "fixSlot" /\ w.round = work[t].round /\ w.outcome = work[t].outcome
        BY <1>0 DEF Work, Point
      <3>2. work' = [work EXCEPT ![t] = w]
        BY <1>0, <2>4
      <3>3. QED
        BY <2>4, <3>1, <3>2, StatusMoves DEF RunBusy, AtRest
    <2>5. QED
      BY <1>10, <2>1, <2>2, <2>3, <2>4 DEF Judged
  <1>11. CASE TakeFixSlot(t)
    <2>1. CASE run.stop /\ Conclude(t)
      BY <2>1, ConcludeMoves
    <2>2. CASE work[t].at = "fixSlot" /\ GoTo(t, "fixAgent")
      <3> DEFINE w == [work[t] EXCEPT !.at = "fixAgent"]
      <3>1. w \in Work /\ w.at = "fixAgent" /\ w.round = work[t].round /\ w.outcome = work[t].outcome
        BY <1>0 DEF Work, Point
      <3>2. work' = [work EXCEPT ![t] = w] /\ board' = [board EXCEPT ![t] = board[t]]
        BY <1>0, <2>2 DEF GoTo
      <3>3. work[t].round < FixRounds
        BY <2>2 DEF BoardInv, Typed, Fixing
      <3>4. QED
        BY <1>0, <3>1, <3>2, <3>3, GoOnMoves DEF AtRest
    <2>3. QED
      BY <1>11, <2>1, <2>2 DEF TakeFixSlot, SlotRefused, SlotTaken
  <1>12. CASE TaskEnds(t)
    <2> DEFINE w == [work[t] EXCEPT !.at = "ended"]
    <2>1. w \in Work /\ w.at = "ended" /\ w.outcome = work[t].outcome
      BY <1>0 DEF Work, Point
    <2>2. work' = [work EXCEPT ![t] = w] /\ board' = [board EXCEPT ![t] = board[t]]
      BY <1>0, <1>12 DEF TaskEnds, GoTo
    <2>3. work[t].at \in AtRest
      BY <1>12 DEF TaskEnds, AtRest
    <2>4. QED
      BY <1>0, <2>1, <2>2, <2>3, GoOnMoves DEF Fixing
  <1>13. ASSUME NEW outcome \in Endings, WholeEnds(t, outcome)
         PROVE  TaskMoves(t)
    <2> DEFINE w == [work[t] EXCEPT !.at = "wholeLanded", !.ok = outcome = "completed"]
    <2>1. w \in Work /\ w.at = "wholeLanded" /\ w.outcome = work[t].outcome
      BY <1>0 DEF Work, Point
    <2>2. work' = [work EXCEPT ![t] = w] /\ board' = [board EXCEPT ![t] = board[t]]
      BY <1>0, <1>13 DEF WholeEnds
    <2>3. QED
      BY <1>0, <2>1, <2>2, GoOnMoves DEF AtRest, Fixing
  <1>14. ASSUME NEW outcome \in Endings, FixerEnds(t, outcome)
         PROVE  TaskMoves(t)
    <2>1. CASE Verify(t, work[t].round + 1)
      <3>1. work[t].round \in 0..FixRounds /\ work[t].round < FixRounds
        BY <1>14, Fields DEF FixerEnds, AgentGone, BoardInv, Typed, Fixing
      <3>2. work[t].round + 1 \in 0..FixRounds
        BY <3>1, BoundAssumption
      <3>3. QED
        BY <2>1, <3>2, VerifyMoves
    <2>2. QED
      BY <1>14, <2>1, LeaveMoves DEF FixerEnds
  <1>15. ASSUME NEW outcome \in Endings, NEW verdict \in Verdicts, VerifierEnds(t, outcome, verdict)
         PROVE  TaskMoves(t)
    <2>1. CASE Leave(t, "stopped")
      BY <2>1, LeaveMoves
    <2>2. CASE ~Leave(t, "stopped")
      <3> DEFINE w == [work[t] EXCEPT !.at = "judged", !.ok = verdict # "unreadable"]
                 judged == IF work[t].asked \/ verdict = "failed" THEN verdict ELSE "pending"
                 card == [board[t] EXCEPT !.criteria = judged]
      <3>1. w \in Work /\ w.at = "judged" /\ w.outcome = work[t].outcome
        BY <1>0 DEF Work, Point
      <3>2. work' = [work EXCEPT ![t] = w]
        BY <1>0, <1>15, <2>2 DEF VerifierEnds
      <3>3. CASE verdict = "unreadable"
        <4>1. board' = [board EXCEPT ![t] = board[t]]
          BY <1>0, <1>15, <2>2, <3>3 DEF VerifierEnds
        <4>2. QED
          BY <1>0, <3>1, <3>2, <4>1, GoOnMoves DEF AtRest, Fixing
      <3>4. CASE verdict # "unreadable"
        <4>1. judged \in {"pending", "failed", "passed"}
          BY <3>4 DEF Verdicts
        <4>2. card \in Card /\ card.status = board[t].status /\ card.subs = board[t].subs
          BY <1>0, <4>1 DEF Card
        <4>3. board' = [board EXCEPT ![t] = board[t]] \/ board' = [board EXCEPT ![t] = card]
          BY <1>0, <1>15, <2>2, <3>4 DEF VerifierEnds, Changed
        <4>4. QED
          BY <1>0, <3>1, <3>2, <4>2, <4>3, GoOnMoves DEF AtRest, Fixing
      <3>5. QED
        BY <3>3, <3>4
    <2>3. QED
      BY <2>1, <2>2
  <1>16. QED
    BY <1>1, <1>2, <1>3, <1>4, <1>5, <1>6, <1>7, <1>8, <1>9, <1>10, <1>11, <1>12, <1>13, <1>14, <1>15
    DEF TaskStep, TaskAgentEnds

-----------------------------------------------------------------------------
(* The invariant is kept by the coroutines of a run.                       *)

\* What a step of the coroutine of t does to the coroutines of its sub-tasks.
PiecesFollow(t) ==
  \/ UNCHANGED piece /\ work[t].at # "subs"
  \/ \E p \in [Sub -> Piece] :
       /\ piece' = [piece EXCEPT ![t] = p]
       /\ \A s \in Sub : /\ piece[t][s].at \in {"off", "ended"}
                         /\ p[s].at \in {"off", "ended", "deps"}
                         /\ p[s].at = "deps" => work'[t].at = "subs"

\* A step of the coroutine of a task leaves the run, the planners and the user alone.
LEMMA StepFollows ==
  ASSUME BoardInv, NEW t \in Task, TaskStep(t) \/ TaskAgentEnds(t)
  PROVE  UNCHANGED <<run, jobs, count>> /\ work[t].at \notin {"off", "ended"} /\ PiecesFollow(t)
  <1>0. work \in [Task -> Work] /\ piece \in [Task -> [Sub -> Piece]] /\ "pending" \in SubStatus
    BY DEF BoardInv, Typed, SubStatus
  <1>1. CASE StartWork(t)
    <2>1. work[t].at \in {"begin", "deps"} /\ UNCHANGED <<run, jobs, count>>
      BY <1>1 DEF StartWork, Looking
    <2>2. CASE UNCHANGED piece
      BY <2>1, <2>2 DEF PiecesFollow
    <2>3. CASE ~UNCHANGED piece
      <3> DEFINE p == [s \in Sub |-> CASE board[t].subs[s] = "absent" -> NoPiece
                                        [] board[t].subs[s] = "done" ->
                                             [at |-> "ended", ok |-> TRUE]
                                        [] OTHER -> [at |-> "deps", ok |-> FALSE]]
      <3>1. piece' = [piece EXCEPT ![t] = p] /\ GoTo(t, "subs")
        BY <1>1, <2>3 DEF StartWork
      <3>2. p \in [Sub -> Piece] /\ \A s \in Sub : p[s].at \in {"off", "ended", "deps"}
        <4>1. ASSUME NEW s \in Sub
              PROVE  p[s] \in {NoPiece, [at |-> "ended", ok |-> TRUE], [at |-> "deps", ok |-> FALSE]}
          BY DEF NoPiece
        <4>2. {NoPiece, [at |-> "ended", ok |-> TRUE], [at |-> "deps", ok |-> FALSE]} \subseteq Piece
          BY DEF NoPiece, Piece, PiecePoint
        <4>3. \A s \in Sub : p[s].at \in {"off", "ended", "deps"}
          BY <4>1 DEF NoPiece
        <4>4. QED
          BY <4>1, <4>2, <4>3
      <3>3. work'[t].at = "subs"
        BY <1>0, <3>1 DEF GoTo, Work
      <3>4. \A s \in Sub : piece[t][s].at \in {"off", "ended"}
        BY <2>1 DEF BoardInv, Owned
      <3>5. QED
        BY <2>1, <3>1, <3>2, <3>3, <3>4 DEF PiecesFollow
    <2>4. QED
      BY <2>2, <2>3
  <1>2. CASE JoinPieces(t)
    <2> DEFINE p == [s \in Sub |-> NoPiece]
    <2>1. p \in [Sub -> Piece] /\ \A s \in Sub : p[s].at \in {"off", "ended"}
      BY DEF NoPiece, Piece, PiecePoint
    <2>2. piece' = [piece EXCEPT ![t] = p]
      BY <1>2 DEF JoinPieces
    <2>3. QED
      BY <1>2, <2>1, <2>2 DEF JoinPieces, PiecesFollow
  <1>3. CASE \/ GoneAtStart(t) \/ AwaitDependency(t) \/ FailDependency(t) \/ TakeWholeSlot(t)
             \/ HireWhole(t) \/ WholeLanded(t) \/ TakeVerifySlot(t) \/ Judged(t)
             \/ TakeFixSlot(t) \/ TaskEnds(t) \/ TaskAgentEnds(t)
    BY <1>3 DEF GoneAtStart, AwaitDependency, FailDependency, TakeWholeSlot, HireWhole, WholeLanded,
                TakeVerifySlot, Judged, TakeFixSlot, TaskEnds, TaskAgentEnds, WholeEnds, FixerEnds,
                VerifierEnds, Looking, SlotRefused, SlotTaken, AgentGone, PiecesFollow
  <1>4. QED
    BY <1>1, <1>2, <1>3 DEF TaskStep

\* Whatever the coroutine of a task does within these limits keeps the invariant.
LEMMA MovesKeep ==
  ASSUME BoardInv, NEW t \in Task, TaskMoves(t), PiecesFollow(t),
         UNCHANGED <<run, jobs, count>>, work[t].at # "off"
  PROVE  BoardInv'
  <1>1. PICK card \in Card, w \in Work : Moves(t, card, w)
    BY DEF TaskMoves
  <1>2. /\ board' = [board EXCEPT ![t] = card] /\ board \in [Task -> Card]
        /\ work' = [work EXCEPT ![t] = w] /\ work \in [Task -> Work]
        /\ w.at # "off"
        /\ w.at \in Fixing => w.round < FixRounds
        /\ card.status \in RunBusy => w.at \notin AtRest
        /\ card.status = "planning" => board[t].status = "planning"
    BY <1>1, Fields DEF Moves
  <1>3. piece' \in [Task -> [Sub -> Piece]]
    BY DEF PiecesFollow, BoardInv, Typed
  <1>4. board' \in [Task -> Card] /\ work' \in [Task -> Work]
    BY <1>2
  <1>5. \A u \in Task : work'[u].at \in Fixing => work'[u].round < FixRounds
    <2>1. \A u \in Task : work[u].at \in Fixing => work[u].round < FixRounds
      BY DEF BoardInv, Typed
    <2>2. ASSUME NEW u \in Task, work'[u].at \in Fixing
          PROVE  work'[u].round < FixRounds
      BY <1>2, <2>1, <2>2
    <2>3. QED
      BY <2>2
  <1>6. Typed'
    BY <1>3, <1>4, <1>5 DEF BoardInv, Typed
  <1>7. Owned'
    <2>1. \A u \in Task : work'[u].at # "off" => run'.phase = "working" /\ u \in run'.tasks
      BY <1>2 DEF BoardInv, Owned
    <2>2. ASSUME NEW u \in Task, NEW s \in Sub, piece'[u][s].at \notin {"off", "ended"}
          PROVE  work'[u].at = "subs"
      <3>1. piece \in [Task -> [Sub -> Piece]]
            /\ \A v \in Task : piece[v][s].at \notin {"off", "ended"} => work[v].at = "subs"
        BY DEF BoardInv, Owned, Typed
      <3>2. CASE UNCHANGED piece /\ work[t].at # "subs"
        BY <1>2, <2>2, <3>1, <3>2
      <3>3. CASE ~(UNCHANGED piece /\ work[t].at # "subs")
        <4>0. PICK p \in [Sub -> Piece] :
                /\ piece' = [piece EXCEPT ![t] = p]
                /\ \A q \in Sub : /\ p[q].at \in {"off", "ended", "deps"}
                                  /\ p[q].at = "deps" => work'[t].at = "subs"
          BY <3>3 DEF PiecesFollow
        <4>1. CASE u = t
          <5>1. piece'[u] = p
            BY <3>1, <4>0, <4>1
          <5>2. QED
            BY <2>2, <4>0, <4>1, <5>1
        <4>2. CASE u # t
          <5>1. piece'[u] = piece[u] /\ work'[u] = work[u]
            BY <1>2, <3>1, <4>0, <4>2
          <5>2. QED
            BY <2>2, <3>1, <5>1
        <4>3. QED
          BY <4>1, <4>2
      <3>4. QED
        BY <3>2, <3>3
    <2>3. QED
      BY <2>1, <2>2 DEF Owned
  <1>8. BusyIsHeld'
    <2>1. ASSUME NEW u \in Task, board'[u].status \in RunBusy
          PROVE  u \in Held'
      BY <1>2, <2>1 DEF BoardInv, Owned, BusyIsHeld, Held, RunBusy, AtRest
    <2>2. ASSUME NEW u \in Task, board'[u].status = "planning"
          PROVE  \E j \in Job : jobs'[j].phase = "working" /\ u \in jobs'[j].tasks
      BY <1>2, <2>2 DEF BoardInv, BusyIsHeld
    <2>3. QED
      BY <2>1, <2>2 DEF BusyIsHeld, RunBusy
  <1>9. QED
    BY <1>6, <1>7, <1>8 DEF BoardInv

AtSlot == {"slot", "started", "agent"}

\* What a step of the coroutine of sub-task s of t comes to: it seeks a slot only
\* when its siblings are done, and completes nothing once the run is stopped.
PieceGoes(t, s) ==
  \E p \in Piece :
    /\ piece' = [piece EXCEPT ![t][s] = p]
    /\ p.at \in AtSlot => piece[t][s].at \in AtSlot \/ \A d \in Siblings(t, s) : SubMet(t, d)
CardGoes(t) ==
  \E card \in Card :
    /\ board' = [board EXCEPT ![t] = card]
    /\ card.status \in {"running", board[t].status}
    /\ ~Present(t) => card.status = "absent"
    /\ \A q \in Sub : card.subs[q] = "done" => board[t].subs[q] = "done" \/ ~run.stop
PieceMoves(t, s) ==
  /\ piece[t][s].at \notin {"off", "ended"} /\ PieceGoes(t, s)
  /\ CardGoes(t)
  /\ UNCHANGED <<run, work, jobs, count>>

\* Every step of the coroutine of a sub-task is one of the moves above.
LEMMA PieceStepMoves ==
  ASSUME BoardInv, NEW t \in Task, NEW s \in Sub, PieceStep(t, s) \/ PieceAgentEnds(t, s)
  PROVE  PieceMoves(t, s)
  <1>0. /\ board[t] \in Card /\ board \in [Task -> Card]
        /\ piece \in [Task -> [Sub -> Piece]] /\ piece[t][s] \in Piece
    BY Fields DEF BoardInv, Typed
  <1>1. UNCHANGED board => CardGoes(t)
    <2>1. UNCHANGED board => board' = [board EXCEPT ![t] = board[t]]
      BY <1>0
    <2>2. QED
      BY <1>0, <2>1 DEF CardGoes, Present
  <1>2. ASSUME NEW point \in PiecePoint, PieceAt(t, s, point),
               point \in AtSlot =>
                 piece[t][s].at \in AtSlot \/ \A d \in Siblings(t, s) : SubMet(t, d)
        PROVE  PieceGoes(t, s)
    <2> DEFINE p == [piece[t][s] EXCEPT !.at = point]
    <2>1. p \in Piece /\ p.at = point
      BY <1>0 DEF Piece
    <2>2. piece' = [piece EXCEPT ![t][s] = p]
      BY <1>0, <1>2 DEF PieceAt
    <2>3. QED
      BY <1>2, <2>1, <2>2 DEF PieceGoes
  <1>3. ASSUME NEW status \in SubStatus, board' = SubIs(t, s, status), status = "done" => ~run.stop
        PROVE  CardGoes(t)
    <2> DEFINE card == [board[t] EXCEPT !.subs[s] = status]
    <2>1. card \in Card /\ card.status = board[t].status
      BY <1>0 DEF Card
    <2>2. \A q \in Sub : card.subs[q] = IF q = s THEN status ELSE board[t].subs[q]
      BY <1>0 DEF Card
    <2>3. \A q \in Sub : card.subs[q] = "done" => board[t].subs[q] = "done" \/ ~run.stop
      BY <1>3, <2>2
    <2>4. board' = [board EXCEPT ![t] = card] \/ board' = [board EXCEPT ![t] = board[t]]
      BY <1>0, <1>3 DEF SubIs, Changed
    <2>5. CASE board' = [board EXCEPT ![t] = card]
      BY <2>1, <2>3, <2>5 DEF CardGoes, Present
    <2>6. CASE board' = [board EXCEPT ![t] = board[t]]
      BY <1>0, <2>6 DEF CardGoes, Present
    <2>7. QED
      BY <2>4, <2>5, <2>6
  <1>4. CASE Block(t, s)
    BY <1>2, <1>3, <1>4 DEF Block, PieceMoves, PiecePoint, SubStatus, AtSlot
  <1>5. CASE SeekSlot(t, s)
    <2>1. PieceGoes(t, s)
      BY <1>2, <1>5 DEF SeekSlot, PiecePoint, AtSlot
    <2>2. QED
      BY <1>1, <1>5, <2>1 DEF SeekSlot, PieceMoves
  <1>6. CASE TakeSlot(t, s)
    <2>1. PieceGoes(t, s)
      BY <1>2, <1>6 DEF TakeSlot, PiecePoint, AtSlot
    <2>2. CASE run.stop
      BY <1>1, <1>6, <2>1, <2>2 DEF TakeSlot, PieceMoves
    <2>3. CASE ~run.stop
      <3>1. /\ StartedCard(board[t]) \in Card
            /\ StartedCard(board[t]).status \in {"running", board[t].status}
        BY <1>0 DEF StartedCard, Card, TaskStatus
      <3>2. PICK card \in Card :
              /\ board' = [board EXCEPT ![t] = card]
              /\ (Present(t) /\ card = StartedCard(board[t])) \/ card = board[t]
        BY <1>6, <2>3, <3>1, ChangedCard DEF TakeSlot
      <3>3. CardGoes(t)
        BY <1>0, <2>3, <3>1, <3>2 DEF CardGoes, Present
      <3>4. QED
        BY <1>6, <2>1, <3>3 DEF TakeSlot, PieceMoves
    <2>4. QED
      BY <2>2, <2>3
  <1>7. CASE HireWorker(t, s)
    <2>1. PieceGoes(t, s)
      BY <1>2, <1>7 DEF HireWorker, PiecePoint, AtSlot
    <2>2. CardGoes(t)
      BY <1>1, <1>3, <1>7 DEF HireWorker, SubStatus
    <2>3. QED
      BY <1>7, <2>1, <2>2 DEF HireWorker, PieceMoves
  <1>8. CASE PieceEnds(t, s)
    <2>1. PieceGoes(t, s)
      BY <1>2, <1>8 DEF PieceEnds, PiecePoint, AtSlot
    <2>2. QED
      BY <1>1, <1>8, <2>1 DEF PieceEnds, PieceMoves
  <1>9. ASSUME NEW outcome \in Endings, WorkerEnds(t, s, outcome)
        PROVE  PieceMoves(t, s)
    <2> DEFINE p == [piece[t][s] EXCEPT !.at = "leaving", !.ok = outcome = "completed"]
    <2>1. p \in Piece /\ p.at = "leaving"
      BY <1>0 DEF Piece, PiecePoint
    <2>2. piece' = [piece EXCEPT ![t][s] = p]
      BY <1>0, <1>9 DEF WorkerEnds
    <2>3. PieceGoes(t, s)
      BY <2>1, <2>2 DEF PieceGoes, AtSlot
    <2>4. CardGoes(t)
      BY <1>3, <1>9 DEF WorkerEnds, Hired, SubStatus, Endings
    <2>5. QED
      BY <1>9, <2>3, <2>4 DEF WorkerEnds, PieceMoves
  <1>10. QED
    BY <1>4, <1>5, <1>6, <1>7, <1>8, <1>9 DEF PieceStep, PieceAgentEnds

\* A sub-task's moves keep the invariant, since its task is held while it works.
LEMMA PieceMovesKeep ==
  ASSUME BoardInv, NEW t \in Task, NEW s \in Sub, PieceMoves(t, s)
  PROVE  BoardInv'
  <1>1. PICK p \in Piece : piece' = [piece EXCEPT ![t][s] = p]
    BY DEF PieceMoves, PieceGoes
  <1>2. PICK card \in Card : /\ board' = [board EXCEPT ![t] = card]
                             /\ card.status \in {"running", board[t].status}
    BY DEF PieceMoves, CardGoes
  <1>3. /\ board \in [Task -> Card] /\ piece \in [Task -> [Sub -> Piece]]
        /\ UNCHANGED <<run, work, jobs, count>> /\ work[t].at = "subs" /\ t \in Held
    BY DEF PieceMoves, BoardInv, Typed, Owned, Held
  <1>4. Typed'
    BY <1>1, <1>2, <1>3 DEF BoardInv, Typed
  <1>5. Owned'
    BY <1>1, <1>3 DEF BoardInv, Owned
  <1>6. BusyIsHeld'
    BY <1>2, <1>3 DEF BoardInv, BusyIsHeld, Held
  <1>7. QED
    BY <1>4, <1>5, <1>6 DEF BoardInv

-----------------------------------------------------------------------------
(* The invariant is kept by the planners, the user, the run and the crash. *)

\* What a check was asked may change and nobody moves.
LEMMA SameCoroutines ==
  ASSUME BoardInv, NEW t \in Task, NEW asked \in BOOLEAN,
         UNCHANGED <<run, piece>>, work' = [work EXCEPT ![t].asked = asked]
  PROVE  /\ work' \in [Task -> Work]
         /\ \A u \in Task : /\ work'[u].at = work[u].at /\ work'[u].round = work[u].round
                            /\ work'[u].outcome = work[u].outcome /\ work'[u].waits = work[u].waits
         /\ \A u \in Task : work'[u].at \in Fixing => work'[u].round < FixRounds
         /\ Owned' /\ Held' = Held
  <1>1. work \in [Task -> Work]
    BY Fields
  <1>2. work' \in [Task -> Work]
    BY <1>1 DEF Work
  <1>3. \A u \in Task : /\ work'[u].at = work[u].at /\ work'[u].round = work[u].round
                        /\ work'[u].outcome = work[u].outcome /\ work'[u].waits = work[u].waits
    BY <1>1 DEF Work
  <1>4. \A u \in Task : work'[u].at \in Fixing => work'[u].round < FixRounds
    BY <1>3 DEF BoardInv, Typed
  <1>5. Owned'
    BY <1>3 DEF BoardInv, Owned
  <1>6. run.tasks \in SUBSET Task
    BY DEF BoardInv, Typed, JobState
  <1>7. Held' = Held
    BY <1>3, <1>6 DEF Held
  <1>8. QED
    BY <1>2, <1>3, <1>4, <1>5, <1>7

\* An edit of a task nobody holds, to a card nobody holds.
LEMMA EditKeeps ==
  ASSUME BoardInv, NEW t \in Task, NEW card \in Card, card.status \notin Busy, Edit(t, card),
         NEW asked \in BOOLEAN, work' = [work EXCEPT ![t].asked = asked]
  PROVE  BoardInv'
  <1>1. board' = [board EXCEPT ![t] = card] /\ UNCHANGED <<run, piece, jobs>>
    BY DEF Edit
  <1>2. /\ work' \in [Task -> Work] /\ Owned' /\ Held' = Held
        /\ \A u \in Task : work'[u].at \in Fixing => work'[u].round < FixRounds
    BY <1>1, SameCoroutines
  <1>3. board \in [Task -> Card] /\ board' \in [Task -> Card]
    BY <1>1, Fields
  <1>4. count' \in [plays : 0..MaxPlays, edits : 0..MaxEdits, crashes : 0..MaxCrashes]
    BY BoundAssumption DEF Edit, BoardInv, Typed
  <1>5. Typed'
    BY <1>1, <1>2, <1>3, <1>4 DEF BoardInv, Typed
  <1>6. BusyIsHeld'
    BY <1>1, <1>2, <1>3 DEF BoardInv, BusyIsHeld, Busy
  <1>7. QED
    BY <1>2, <1>5, <1>6 DEF BoardInv

\* A card nobody works on is ready or a draft.
LEMMA SettledStatus ==
  ASSUME NEW card
  PROVE  Settled(card) \in {"ready", "draft"}
  BY DEF Settled

\* Settling the status of a card after an edit makes nothing busy.
LEMMA SettleCard ==
  ASSUME NEW card \in Card, card.status \notin Busy
  PROVE  Settle(card) \in Card /\ Settle(card).status \notin Busy
  <1> DEFINE status == CASE card.lane = "done" -> "done"
                         [] card.lane # "done" /\ card.status \in {"draft", "ready"} -> Settled(card)
                         [] OTHER -> card.status
  <1>1. Settle(card) = [card EXCEPT !.status = status]
    BY DEF Settle
  <1>2. status \in TaskStatus /\ status \notin Busy
    <2>1. CASE card.lane = "done"
      BY <2>1 DEF TaskStatus, Busy
    <2>2. CASE card.lane # "done" /\ card.status \in {"draft", "ready"}
      BY <2>2, SettledStatus DEF TaskStatus, Busy
    <2>3. CASE card.lane # "done" /\ card.status \notin {"draft", "ready"}
      BY <2>3 DEF Card
    <2>4. QED
      BY <2>1, <2>2, <2>3
  <1>3. QED
    BY <1>1, <1>2 DEF Card

\* The operations of the user: each leaves a card nobody holds.
LEMMA UserKeeps ==
  ASSUME BoardInv, NEW t \in Task,
         \/ RemoveTask(t) \/ SetCriteria(t) \/ \E lane \in {"todo", "doing", "done"} : MoveTask(t, lane)
         \/ \E s \in Sub : AddSubtask(t, s) \/ RemoveSubtask(t, s) \/ TickSubtask(t, s)
  PROVE  BoardInv'
  <1>0. board[t] \in Card /\ work[t].asked \in BOOLEAN /\ board[t].status \notin Busy
    BY Fields DEF Work, RemoveTask, SetCriteria, MoveTask, AddSubtask, RemoveSubtask, TickSubtask, Edit
  <1>1. UNCHANGED work => work' = [work EXCEPT ![t].asked = work[t].asked]
    BY Fields DEF Work
  <1>2. CASE RemoveTask(t)
    <2>1. [board[t] EXCEPT !.status = "absent"] \in Card
      BY <1>0 DEF Card, TaskStatus
    <2>2. [board[t] EXCEPT !.status = "absent"].status \notin Busy
      BY <1>0 DEF Card, Busy
    <2>3. QED
      BY <1>0, <1>1, <1>2, <2>1, <2>2, EditKeeps DEF RemoveTask
  <1>3. CASE SetCriteria(t)
    <2>1. PICK criteria \in {"none", "pending"} : Edit(t, [board[t] EXCEPT !.criteria = criteria])
      BY <1>3 DEF SetCriteria
    <2>2. /\ [board[t] EXCEPT !.criteria = criteria] \in Card
          /\ [board[t] EXCEPT !.criteria = criteria].status \notin Busy
      BY <1>0 DEF Card
    <2>3. QED
      BY <1>3, <2>1, <2>2, EditKeeps DEF SetCriteria
  <1>4. ASSUME NEW lane \in {"todo", "doing", "done"}, MoveTask(t, lane)
        PROVE  BoardInv'
    <2> DEFINE undone == [board[t] EXCEPT !.lane = lane, !.status = "draft"]
    <2>1. CASE lane = "done"
      <3>1. /\ [board[t] EXCEPT !.lane = lane, !.status = "done"] \in Card
            /\ [board[t] EXCEPT !.lane = lane, !.status = "done"].status \notin Busy
        BY <1>0 DEF Card, TaskStatus, Busy
      <3>2. Edit(t, [board[t] EXCEPT !.lane = lane, !.status = "done"]) /\ UNCHANGED work
        BY <1>4, <2>1 DEF MoveTask
      <3>3. QED
        BY <1>0, <1>1, <3>1, <3>2, EditKeeps
    <2>2. CASE lane # "done" /\ board[t].lane = "done"
      <3>1. undone \in Card /\ undone.status \notin Busy
        BY <1>0 DEF Card, TaskStatus, Busy
      <3>2. Settle(undone) \in Card /\ Settle(undone).status \notin Busy
        BY <3>1, SettleCard
      <3>3. Edit(t, Settle(undone)) /\ UNCHANGED work
        BY <1>4, <2>2 DEF MoveTask
      <3>4. QED
        BY <1>0, <1>1, <3>2, <3>3, EditKeeps
    <2>3. CASE lane # "done" /\ board[t].lane # "done"
      <3>1. [board[t] EXCEPT !.lane = lane] \in Card /\ [board[t] EXCEPT !.lane = lane].status \notin Busy
        BY <1>0 DEF Card
      <3>2. Edit(t, [board[t] EXCEPT !.lane = lane]) /\ UNCHANGED work
        BY <1>4, <2>3 DEF MoveTask
      <3>3. QED
        BY <1>0, <1>1, <3>1, <3>2, EditKeeps
    <2>4. QED
      BY <2>1, <2>2, <2>3
  <1>5. ASSUME NEW s \in Sub, NEW status \in SubStatus
        PROVE  /\ [board[t] EXCEPT !.subs[s] = status] \in Card
               /\ [board[t] EXCEPT !.subs[s] = status].status \notin Busy
    BY <1>0 DEF Card
  <1>6. "pending" \in SubStatus /\ "absent" \in SubStatus /\ "done" \in SubStatus
    BY DEF SubStatus
  <1>7. ASSUME NEW s \in Sub, AddSubtask(t, s)
        PROVE  BoardInv'
    <2> DEFINE card == Settle([board[t] EXCEPT !.subs[s] = "pending"])
    <2>1. card \in Card /\ card.status \notin Busy
      BY <1>5, <1>6, SettleCard
    <2>2. Edit(t, card) /\ UNCHANGED work
      BY <1>7 DEF AddSubtask
    <2>3. QED
      BY <1>0, <1>1, <2>1, <2>2, EditKeeps
  <1>8. ASSUME NEW s \in Sub, RemoveSubtask(t, s)
        PROVE  BoardInv'
    <2> DEFINE card == Settle([board[t] EXCEPT !.subs[s] = "absent"])
    <2>1. card \in Card /\ card.status \notin Busy
      BY <1>5, <1>6, SettleCard
    <2>2. Edit(t, card) /\ UNCHANGED work
      BY <1>8 DEF RemoveSubtask
    <2>3. QED
      BY <1>0, <1>1, <2>1, <2>2, EditKeeps
  <1>9. ASSUME NEW s \in Sub, TickSubtask(t, s)
        PROVE  BoardInv'
    <2>1. PICK status \in {"done", "pending"} : Edit(t, [board[t] EXCEPT !.subs[s] = status])
      BY <1>9 DEF TickSubtask
    <2>2. QED
      BY <1>0, <1>1, <1>5, <1>6, <1>9, <2>1, EditKeeps DEF TickSubtask
  <1>10. QED
    BY <1>2, <1>3, <1>4, <1>7, <1>8, <1>9

\* A planner takes drafts and lets go of them, one by one.
LEMMA PlanBeginsKeeps ==
  ASSUME BoardInv, NEW j \in Job, PlanBegins(j)
  PROVE  BoardInv'
  <1>0. /\ board \in [Task -> Card] /\ jobs \in [Job -> JobState] /\ "planning" \in TaskStatus
        /\ UNCHANGED <<run, work, piece, count>>
    BY DEF BoardInv, Typed, TaskStatus, PlanBegins
  <1>1. jobs' \in [Job -> JobState] /\ jobs'[j].phase = "working" /\ jobs'[j].tasks = jobs[j].tasks
        /\ \A i \in Job : i # j => jobs'[i] = jobs[i]
    BY <1>0 DEF PlanBegins, JobState
  <1>2. ASSUME NEW t \in Task
        PROVE  /\ board'[t] \in Card
               /\ \/ board'[t].status = "planning" /\ t \in jobs[j].tasks
                  \/ board'[t] = board[t]
    BY <1>0 DEF PlanBegins, Card
  <1>3. board' \in [Task -> Card]
    BY <1>2 DEF PlanBegins
  <1>4. Typed'
    BY <1>0, <1>1, <1>3 DEF BoardInv, Typed
  <1>5. Owned'
    BY <1>0 DEF BoardInv, Owned
  <1>6. BusyIsHeld'
    <2>1. ASSUME NEW t \in Task, board'[t].status \in RunBusy
          PROVE  t \in Held'
      BY <1>0, <1>2, <2>1 DEF BoardInv, BusyIsHeld, Held, RunBusy
    <2>2. ASSUME NEW t \in Task, board'[t].status = "planning"
          PROVE  \E i \in Job : jobs'[i].phase = "working" /\ t \in jobs'[i].tasks
      <3>1. CASE t \in jobs[j].tasks
        BY <1>1, <3>1
      <3>2. CASE t \notin jobs[j].tasks
        <4>1. PICK i \in Job : jobs[i].phase = "working" /\ t \in jobs[i].tasks
          BY <1>2, <2>2, <3>2 DEF BoardInv, BusyIsHeld
        <4>2. QED
          BY <1>1, <3>2, <4>1
      <3>3. QED
        BY <3>1, <3>2
    <2>3. QED
      BY <2>1, <2>2 DEF BusyIsHeld, RunBusy
  <1>7. QED
    BY <1>4, <1>5, <1>6 DEF BoardInv

\* A planner lets go of a task, whatever the run does with it meanwhile.
LEMMA PlanLandsKeeps ==
  ASSUME BoardInv, NEW j \in Job, NEW t \in Task, PlanLands(j, t)
  PROVE  BoardInv'
  <1>0. /\ board \in [Task -> Card] /\ board[t] \in Card /\ jobs \in [Job -> JobState]
        /\ work \in [Task -> Work] /\ work[t].asked \in BOOLEAN
        /\ UNCHANGED <<run, piece, count>>
    BY Fields DEF BoardInv, Typed, PlanLands, Work
  <1>1. /\ jobs' \in [Job -> JobState]
        /\ \A i \in Job : /\ jobs'[i].phase = jobs[i].phase
                          /\ jobs'[i].tasks = IF i = j THEN jobs[i].tasks \ {t} ELSE jobs[i].tasks
    <2> DEFINE job == [jobs[j] EXCEPT !.tasks = @ \ {t}]
    <2>1. jobs' = [jobs EXCEPT ![j] = job]
      BY <1>0 DEF PlanLands
    <2>2. job \in JobState /\ job.phase = jobs[j].phase /\ job.tasks = jobs[j].tasks \ {t}
      BY <1>0 DEF JobState
    <2>3. QED
      BY <1>0, <2>1, <2>2
  <1>2. \E card \in Card, asked \in BOOLEAN :
          /\ card.status \notin Busy \/ (~Present(t) /\ card = board[t])
          /\ board' = [board EXCEPT ![t] = card]
          /\ work' = [work EXCEPT ![t].asked = asked]
    <2>1. CASE board' = Status(t, Settled(board[t])) /\ UNCHANGED work
      <3> DEFINE card == [board[t] EXCEPT !.status = Settled(board[t])]
      <3>1. card \in Card /\ card.status \notin Busy
        BY <1>0, SettledStatus DEF Card, TaskStatus, Busy
      <3>2. work' = [work EXCEPT ![t].asked = work[t].asked]
        BY <1>0, <2>1 DEF Work
      <3>3. board' = Changed(t, card)
        BY <2>1 DEF Status
      <3> HIDE DEF card
      <3>4. PICK new \in Card : /\ board' = [board EXCEPT ![t] = new]
                                /\ IF Present(t) THEN new = card ELSE new = board[t]
        BY <3>1, <3>3, ChangedCard
      <3>5. QED
        BY <1>0, <3>1, <3>2, <3>4
    <2>2. ASSUME NEW planned \in SUBSET Sub \ {{}}, NEW criteria \in BOOLEAN,
                 board' = Changed(t, [board[t] EXCEPT
                            !.status = "ready",
                            !.criteria = IF criteria THEN "pending" ELSE @,
                            !.subs = [s \in Sub |-> IF s \in planned /\ @[s] = "absent"
                                                    THEN "pending" ELSE @[s]]]),
                 work' = [work EXCEPT ![t].asked = @ /\ ~criteria]
          PROVE  \E card \in Card, asked \in BOOLEAN :
                   /\ card.status \notin Busy \/ (~Present(t) /\ card = board[t])
                   /\ board' = [board EXCEPT ![t] = card]
                   /\ work' = [work EXCEPT ![t].asked = asked]
      <3> DEFINE subs == [s \in Sub |-> IF s \in planned /\ board[t].subs[s] = "absent"
                                        THEN "pending" ELSE board[t].subs[s]]
                 card == [board[t] EXCEPT
                            !.status = "ready",
                            !.criteria = IF criteria THEN "pending" ELSE board[t].criteria,
                            !.subs = subs]
      <3>1. subs \in [Sub -> SubStatus]
        BY <1>0 DEF Card, SubStatus
      <3>2. card \in Card /\ card.status \notin Busy
        BY <1>0, <3>1 DEF Card, TaskStatus, Busy
      <3>3. board' = Changed(t, card)
        BY <2>2
      <3>4. PICK new \in Card : /\ board' = [board EXCEPT ![t] = new]
                                /\ IF Present(t) THEN new = card ELSE new = board[t]
        BY <3>2, <3>3, ChangedCard
      <3>5. work' = [work EXCEPT ![t].asked = work[t].asked /\ ~criteria]
        BY <2>2
      <3>6. QED
        BY <1>0, <3>2, <3>4, <3>5
    <2>3. QED
      BY <2>1, <2>2 DEF PlanLands
  <1>3. PICK card \in Card, asked \in BOOLEAN :
          /\ card.status \notin Busy \/ (~Present(t) /\ card = board[t])
          /\ board' = [board EXCEPT ![t] = card]
          /\ work' = [work EXCEPT ![t].asked = asked]
    BY <1>2
  <1>4. card.status \notin Busy
    BY <1>3 DEF Present, Busy
  <1>5. /\ work' \in [Task -> Work] /\ Owned' /\ Held' = Held
        /\ \A u \in Task : work'[u].at \in Fixing => work'[u].round < FixRounds
    BY <1>0, <1>3, SameCoroutines
  <1>6. Typed'
    BY <1>0, <1>1, <1>3, <1>5 DEF BoardInv, Typed
  <1>7. BusyIsHeld'
    <2>1. \A u \in Task : board'[u] = IF u = t THEN card ELSE board[u]
      BY <1>0, <1>3
    <2>2. ASSUME NEW u \in Task, board'[u].status \in RunBusy
          PROVE  u \in Held'
      BY <1>4, <1>5, <2>1, <2>2 DEF BoardInv, BusyIsHeld, RunBusy, Busy
    <2>3. ASSUME NEW u \in Task, board'[u].status = "planning"
          PROVE  \E i \in Job : jobs'[i].phase = "working" /\ u \in jobs'[i].tasks
      <3>1. u # t /\ board[u].status = "planning"
        BY <1>4, <2>1, <2>3 DEF Busy
      <3>2. PICK i \in Job : jobs[i].phase = "working" /\ u \in jobs[i].tasks
        BY <3>1 DEF BoardInv, BusyIsHeld
      <3>3. QED
        BY <1>1, <3>1, <3>2
    <2>4. QED
      BY <2>2, <2>3 DEF BusyIsHeld, RunBusy
  <1>8. QED
    BY <1>5, <1>6, <1>7 DEF BoardInv

\* The jobs, and the run while nobody works for it, change nothing that is held.
LEMMA RequestKeeps ==
  ASSUME BoardInv, UNCHANGED <<board, work, piece>>,
         run' \in JobState, jobs' \in [Job -> JobState],
         count' \in [plays : 0..MaxPlays, edits : 0..MaxEdits, crashes : 0..MaxCrashes],
         \/ run'.phase = run.phase /\ run'.tasks = run.tasks
         \/ run.phase # "working",
         \A j \in Job : jobs[j].phase = "working" /\ jobs[j].tasks # {} =>
                          jobs'[j].phase = "working" /\ jobs'[j].tasks = jobs[j].tasks
  PROVE  BoardInv'
  <1>1. Typed'
    BY DEF BoardInv, Typed
  <1>2. Owned'
    BY DEF BoardInv, Owned
  <1>3. BusyIsHeld'
    <2>1. ASSUME NEW t \in Task, board[t].status \in RunBusy
          PROVE  t \in Held'
      BY <2>1 DEF BoardInv, BusyIsHeld, Owned, Held, RunBusy
    <2>2. ASSUME NEW t \in Task, board[t].status = "planning"
          PROVE  \E j \in Job : jobs'[j].phase = "working" /\ t \in jobs'[j].tasks
      <3>1. PICK j \in Job : jobs[j].phase = "working" /\ t \in jobs[j].tasks
        BY <2>2 DEF BoardInv, BusyIsHeld
      <3>2. QED
        BY <3>1
    <2>3. QED
      BY <2>1, <2>2 DEF BusyIsHeld, RunBusy
  <1>4. QED
    BY <1>1, <1>2, <1>3 DEF BoardInv

\* Play, Plan, Stop and the end of a planner job keep the invariant.
LEMMA RequestsKeep ==
  ASSUME BoardInv,
         \/ Stop \/ \E chosen \in SUBSET Task : Play(chosen) \/ Plan(chosen)
         \/ \E j \in Job : PlanReturns(j)
  PROVE  BoardInv'
  <1>0. /\ run \in JobState /\ jobs \in [Job -> JobState]
        /\ count \in [plays : 0..MaxPlays, edits : 0..MaxEdits, crashes : 0..MaxCrashes]
    BY DEF BoardInv, Typed
  <1>1. ASSUME NEW tasks \in SUBSET Task, StartJob(tasks)
        PROVE  /\ jobs' \in [Job -> JobState]
               /\ \A j \in Job : jobs[j].phase = "working" => jobs'[j] = jobs[j]
    <2>1. PICK j \in Job :
            /\ jobs[j].phase = "idle"
            /\ jobs' = [jobs EXCEPT ![j] = [phase |-> "starting", tasks |-> tasks, stop |-> FALSE]]
      BY <1>1 DEF StartJob
    <2>2. [phase |-> "starting", tasks |-> tasks, stop |-> FALSE] \in JobState
      BY DEF JobState
    <2>3. QED
      BY <1>0, <2>1, <2>2
  <1>2. ASSUME Played
        PROVE  count' \in [plays : 0..MaxPlays, edits : 0..MaxEdits, crashes : 0..MaxCrashes]
    BY <1>0, <1>2, BoundAssumption DEF Played
  <1>3. CASE Stop
    <2>1. ASSUME NEW r \in JobState
          PROVE  /\ [r EXCEPT !.stop = TRUE] \in JobState
                 /\ [r EXCEPT !.stop = TRUE].phase = r.phase
                 /\ [r EXCEPT !.stop = TRUE].tasks = r.tasks
      BY DEF JobState
    <2>2. run' \in JobState /\ run'.phase = run.phase /\ run'.tasks = run.tasks
      BY <1>0, <1>3, <2>1 DEF Stop
    <2>3. jobs' = [j \in Job |-> IF jobs[j].phase = "idle" THEN jobs[j]
                                ELSE [jobs[j] EXCEPT !.stop = TRUE]]
      BY <1>3 DEF Stop
    <2>4. ASSUME NEW j \in Job
          PROVE  jobs'[j] \in JobState /\ jobs'[j].phase = jobs[j].phase /\ jobs'[j].tasks = jobs[j].tasks
      BY <1>0, <2>1, <2>3
    <2>5. jobs' \in [Job -> JobState]
      BY <2>3, <2>4
    <2>6. QED
      BY <1>0, <1>3, <2>2, <2>4, <2>5, RequestKeeps DEF Stop
  <1>4. ASSUME NEW chosen \in SUBSET Task, Plan(chosen)
        PROVE  BoardInv'
    BY <1>0, <1>1, <1>2, <1>4, RequestKeeps DEF Plan
  <1>5. ASSUME NEW chosen \in SUBSET Task, Play(chosen)
        PROVE  BoardInv'
    <2> DEFINE drafts == {t \in chosen : board[t].status = "draft"}
    <2>1. run.phase = "idle" /\ UNCHANGED <<board, work, piece>> /\ Played
      BY <1>5 DEF Play
    <2>2. jobs' = jobs \/ StartJob(drafts)
      BY <1>5 DEF Play
    <2>3. run' = run \/ run' = [phase |-> "starting", tasks |-> chosen \ drafts, stop |-> FALSE]
      BY <1>5 DEF Play
    <2>4. run' \in JobState
      <3>1. [phase |-> "starting", tasks |-> chosen \ drafts, stop |-> FALSE] \in JobState
        BY DEF JobState
      <3>2. QED
        BY <1>0, <2>3, <3>1
    <2>5. QED
      BY <1>0, <1>1, <1>2, <2>1, <2>2, <2>4, RequestKeeps
  <1>6. ASSUME NEW j \in Job, PlanReturns(j)
        PROVE  BoardInv'
    <2>1. jobs' = [jobs EXCEPT ![j] = NoRun] /\ jobs[j].tasks = {}
          /\ UNCHANGED <<board, run, work, piece, count>>
      BY <1>6 DEF PlanReturns
    <2>2. NoRun \in JobState
      BY DEF NoRun, JobState
    <2>3. QED
      BY <1>0, <2>1, <2>2, RequestKeeps
  <1>7. QED
    BY <1>3, <1>4, <1>5, <1>6

\* The run begins, whatever became of its tasks since Play chose them.
LEMMA RunBeginsKeeps ==
  ASSUME BoardInv, RunBegins
  PROVE  BoardInv'
  <1>0. /\ board \in [Task -> Card] /\ run \in JobState /\ UNCHANGED <<piece, jobs, count>>
    BY DEF BoardInv, Typed, RunBegins
  <1>1. run' \in JobState /\ run'.phase = "working" /\ run'.tasks = run.tasks /\ run.phase = "starting"
    BY <1>0 DEF RunBegins, JobState
  <1>2. \A t \in Task : work[t].at = "off" /\ \A s \in Sub : piece[t][s].at \in {"off", "ended"}
    BY <1>1 DEF BoardInv, Owned
  <1>3. ASSUME NEW t \in Task
        PROVE  /\ work'[t] \in Work
               /\ work'[t].at = IF t \in run.tasks THEN "begin" ELSE "off"
    <2>1. Idle \in Work /\ Idle.at = "off"
      BY BoundAssumption DEF Idle, Work, Point, Outcome
    <2>2. [Idle EXCEPT !.at = "begin"] \in Work /\ [Idle EXCEPT !.at = "begin"].at = "begin"
      BY <2>1 DEF Work, Point
    <2>3. QED
      BY <2>1, <2>2 DEF RunBegins
  <1>4. ASSUME NEW t \in Task
        PROVE  /\ board'[t] \in Card
               /\ board'[t] = board[t] \/ (t \in run.tasks /\ board'[t].status = "queued")
    <2> DEFINE subs == [s \in Sub |-> IF board[t].subs[s] \in {"absent", "done"}
                                      THEN board[t].subs[s] ELSE "pending"]
    <2>1. board[t] \in Card /\ subs \in [Sub -> SubStatus]
      BY <1>0 DEF Card, SubStatus
    <2>2. Queued(board[t]) = [board[t] EXCEPT !.status = "queued", !.subs = subs]
      BY DEF Queued
    <2>3. Queued(board[t]) \in Card /\ Queued(board[t]).status = "queued"
      BY <2>1, <2>2 DEF Card, TaskStatus
    <2>4. QED
      BY <2>1, <2>3 DEF RunBegins
  <1>5. work' \in [Task -> Work] /\ board' \in [Task -> Card]
    BY <1>3, <1>4 DEF RunBegins
  <1>6. Typed'
    BY <1>0, <1>1, <1>3, <1>5 DEF BoardInv, Typed, Fixing
  <1>7. Owned'
    BY <1>0, <1>1, <1>2, <1>3 DEF Owned
  <1>8. BusyIsHeld'
    BY <1>0, <1>1, <1>2, <1>3, <1>4 DEF BoardInv, BusyIsHeld, Held
  <1>9. QED
    BY <1>6, <1>7, <1>8 DEF BoardInv

\* When the run returns it holds nothing, so nothing is left busy on its account.
LEMMA RunReturnsKeeps ==
  ASSUME BoardInv, RunReturns
  PROVE  BoardInv'
  <1>1. \A t \in Task : board[t].status \notin RunBusy
    BY DEF BoardInv, BusyIsHeld, Held, RunReturns, RunBusy
  <1>2. \A t \in Task, s \in Sub : piece[t][s].at \in {"off", "ended"}
    BY DEF BoardInv, Owned, RunReturns
  <1>3. NoRun \in JobState /\ Idle \in Work /\ Idle.at = "off"
    BY BoundAssumption DEF NoRun, JobState, Idle, Work, Point, Outcome
  <1>4. /\ UNCHANGED <<board, piece, jobs, count>> /\ run' = NoRun
        /\ work' = [t \in Task |-> Idle]
    BY DEF RunReturns
  <1>5. Typed'
    BY <1>3, <1>4 DEF BoardInv, Typed, Fixing
  <1>6. Owned'
    BY <1>2, <1>3, <1>4 DEF Owned
  <1>7. BusyIsHeld'
    BY <1>1, <1>4 DEF BoardInv, BusyIsHeld, RunBusy
  <1>8. QED
    BY <1>5, <1>6, <1>7 DEF BoardInv

\* Nobody works in a new process.
LEMMA Fresh ==
  /\ NoRun \in JobState /\ NoRun.phase = "idle"
  /\ Idle \in Work /\ Idle.at = "off"
  /\ NoPiece \in Piece /\ NoPiece.at = "off"
  <1>1. NoRun \in JobState /\ NoRun.phase = "idle"
    BY DEF NoRun, JobState
  <1>2. Idle \in Work /\ Idle.at = "off"
    BY BoundAssumption DEF Idle, Work, Point, Outcome
  <1>3. NoPiece \in Piece /\ NoPiece.at = "off"
    BY DEF NoPiece, Piece, PiecePoint
  <1>4. QED
    BY <1>1, <1>2, <1>3

\* A board that was loaded has nothing busy on it.
LEMMA InitBoardInv == Init => BoardInv
  <1> SUFFICES ASSUME Init PROVE BoardInv
    OBVIOUS
  <1>1. board \in [Task -> Card] /\ \A t \in Task : board[t].status \notin Busy
    BY InitialBoardAssumption DEF Init
  <1>2. Typed
    BY <1>1, Fresh, BoundAssumption DEF Init, Typed, Fixing
  <1>3. Owned
    BY Fresh DEF Init, Owned
  <1>4. BusyIsHeld
    BY <1>1 DEF BusyIsHeld, Busy
  <1>5. QED
    BY <1>2, <1>3, <1>4 DEF BoardInv

\* What a dead run or planner held, the repair lets go of.
LEMMA RepairedCard ==
  ASSUME NEW card \in Card
  PROVE  Repaired(card) \in Card /\ Repaired(card).status \notin Busy
  <1> DEFINE status == CASE card.status = "planning" -> Settled(card)
                         [] card.status \in Busy \ {"planning"} -> "stopped"
                         [] OTHER -> card.status
             subs == [s \in Sub |-> IF card.subs[s] = "running" THEN "stopped" ELSE card.subs[s]]
  <1>1. Repaired(card) = [card EXCEPT !.status = status, !.subs = subs]
    BY DEF Repaired
  <1>2. status \in TaskStatus /\ status \notin Busy
    <2>1. CASE card.status = "planning"
      BY <2>1, SettledStatus DEF TaskStatus, Busy
    <2>2. CASE card.status \in Busy \ {"planning"}
      BY <2>2 DEF TaskStatus, Busy
    <2>3. CASE card.status \notin Busy
      BY <2>3 DEF Card, Busy
    <2>4. QED
      BY <2>1, <2>2, <2>3
  <1>3. subs \in [Sub -> SubStatus]
    BY DEF Card, SubStatus
  <1>4. QED
    BY <1>1, <1>2, <1>3 DEF Card

\* The death of the process and the repair of the board keep the invariant.
LEMMA CrashKeeps ==
  ASSUME BoardInv, Crash
  PROVE  BoardInv'
  <1>1. ASSUME NEW t \in Task
        PROVE  board'[t] \in Card /\ board'[t].status \notin Busy
    <2>1. board[t] \in Card /\ board'[t] = Repaired(board[t])
      BY Fields DEF Crash
    <2>2. QED
      BY <2>1, RepairedCard
  <1>2. count' \in [plays : 0..MaxPlays, edits : 0..MaxEdits, crashes : 0..MaxCrashes]
    BY BoundAssumption DEF Crash, BoardInv, Typed
  <1>3. board' \in [Task -> Card]
    BY <1>1 DEF Crash
  <1>4. Typed'
    BY <1>2, <1>3, Fresh DEF Crash, Typed, Fixing
  <1>5. Owned'
    BY Fresh DEF Crash, Owned
  <1>6. BusyIsHeld'
    BY <1>1 DEF BusyIsHeld, Busy
  <1>7. QED
    BY <1>4, <1>5, <1>6 DEF BoardInv

\* Every step of the board keeps the invariant.
LEMMA BoardInvStep ==
  ASSUME BoardInv, [Next]_vars
  PROVE  BoardInv'
  <1>1. ASSUME NEW t \in Task, TaskStep(t) \/ TaskAgentEnds(t)
        PROVE  BoardInv'
    BY <1>1, StepMoves, StepFollows, MovesKeep
  <1>2. ASSUME NEW t \in Task, NEW s \in Sub, PieceStep(t, s) \/ PieceAgentEnds(t, s)
        PROVE  BoardInv'
    BY <1>2, PieceStepMoves, PieceMovesKeep
  <1>3. ASSUME NEW t \in Task, NEW s \in Sub,
               AddSubtask(t, s) \/ RemoveSubtask(t, s) \/ TickSubtask(t, s)
        PROVE  BoardInv'
    BY <1>3, UserKeeps
  <1>4. ASSUME NEW t \in Task,
               \/ RemoveTask(t) \/ SetCriteria(t)
               \/ \E lane \in {"todo", "doing", "done"} : MoveTask(t, lane)
        PROVE  BoardInv'
    BY <1>4, UserKeeps
  <1>5. ASSUME NEW j \in Job, JobStep(j)
        PROVE  BoardInv'
    BY <1>5, PlanBeginsKeeps, PlanLandsKeeps, RequestsKeep DEF JobStep
  <1>6. CASE \E chosen \in SUBSET Task : Play(chosen) \/ Plan(chosen)
    BY <1>6, RequestsKeep
  <1>7. CASE RunBegins \/ RunReturns \/ Stop \/ Crash
    BY <1>7, RunBeginsKeeps, RunReturnsKeeps, RequestsKeep, CrashKeeps
  <1>8. CASE UNCHANGED vars
    BY <1>8 DEF vars, BoardInv, Typed, Owned, BusyIsHeld, Held
  <1>9. QED
    BY <1>1, <1>2, <1>3, <1>4, <1>5, <1>6, <1>7, <1>8 DEF Next

\* A task nobody may edit is in somebody's hands, a run's or a planner's,
\* however many runs, planners, edits, stops and crashes there are
\* (BoardService._busy, BoardRunner, Board.repair).
THEOREM NobodyStuckBusy == Spec => []BusyIsHeld
  <1>1. BoardInv /\ [Next]_vars => BoardInv'
    BY BoardInvStep
  <1>2. BoardInv => BusyIsHeld
    BY DEF BoardInv
  <1>3. QED
    BY InitBoardInv, <1>1, <1>2, PTL DEF Spec
=============================================================================
