----------------------------- MODULE BoardSafetyProofs -----------------------------
(***************************************************************************)
(* The slots of a run, what a step may never do, and the order of          *)
(* dependencies, on top of the invariant of BoardProofs.                   *)
(***************************************************************************)
EXTENDS BoardProofs

-----------------------------------------------------------------------------
(* The slots.                                                              *)

Holding == {"wholeStarted", "wholeAgent", "verifyAgent", "fixAgent"}

SlotInv == BoardInv /\ slots \in Nat /\ SlotsBalanced

\* Those who hold a slot can be counted.
LEMMA HoldersFinite ==
  ASSUME BoardInv
  PROVE  IsFiniteSet(TaskHolders) /\ IsFiniteSet(PieceHolders)
  <1>1. IsFiniteSet(Task \X Sub)
    BY FiniteAssumption, FS_Product
  <1>2. TaskHolders \subseteq Task /\ PieceHolders \subseteq Task \X Sub
    BY DEF TaskHolders, PieceHolders
  <1>3. QED
    BY <1>1, <1>2, FiniteAssumption, FS_Subset

\* Where the ends of a task, and the check, leave its coroutine.
LEMMA Lets ==
  ASSUME BoardInv, NEW t \in Task
  PROVE  /\ \A outcome \in Outcome : Leave(t, outcome) => work'[t].at = "leaving"
         /\ Vanish(t) => work'[t].at = "ended"
         /\ Conclude(t) => work'[t].at = "leaving"
         /\ \A round \in 0..FixRounds : Verify(t, round) => work'[t].at \notin Holding
         /\ \A ok \in BOOLEAN : Worked(t, ok) => work'[t].at \notin Holding
         /\ \A point \in Point : GoTo(t, point) => work'[t].at = point
  <1>0. work \in [Task -> Work] /\ work[t] \in Work
    BY Fields
  <1>1. \A outcome \in Outcome : Leave(t, outcome) => work'[t].at = "leaving"
    BY <1>0 DEF Leave, Work
  <1>2. Vanish(t) => work'[t].at = "ended"
    BY <1>0 DEF Vanish, Work
  <1>3. Conclude(t) => work'[t].at = "leaving"
    BY <1>1 DEF Conclude, Outcome
  <1>4. \A round \in 0..FixRounds : Verify(t, round) => work'[t].at \notin Holding
    BY <1>0, <1>2, <1>3 DEF Verify, Holding, Work
  <1>5. \A ok \in BOOLEAN : Worked(t, ok) => work'[t].at \notin Holding
    BY <1>1, <1>4, BoundAssumption DEF Worked, Holding, Outcome
  <1>6. \A point \in Point : GoTo(t, point) => work'[t].at = point
    BY <1>0 DEF GoTo, Work
  <1>7. QED
    BY <1>1, <1>2, <1>3, <1>4, <1>5, <1>6

\* A step of a coroutine takes a slot, gives its slot back, or does neither.
SlotEffect(before, after) ==
  \/ slots' = slots /\ (before <=> after)
  \/ slots' = slots - 1 /\ slots > 0 /\ ~before /\ after
  \/ slots' = slots + 1 /\ before /\ ~after

\* What a step of a task does to the slots fits what it does to its own hold.
LEMMA StepSlots ==
  ASSUME BoardInv, NEW t \in Task, TaskStep(t) \/ TaskAgentEnds(t)
  PROVE  SlotEffect(work[t].at \in Holding, work'[t].at \in Holding)
  <1>0. work \in [Task -> Work] /\ work[t] \in Work /\ work[t].ok \in BOOLEAN
    BY Fields DEF Work
  <1>1. CASE GoneAtStart(t) \/ FailDependency(t) \/ TaskEnds(t) \/ JoinPieces(t) \/ WholeLanded(t)
    BY <1>0, <1>1, Lets DEF GoneAtStart, FailDependency, TaskEnds, JoinPieces, WholeLanded, Looking,
                            SlotEffect, Holding, Outcome, Point
  <1>2. CASE AwaitDependency(t)
    <2>1. work'[t].at = "deps"
      BY <1>0, <1>2 DEF AwaitDependency, Work
    <2>2. QED
      BY <1>2, <2>1 DEF AwaitDependency, Looking, SlotEffect, Holding
  <1>3. CASE StartWork(t)
    BY <1>3, Lets DEF StartWork, Looking, SlotEffect, Holding, Outcome, Point
  <1>4. CASE TakeWholeSlot(t)
    <2>1. work' = [work EXCEPT ![t].at = "wholeStarted"] => work'[t].at = "wholeStarted"
      BY <1>0 DEF Work
    <2>2. QED
      BY <1>4, <2>1, Lets DEF TakeWholeSlot, SlotRefused, SlotTaken, SlotEffect, Holding, Outcome
  <1>5. CASE HireWhole(t)
    BY <1>5, Lets DEF HireWhole, SlotEffect, Holding, Point
  <1>6. CASE TakeVerifySlot(t)
    <2>1. \A asked \in BOOLEAN :
            work' = [work EXCEPT ![t].at = "verifyAgent", ![t].asked = asked] =>
              work'[t].at = "verifyAgent"
      BY <1>0 DEF Work
    <2>2. {work[t].asked, TRUE} \subseteq BOOLEAN
      BY <1>0 DEF Work
    <2>3. QED
      BY <1>6, <2>1, <2>2, Lets DEF TakeVerifySlot, SlotRefused, SlotTaken, SlotEffect, Holding
  <1>7. CASE Judged(t)
    <2>1. work' = [work EXCEPT ![t].at = "fixSlot"] => work'[t].at = "fixSlot"
      BY <1>0 DEF Work
    <2>2. QED
      BY <1>7, <2>1, Lets DEF Judged, SlotEffect, Holding, Outcome
  <1>8. CASE TakeFixSlot(t)
    BY <1>8, Lets DEF TakeFixSlot, SlotRefused, SlotTaken, SlotEffect, Holding, Point
  <1>9. ASSUME NEW outcome \in Endings, WholeEnds(t, outcome)
        PROVE  SlotEffect(work[t].at \in Holding, work'[t].at \in Holding)
    <2>1. work'[t].at = "wholeLanded"
      BY <1>0, <1>9 DEF WholeEnds, Work
    <2>2. QED
      BY <1>9, <2>1 DEF WholeEnds, AgentGone, SlotEffect, Holding
  <1>10. ASSUME NEW outcome \in Endings, FixerEnds(t, outcome)
         PROVE  SlotEffect(work[t].at \in Holding, work'[t].at \in Holding)
    <2>1. work[t].at = "fixAgent" /\ slots' = slots + 1
      BY <1>10 DEF FixerEnds, AgentGone
    <2>2. work[t].round + 1 \in 0..FixRounds
      BY <2>1, Fields, BoundAssumption DEF BoardInv, Typed, Fixing
    <2>3. work'[t].at \notin Holding
      BY <1>10, <2>2, Lets DEF FixerEnds, Holding, Outcome
    <2>4. QED
      BY <2>1, <2>3 DEF SlotEffect, Holding
  <1>11. ASSUME NEW outcome \in Endings, NEW verdict \in Verdicts, VerifierEnds(t, outcome, verdict)
         PROVE  SlotEffect(work[t].at \in Holding, work'[t].at \in Holding)
    <2>1. work[t].at = "verifyAgent" /\ slots' = slots + 1
      BY <1>11 DEF VerifierEnds, AgentGone
    <2>2. work' = [work EXCEPT ![t].at = "judged", ![t].ok = verdict # "unreadable"] =>
            work'[t].at = "judged"
      BY <1>0 DEF Work
    <2>3. work'[t].at \notin Holding
      BY <1>11, <2>2, Lets DEF VerifierEnds, Holding, Outcome
    <2>4. QED
      BY <2>1, <2>3 DEF SlotEffect, Holding
  <1>12. QED
    BY <1>1, <1>2, <1>3, <1>4, <1>5, <1>6, <1>7, <1>8, <1>9, <1>10, <1>11 DEF TaskStep, TaskAgentEnds

\* What a step of a sub-task does to the slots fits what it does to its own hold.
LEMMA PieceSlots ==
  ASSUME BoardInv, NEW t \in Task, NEW s \in Sub, PieceStep(t, s) \/ PieceAgentEnds(t, s)
  PROVE  SlotEffect(piece[t][s].at \in {"started", "agent"}, piece'[t][s].at \in {"started", "agent"})
  <1>0. piece \in [Task -> [Sub -> Piece]]
    BY DEF BoardInv, Typed
  <1>1. ASSUME NEW point \in PiecePoint, PieceAt(t, s, point)
        PROVE  piece'[t][s].at = point
    BY <1>0, <1>1 DEF PieceAt, Piece
  <1>2. CASE Block(t, s) \/ SeekSlot(t, s) \/ PieceEnds(t, s)
    BY <1>1, <1>2 DEF Block, SeekSlot, PieceEnds, PiecePoint, SlotEffect
  <1>3. CASE TakeSlot(t, s) \/ HireWorker(t, s)
    BY <1>1, <1>3 DEF TakeSlot, HireWorker, PiecePoint, SlotEffect
  <1>4. ASSUME NEW outcome \in Endings, WorkerEnds(t, s, outcome)
        PROVE  SlotEffect(piece[t][s].at \in {"started", "agent"}, piece'[t][s].at \in {"started", "agent"})
    <2>1. piece'[t][s].at = "leaving"
      BY <1>0, <1>4 DEF WorkerEnds, Piece
    <2>2. QED
      BY <1>4, <2>1 DEF WorkerEnds, SlotEffect
  <1>5. QED
    BY <1>2, <1>3, <1>4 DEF PieceStep, PieceAgentEnds

\* One coroutine more or less that holds a slot.
LEMMA Balance ==
  ASSUME NEW S, NEW T, NEW x, IsFiniteSet(S), T \ {x} = S \ {x},
         slots \in Nat, NEW others \in Nat, slots + Cardinality(S) + others = MaxParallel,
         SlotEffect(x \in S, x \in T)
  PROVE  slots' \in Nat /\ slots' + Cardinality(T) + others = MaxParallel
  <1>0. Cardinality(S) \in Nat
    BY FS_CardinalityType
  <1>1. CASE slots' = slots /\ (x \in S <=> x \in T)
    <2>1. S = T
      BY <1>1
    <2>2. QED
      BY <1>1, <2>1
  <1>2. CASE slots' = slots - 1 /\ slots > 0 /\ x \notin S /\ x \in T
    <2>1. T = S \cup {x}
      BY <1>2
    <2>2. Cardinality(T) = Cardinality(S) + 1
      BY <1>2, <2>1, FS_AddElement
    <2>3. QED
      BY <1>0, <1>2, <2>2
  <1>3. CASE slots' = slots + 1 /\ x \in S /\ x \notin T
    <2>1. T = S \ {x}
      BY <1>3
    <2>2. Cardinality(T) = Cardinality(S) - 1
      BY <1>3, <2>1, FS_RemoveElement
    <2>3. QED
      BY <1>0, <1>3, <2>2
  <1>4. QED
    BY <1>1, <1>2, <1>3 DEF SlotEffect

\* Every step keeps the balance of slots.
LEMMA SlotInvStep ==
  ASSUME SlotInv, BoardInv', [Next]_vars
  PROVE  SlotInv'
  <1>0. /\ IsFiniteSet(TaskHolders) /\ IsFiniteSet(PieceHolders) /\ slots \in Nat
        /\ Cardinality(TaskHolders) \in Nat /\ Cardinality(PieceHolders) \in Nat
        /\ slots + Cardinality(TaskHolders) + Cardinality(PieceHolders) = MaxParallel
        /\ BoardInv
    BY HoldersFinite, FS_CardinalityType DEF SlotInv, SlotsBalanced
  <1>1. ASSUME UNCHANGED slots, TaskHolders' = TaskHolders, PieceHolders' = PieceHolders
        PROVE  SlotInv'
    BY <1>0, <1>1 DEF SlotInv, SlotsBalanced
  <1>2. ASSUME slots' = MaxParallel, TaskHolders' = {}, PieceHolders' = {}
        PROVE  SlotInv'
    BY <1>2, FS_EmptySet, BoundAssumption DEF SlotInv, SlotsBalanced
  <1>3. ASSUME NEW t \in Task, TaskStep(t) \/ TaskAgentEnds(t)
        PROVE  SlotInv'
    <2>1. TaskMoves(t) /\ PiecesFollow(t)
      BY <1>0, <1>3, StepMoves, StepFollows
    <2>2. \A u \in Task : u # t => work'[u] = work[u]
      BY <1>0, <2>1, Fields DEF TaskMoves, Moves
    <2>3. t \in TaskHolders <=> work[t].at \in Holding
      BY DEF TaskHolders, Holding
    <2>4. t \in TaskHolders' <=> work'[t].at \in Holding
      BY DEF TaskHolders, Holding
    <2>5. SlotEffect(t \in TaskHolders, t \in TaskHolders')
      BY <1>0, <1>3, <2>3, <2>4, StepSlots DEF SlotEffect
    <2>6. TaskHolders' \ {t} = TaskHolders \ {t}
      BY <2>2 DEF TaskHolders
    <2>7. PieceHolders' = PieceHolders
      <3>1. ASSUME NEW u \in Task, NEW s \in Sub
            PROVE  piece'[u][s].at \in {"started", "agent"} <=> piece[u][s].at \in {"started", "agent"}
        <4>1. CASE UNCHANGED piece
          BY <4>1
        <4>2. CASE ~UNCHANGED piece
          <5>1. PICK p \in [Sub -> Piece] :
                  /\ piece' = [piece EXCEPT ![t] = p]
                  /\ \A q \in Sub : /\ piece[t][q].at \in {"off", "ended"}
                                    /\ p[q].at \in {"off", "ended", "deps"}
            BY <2>1, <4>2 DEF PiecesFollow
          <5>2. piece'[u] = IF u = t THEN p ELSE piece[u]
            BY <1>0, <5>1 DEF BoardInv, Typed
          <5>3. CASE u = t
            BY <5>1, <5>2, <5>3
          <5>4. CASE u # t
            BY <5>2, <5>4
          <5>5. QED
            BY <5>3, <5>4
        <4>3. QED
          BY <4>1, <4>2
      <3>2. QED
        BY <3>1 DEF PieceHolders
    <2>8. slots' \in Nat /\ slots' + Cardinality(TaskHolders') + Cardinality(PieceHolders) = MaxParallel
      BY <1>0, <2>5, <2>6, Balance
    <2>9. QED
      BY <2>7, <2>8 DEF SlotInv, SlotsBalanced
  <1>4. ASSUME NEW t \in Task, NEW s \in Sub, PieceStep(t, s) \/ PieceAgentEnds(t, s)
        PROVE  SlotInv'
    <2>1. UNCHANGED work /\ \E p \in Piece : piece' = [piece EXCEPT ![t][s] = p]
      BY <1>0, <1>4, PieceStepMoves DEF PieceMoves, PieceGoes
    <2>2. \A u \in Task, q \in Sub : <<u, q>> # <<t, s>> => piece'[u][q] = piece[u][q]
      BY <1>0, <2>1 DEF BoardInv, Typed
    <2>3. <<t, s>> \in PieceHolders <=> piece[t][s].at \in {"started", "agent"}
      BY DEF PieceHolders
    <2>4. <<t, s>> \in PieceHolders' <=> piece'[t][s].at \in {"started", "agent"}
      BY DEF PieceHolders
    <2>5. SlotEffect(<<t, s>> \in PieceHolders, <<t, s>> \in PieceHolders')
      BY <1>0, <1>4, <2>3, <2>4, PieceSlots DEF SlotEffect
    <2>6. PieceHolders' \ {<<t, s>>} = PieceHolders \ {<<t, s>>}
      BY <2>2 DEF PieceHolders
    <2>7. slots + Cardinality(PieceHolders) + Cardinality(TaskHolders) = MaxParallel
      BY <1>0
    <2>8. slots' \in Nat /\ slots' + Cardinality(PieceHolders') + Cardinality(TaskHolders) = MaxParallel
      BY <1>0, <2>5, <2>6, <2>7, Balance
    <2>9. TaskHolders' = TaskHolders
      BY <2>1 DEF TaskHolders
    <2>10. IsFiniteSet(PieceHolders') /\ Cardinality(PieceHolders') \in Nat
      <3>1. IsFiniteSet(Task \X Sub) /\ PieceHolders' \subseteq Task \X Sub
        BY FiniteAssumption, FS_Product DEF PieceHolders
      <3>2. QED
        BY <3>1, FS_Subset, FS_CardinalityType
    <2>11. QED
      BY <1>0, <2>8, <2>9, <2>10 DEF SlotInv, SlotsBalanced
  <1>5. ASSUME NEW t \in Task, NEW asked \in BOOLEAN,
               UNCHANGED <<run, piece, slots>>, work' = [work EXCEPT ![t].asked = asked]
        PROVE  SlotInv'
    <2>1. \A u \in Task : work'[u].at = work[u].at
      BY <1>0, <1>5, SameCoroutines
    <2>2. TaskHolders' = TaskHolders /\ PieceHolders' = PieceHolders
      BY <1>5, <2>1 DEF TaskHolders, PieceHolders
    <2>3. QED
      BY <1>1, <1>5, <2>2
  <1>6. ASSUME UNCHANGED <<work, piece, slots>>
        PROVE  SlotInv'
    BY <1>1, <1>6 DEF TaskHolders, PieceHolders
  <1>7. ASSUME NEW t \in Task, SetCriteria(t)
        PROVE  SlotInv'
    BY <1>5, <1>7 DEF SetCriteria, Edit
  <1>8. ASSUME NEW t \in Task, NEW s \in Sub,
               AddSubtask(t, s) \/ RemoveSubtask(t, s) \/ TickSubtask(t, s)
        PROVE  SlotInv'
    BY <1>6, <1>8 DEF AddSubtask, RemoveSubtask, TickSubtask, Edit
  <1>9. ASSUME NEW t \in Task,
               RemoveTask(t) \/ \E lane \in {"todo", "doing", "done"} : MoveTask(t, lane)
        PROVE  SlotInv'
    BY <1>6, <1>9 DEF RemoveTask, MoveTask, Edit
  <1>10. ASSUME NEW j \in Job, PlanBegins(j) \/ PlanReturns(j)
         PROVE  SlotInv'
    BY <1>6, <1>10 DEF PlanBegins, PlanReturns
  <1>11. ASSUME NEW j \in Job, NEW t \in Task, PlanLands(j, t)
         PROVE  SlotInv'
    <2>1. work[t].asked \in BOOLEAN /\ work \in [Task -> Work]
      BY <1>0, Fields DEF Work
    <2>2. UNCHANGED <<run, piece, slots>>
      BY <1>11 DEF PlanLands
    <2>3. CASE UNCHANGED work
      BY <1>6, <2>2, <2>3
    <2>4. ASSUME NEW criteria \in BOOLEAN, work' = [work EXCEPT ![t].asked = @ /\ ~criteria]
          PROVE  SlotInv'
      <3>1. work' = [work EXCEPT ![t].asked = work[t].asked /\ ~criteria]
        BY <2>4
      <3>2. QED
        BY <1>5, <2>1, <2>2, <3>1
    <2>5. QED
      BY <1>11, <2>3, <2>4 DEF PlanLands
  <1>12. CASE (\E chosen \in SUBSET Task : Play(chosen) \/ Plan(chosen)) \/ Stop
    BY <1>6, <1>12 DEF Play, Plan, Stop
  <1>13. CASE RunBegins
    <2>1. \A t \in Task : work'[t].at \in {"begin", "off"}
      <3>1. Idle.at = "off" /\ [Idle EXCEPT !.at = "begin"].at = "begin"
        BY DEF Idle
      <3>2. QED
        BY <1>13, <3>1 DEF RunBegins
    <2>2. \A t \in Task, s \in Sub : piece'[t][s].at \in {"off", "ended"}
      BY <1>0, <1>13 DEF RunBegins, BoardInv, Owned
    <2>3. TaskHolders' = {} /\ PieceHolders' = {}
      BY <2>1, <2>2 DEF TaskHolders, PieceHolders
    <2>4. QED
      BY <1>2, <1>13, <2>3 DEF RunBegins
  <1>14. CASE RunReturns
    <2>1. \A t \in Task : work[t].at \in {"ended", "off"} /\ work'[t].at = "off"
      BY <1>0, <1>14, Fresh DEF RunReturns, BoardInv, Owned
    <2>2. TaskHolders' = TaskHolders /\ PieceHolders' = PieceHolders
      BY <1>14, <2>1 DEF RunReturns, TaskHolders, PieceHolders
    <2>3. QED
      BY <1>1, <1>14, <2>2 DEF RunReturns
  <1>15. CASE Crash
    <2>1. TaskHolders' = {} /\ PieceHolders' = {}
      BY <1>15, Fresh DEF Crash, TaskHolders, PieceHolders
    <2>2. QED
      BY <1>2, <1>15, <2>1 DEF Crash
  <1>16. CASE UNCHANGED vars
    BY <1>6, <1>16 DEF vars
  <1>17. QED
    BY <1>3, <1>4, <1>7, <1>8, <1>9, <1>10, <1>11, <1>12, <1>13, <1>14, <1>15, <1>16 DEF Next, JobStep

\* A new board has all of its slots free.
LEMMA InitSlotInv == Init => SlotInv
  <1> SUFFICES ASSUME Init PROVE SlotInv
    OBVIOUS
  <1>1. TaskHolders = {} /\ PieceHolders = {}
    BY Fresh DEF Init, TaskHolders, PieceHolders
  <1>2. slots = MaxParallel
    BY DEF Init
  <1>3. QED
    BY <1>1, <1>2, InitBoardInv, FS_EmptySet, BoundAssumption DEF SlotInv, SlotsBalanced

\* The slots of a run are free or held by a coroutine with an agent: every early
\* return gives its slot back, once (BoardRunner._slots in _run_sub, _run_whole
\* and _verify).
THEOREM SlotsNeverLeak == Spec => []SlotsBalanced
  <1>1. SlotInv /\ [Next]_vars => SlotInv'
    BY BoardInvStep, SlotInvStep DEF SlotInv
  <1>2. SlotInv => SlotsBalanced
    BY DEF SlotInv
  <1>3. QED
    BY InitSlotInv, <1>1, <1>2, PTL DEF Spec

\* The types of the board, the run and its coroutines; free slots and rounds of
\* fixes within their limits.
THEOREM TypeCorrect == Spec => []TypeOK
  <1>1. SlotInv /\ [Next]_vars => SlotInv'
    BY BoardInvStep, SlotInvStep DEF SlotInv
  <1>2. SlotInv => TypeOK
    <2> SUFFICES ASSUME SlotInv PROVE TypeOK
      OBVIOUS
    <2>1. Cardinality(TaskHolders) \in Nat /\ Cardinality(PieceHolders) \in Nat
      BY HoldersFinite, FS_CardinalityType DEF SlotInv
    <2>2. slots \in 0..MaxParallel
      BY <2>1, BoundAssumption DEF SlotInv, SlotsBalanced
    <2>3. QED
      BY <2>2 DEF SlotInv, BoardInv, Typed, TypeOK, JobState
  <1>3. QED
    BY InitSlotInv, <1>1, <1>2, PTL DEF Spec

-----------------------------------------------------------------------------
(* What a step may never do.                                               *)

\* The action of StopFreezesDone.
Freezes ==
  \A t \in Held : run.stop /\ run'.phase = "working" /\ count'.edits = count.edits =>
    /\ board'[t].status = "done" => board[t].status = "done"
    /\ \A s \in Sub : board'[t].subs[s] = "done" => board[t].subs[s] = "done"

\* No step completes what a stopped run holds.
LEMMA FreezeStep ==
  ASSUME BoardInv, Next
  PROVE  Freezes
  <1> SUFFICES ASSUME NEW u \in Held, run.stop, run'.phase = "working", count'.edits = count.edits
               PROVE  /\ board'[u].status = "done" => board[u].status = "done"
                      /\ \A s \in Sub : board'[u].subs[s] = "done" => board[u].subs[s] = "done"
    BY DEF Freezes
  <1>0. /\ u \in Task /\ board \in [Task -> Card] /\ run.phase = "working"
        /\ run.tasks \in SUBSET Task
    BY DEF Held, BoardInv, Typed, Owned, JobState
  <1>1. CASE UNCHANGED board
    BY <1>1
  <1>2. ASSUME NEW t \in Task, TaskStep(t) \/ TaskAgentEnds(t)
        PROVE  /\ board'[u].status = "done" => board[u].status = "done"
               /\ board'[u].subs = board[u].subs
    <2>1. PICK card \in Card, w \in Work : Moves(t, card, w)
      BY <1>2, StepMoves DEF TaskMoves
    <2>2. /\ board' = [board EXCEPT ![t] = card]
          /\ card.status = "done" => board[t].status = "done"
          /\ card.subs = board[t].subs
      BY <2>1 DEF Moves
    <2>3. QED
      BY <1>0, <2>2
  <1>3. ASSUME NEW t \in Task, NEW s \in Sub, PieceStep(t, s) \/ PieceAgentEnds(t, s)
        PROVE  /\ board'[u].status = "done" => board[u].status = "done"
               /\ \A q \in Sub : board'[u].subs[q] = "done" => board[u].subs[q] = "done"
    <2>1. PICK card \in Card :
            /\ board' = [board EXCEPT ![t] = card]
            /\ card.status \in {"running", board[t].status}
            /\ \A q \in Sub : card.subs[q] = "done" => board[t].subs[q] = "done"
      BY <1>3, PieceStepMoves DEF PieceMoves, CardGoes
    <2>2. QED
      BY <1>0, <2>1
  <1>4. ASSUME NEW j \in Job, JobStep(j)
        PROVE  /\ board'[u].status = "done" => board[u].status = "done"
               /\ \A q \in Sub : board'[u].subs[q] = "done" => board[u].subs[q] = "done"
    <2>1. CASE PlanBegins(j)
      BY <1>0, <2>1 DEF PlanBegins, Card
    <2>2. CASE PlanReturns(j)
      BY <1>1, <2>2 DEF PlanReturns
    <2>3. ASSUME NEW t \in Task, PlanLands(j, t)
          PROVE  /\ board'[u].status = "done" => board[u].status = "done"
                 /\ \A q \in Sub : board'[u].subs[q] = "done" => board[u].subs[q] = "done"
      <3>1. CASE board' = Status(t, Settled(board[t]))
        BY <1>0, <3>1, SettledStatus DEF Status, Changed, Card
      <3>2. ASSUME NEW planned \in SUBSET Sub \ {{}}, NEW criteria \in BOOLEAN,
                   board' = Changed(t, [board[t] EXCEPT
                              !.status = "ready",
                              !.criteria = IF criteria THEN "pending" ELSE @,
                              !.subs = [s \in Sub |-> IF s \in planned /\ @[s] = "absent"
                                                      THEN "pending" ELSE @[s]]])
            PROVE  /\ board'[u].status = "done" => board[u].status = "done"
                   /\ \A q \in Sub : board'[u].subs[q] = "done" => board[u].subs[q] = "done"
        BY <1>0, <3>2 DEF Changed, Card
      <3>3. QED
        BY <2>3, <3>1, <3>2 DEF PlanLands
    <2>4. QED
      BY <1>4, <2>1, <2>2, <2>3 DEF JobStep
  <1>5. count.edits \in Nat
    BY BoundAssumption DEF BoardInv, Typed
  <1>6. ASSUME NEW t \in Task, NEW card, Edit(t, card)
        PROVE  FALSE
    <2>1. count'.edits = count.edits + 1
      BY <1>6 DEF Edit, BoardInv, Typed
    <2>2. QED
      BY <1>5, <2>1
  <1>7. ASSUME NEW t \in Task
        PROVE  /\ ~RemoveTask(t) /\ ~SetCriteria(t)
               /\ \A lane \in {"todo", "doing", "done"} : ~MoveTask(t, lane)
               /\ \A s \in Sub : ~AddSubtask(t, s) /\ ~RemoveSubtask(t, s) /\ ~TickSubtask(t, s)
    BY <1>6 DEF RemoveTask, SetCriteria, MoveTask, AddSubtask, RemoveSubtask, TickSubtask
  <1>8. ~RunBegins /\ ~RunReturns /\ ~Crash
    BY <1>0, Fresh DEF RunBegins, RunReturns, Crash
  <1>9. CASE (\E chosen \in SUBSET Task : Play(chosen) \/ Plan(chosen)) \/ Stop
    BY <1>1, <1>9 DEF Play, Plan, Stop
  <1>10. QED
    BY <1>2, <1>3, <1>4, <1>7, <1>8, <1>9 DEF Next

\* Once the user has stopped a run, it completes nothing more of what it holds
\* (BoardRunner.stopped, _hire, _finish).
THEOREM StoppedCompletesNothing == Spec => StopFreezesDone
  <1>1. BoardInv /\ [Next]_vars => BoardInv'
    BY BoardInvStep
  <1>2. BoardInv /\ [Next]_vars => [Freezes]_vars
    BY FreezeStep
  <1>3. QED
    BY InitBoardInv, <1>1, <1>2, PTL DEF Spec, StopFreezesDone, Freezes

\* The action of DoneIsChecked.
Checks ==
  \A t \in Task :
    work'[t].outcome = "done" /\ work[t].outcome # "done" /\ Present(t) =>
      board'[t].criteria \in {"none", "passed"}

\* No step calls a task done before its criteria passed.
LEMMA CheckStep ==
  ASSUME BoardInv, Next
  PROVE  Checks
  <1> SUFFICES ASSUME NEW u \in Task, work'[u].outcome = "done", work[u].outcome # "done", Present(u)
               PROVE  board'[u].criteria \in {"none", "passed"}
    BY DEF Checks
  <1>0. work \in [Task -> Work] /\ board \in [Task -> Card]
    BY DEF BoardInv, Typed
  <1>1. ASSUME NEW t \in Task, TaskStep(t) \/ TaskAgentEnds(t)
        PROVE  board'[u].criteria \in {"none", "passed"}
    <2>1. PICK card \in Card, w \in Work : Moves(t, card, w)
      BY <1>1, StepMoves DEF TaskMoves
    <2>2. u = t
      BY <1>0, <2>1 DEF Moves
    <2>3. board'[u] = card /\ work'[u] = w
      BY <1>0, <2>1, <2>2 DEF Moves
    <2>4. QED
      BY <2>1, <2>2, <2>3 DEF Moves
  <1>2. work' # work
    OBVIOUS
  <1>3. ASSUME NEW t \in Task, NEW s \in Sub, PieceStep(t, s) \/ PieceAgentEnds(t, s)
        PROVE  FALSE
    BY <1>2, <1>3, PieceStepMoves DEF PieceMoves
  <1>4. ASSUME NEW t \in Task, NEW asked \in BOOLEAN,
               UNCHANGED <<run, piece>>, work' = [work EXCEPT ![t].asked = asked]
        PROVE  FALSE
    BY <1>4, SameCoroutines
  <1>5. ASSUME NEW t \in Task
        PROVE  /\ ~RemoveTask(t) /\ ~SetCriteria(t)
               /\ \A lane \in {"todo", "doing", "done"} : ~MoveTask(t, lane)
               /\ \A s \in Sub : ~AddSubtask(t, s) /\ ~RemoveSubtask(t, s) /\ ~TickSubtask(t, s)
    BY <1>2, <1>4
    DEF RemoveTask, SetCriteria, MoveTask, AddSubtask, RemoveSubtask, TickSubtask, Edit
  <1>6. ASSUME NEW j \in Job, JobStep(j)
        PROVE  FALSE
    <2>1. PICK t \in Task : PlanLands(j, t)
      BY <1>2, <1>6 DEF JobStep, PlanBegins, PlanReturns
    <2>2. UNCHANGED <<run, piece>> /\ work[t].asked \in BOOLEAN
      BY <1>0, <2>1 DEF PlanLands, Work
    <2>3. PICK criteria \in BOOLEAN : work' = [work EXCEPT ![t].asked = @ /\ ~criteria]
      BY <1>2, <2>1 DEF PlanLands
    <2>4. work' = [work EXCEPT ![t].asked = work[t].asked /\ ~criteria]
      BY <2>3
    <2>5. QED
      BY <1>4, <2>2, <2>4
  <1>7. ~RunBegins /\ ~RunReturns /\ ~Crash
    <2>1. Idle.outcome = "none" /\ [Idle EXCEPT !.at = "begin"].outcome = "none"
      BY DEF Idle
    <2>2. QED
      BY <2>1 DEF RunBegins, RunReturns, Crash
  <1>8. ~Stop /\ \A chosen \in SUBSET Task : ~Play(chosen) /\ ~Plan(chosen)
    BY <1>2 DEF Stop, Play, Plan
  <1>9. QED
    BY <1>1, <1>3, <1>5, <1>6, <1>7, <1>8 DEF Next

\* A run that calls a task done has had every criterion the task has by then
\* pass, those that a planner or an edit brought in during the check too
\* (BoardRunner._verify, Verdict.passed).
THEOREM NoneSlipsThrough == Spec => DoneIsChecked
  <1>1. BoardInv /\ [Next]_vars => BoardInv'
    BY BoardInvStep
  <1>2. BoardInv /\ [Next]_vars => [Checks]_vars
    BY CheckStep
  <1>3. QED
    BY InitBoardInv, <1>1, <1>2, PTL DEF Spec, DoneIsChecked, Checks

-----------------------------------------------------------------------------
(* The order of dependencies.                                              *)

\* The task d does not keep the run from working on those that depend on it.
Fine(d) == d \in run.tasks /\ Present(d) => work[d].at = "ended" /\ work[d].outcome = "done"

Beyond(t) == work[t].at \notin {"off", "begin", "leaving", "ended"}

\* What a waiting task no longer waits for is fine, and a task at work waits for
\* nothing.
TasksFirst ==
  \A t \in Task : Beyond(t) =>
    \A k \in 1..Len(DependsOn[t]) :
      (work[t].at = "deps" => DependsOn[t][k] \notin work[t].waits) => Fine(DependsOn[t][k])

SiblingsFirst ==
  \A t \in Task, s \in Sub :
    piece[t][s].at \in AtSlot => \A d \in Siblings(t, s) : SubMet(t, d)

OrderInv == BoardInv /\ TasksFirst /\ SiblingsFirst

\* A task that is gone stays gone.
LEMMA GoneForGood ==
  ASSUME BoardInv, Next, NEW d \in Task, ~Present(d)
  PROVE  ~Present(d)'
  <1>0. board \in [Task -> Card] /\ board[d].status = "absent"
    BY DEF BoardInv, Typed, Present
  <1>1. ASSUME NEW t \in Task, TaskStep(t) \/ TaskAgentEnds(t)
        PROVE  ~Present(d)'
    <2>1. PICK card \in Card, w \in Work : Moves(t, card, w)
      BY <1>1, StepMoves DEF TaskMoves
    <2>2. QED
      BY <1>0, <2>1 DEF Moves, Present
  <1>2. ASSUME NEW t \in Task, NEW s \in Sub, PieceStep(t, s) \/ PieceAgentEnds(t, s)
        PROVE  ~Present(d)'
    <2>1. PICK card \in Card : /\ board' = [board EXCEPT ![t] = card]
                               /\ ~Present(t) => card.status = "absent"
      BY <1>2, PieceStepMoves DEF PieceMoves, CardGoes
    <2>2. QED
      BY <1>0, <2>1 DEF Present
  <1>3. ASSUME NEW t \in Task, NEW card, Edit(t, card)
        PROVE  ~Present(d)'
    BY <1>0, <1>3 DEF Edit, Present
  <1>4. ASSUME NEW t \in Task,
               \/ RemoveTask(t) \/ SetCriteria(t)
               \/ \E lane \in {"todo", "doing", "done"} : MoveTask(t, lane)
               \/ \E s \in Sub : AddSubtask(t, s) \/ RemoveSubtask(t, s) \/ TickSubtask(t, s)
        PROVE  ~Present(d)'
    BY <1>3, <1>4 DEF RemoveTask, SetCriteria, MoveTask, AddSubtask, RemoveSubtask, TickSubtask
  <1>5. ASSUME NEW j \in Job, JobStep(j)
        PROVE  ~Present(d)'
    BY <1>0, <1>5 DEF JobStep, PlanBegins, PlanReturns, PlanLands, Status, Changed, Present
  <1>6. CASE RunBegins \/ RunReturns \/ Stop \/ (\E chosen \in SUBSET Task : Play(chosen) \/ Plan(chosen))
    BY <1>0, <1>6 DEF RunBegins, RunReturns, Stop, Play, Plan, Present
  <1>7. CASE Crash
    <2>1. board'[d] = Repaired(board[d])
      BY <1>7 DEF Crash
    <2>2. Repaired(board[d]).status = "absent"
      BY <1>0 DEF Repaired, Busy, Card
    <2>3. QED
      BY <2>1, <2>2 DEF Present
  <1>8. QED
    BY <1>1, <1>2, <1>4, <1>5, <1>6, <1>7 DEF Next

\* What a task that looks no longer waits for is fine.
LEMMA NotWaited ==
  ASSUME OrderInv, NEW t \in Task, Looking(t), NEW k \in 1..Len(DependsOn[t]),
         WaitedAt(t, k) => DepMet(DependsOn[t][k])
  PROVE  Fine(DependsOn[t][k])
  <1>0. DependsOn[t][k] \in Task
    BY DependsAssumption
  <1>1. CASE WaitedAt(t, k)
    BY <1>1 DEF DepMet, InRun, Fine
  <1>2. CASE ~WaitedAt(t, k) /\ work[t].at = "begin"
    BY <1>0, <1>2 DEF WaitedAt, Waits, Fine
  <1>3. CASE ~WaitedAt(t, k) /\ work[t].at = "deps"
    BY <1>3 DEF WaitedAt, Waits, OrderInv, TasksFirst, Beyond
  <1>4. QED
    BY <1>1, <1>2, <1>3 DEF Looking

\* The steps of a task that bring it to work, or nearer to it.
LEMMA StepOrder ==
  ASSUME OrderInv, NEW t \in Task, TaskStep(t) \/ TaskAgentEnds(t), Beyond(t)',
         NEW k \in 1..Len(DependsOn[t]),
         work'[t].at = "deps" => DependsOn[t][k] \notin work'[t].waits
  PROVE  Fine(DependsOn[t][k])
  <1>0. work \in [Task -> Work] /\ BoardInv
    BY Fields DEF OrderInv
  <1>1. CASE GoneAtStart(t) \/ FailDependency(t)
    BY <1>0, <1>1, Lets DEF GoneAtStart, FailDependency, Beyond, Outcome
  <1>2. CASE AwaitDependency(t)
    <2>1. PICK first \in 1..Len(DependsOn[t]) :
            /\ FirstUnmet(t, first)
            /\ work' = [work EXCEPT ![t].at = "deps",
                                    ![t].waits = {DependsOn[t][i] : i \in first..Len(DependsOn[t])}
                                                   \cap Waits(t)]
      BY <1>2 DEF AwaitDependency
    <2>2. /\ work'[t].at = "deps"
          /\ work'[t].waits = {DependsOn[t][i] : i \in first..Len(DependsOn[t])} \cap Waits(t)
      BY <1>0, <2>1 DEF Work
    <2>3. Len(DependsOn[t]) \in Nat
      BY DependsAssumption
    <2>4. WaitedAt(t, k) => k \in 1..first - 1
      BY <2>2, <2>3 DEF WaitedAt
    <2>5. WaitedAt(t, k) => DepMet(DependsOn[t][k])
      BY <2>1, <2>4 DEF FirstUnmet
    <2>6. QED
      BY <1>2, <2>5, NotWaited DEF AwaitDependency
  <1>3. CASE StartWork(t)
    BY <1>3, NotWaited DEF StartWork
  <1>4. CASE /\ ~GoneAtStart(t) /\ ~FailDependency(t)
             /\ ~AwaitDependency(t) /\ ~StartWork(t)
    <2>1. work[t].at \notin {"off", "begin", "deps", "ended"}
      BY <1>4 DEF TaskStep, TaskAgentEnds, JoinPieces, TakeWholeSlot, HireWhole, WholeLanded,
                  TakeVerifySlot, Judged, TakeFixSlot, TaskEnds, WholeEnds, FixerEnds, VerifierEnds,
                  SlotRefused, SlotTaken, AgentGone
    <2>2. work[t].at = "leaving" => work'[t].at = "ended"
      BY <1>0, <1>4, Lets
      DEF TaskStep, TaskAgentEnds, JoinPieces, TakeWholeSlot, HireWhole, WholeLanded,
          TakeVerifySlot, Judged, TakeFixSlot, TaskEnds, WholeEnds, FixerEnds, VerifierEnds,
          SlotRefused, SlotTaken, AgentGone, Point
    <2>3. Beyond(t) /\ work[t].at # "deps"
      BY <2>1, <2>2 DEF Beyond
    <2>4. QED
      BY <2>3 DEF OrderInv, TasksFirst
  <1>5. QED
    BY <1>1, <1>2, <1>3, <1>4

\* Every step keeps the order of tasks.
LEMMA TasksFirstStep ==
  ASSUME OrderInv, BoardInv', [Next]_vars
  PROVE  TasksFirst'
  <1>0. /\ BoardInv /\ TasksFirst /\ work \in [Task -> Work]
        /\ \A t \in Task : \A k \in 1..Len(DependsOn[t]) : DependsOn[t][k] \in Task
    BY DependsAssumption, Fields DEF OrderInv, BoardInv, Typed
  <1>1. CASE UNCHANGED vars
    BY <1>0, <1>1 DEF vars, TasksFirst, Beyond, Fine, Present
  <1>2. ASSUME Next, UNCHANGED run,
               \A u \in Task : /\ work'[u].at = work[u].at /\ work'[u].outcome = work[u].outcome
                               /\ work'[u].waits = work[u].waits
        PROVE  TasksFirst'
    <2>1. \A d \in Task : Fine(d) => Fine(d)'
      BY <1>0, <1>2, GoneForGood DEF Fine
    <2>2. QED
      BY <1>0, <1>2, <2>1 DEF TasksFirst, Beyond
  <1>3. ASSUME Next, NEW t \in Task, TaskStep(t) \/ TaskAgentEnds(t)
        PROVE  TasksFirst'
    <2>1. UNCHANGED run /\ work[t].at \notin {"off", "ended"}
      BY <1>0, <1>3, StepFollows
    <2>2. \A u \in Task : u # t => work'[u] = work[u]
      BY <1>0, <1>3, StepMoves DEF TaskMoves, Moves
    <2>3. ASSUME NEW d \in Task, Fine(d)
          PROVE  Fine(d)'
      <3>1. Present(d)' => Present(d)
        BY <1>0, <1>3, GoneForGood
      <3>2. work[d].at = "ended" => work'[d] = work[d]
        BY <2>1, <2>2
      <3>3. QED
        BY <2>1, <2>3, <3>1, <3>2 DEF Fine
    <2>4. ASSUME NEW u \in Task, Beyond(u)', NEW k \in 1..Len(DependsOn[u]),
                 work'[u].at = "deps" => DependsOn[u][k] \notin work'[u].waits
          PROVE  Fine(DependsOn[u][k])'
      <3>1. CASE u = t
        <4>1. Fine(DependsOn[u][k])
          BY <1>3, <2>4, <3>1, StepOrder
        <4>2. QED
          BY <1>0, <2>3, <4>1
      <3>2. CASE u # t
        <4>1. Fine(DependsOn[u][k])
          BY <1>0, <2>2, <2>4, <3>2 DEF TasksFirst, Beyond
        <4>2. QED
          BY <1>0, <2>3, <4>1
      <3>3. QED
        BY <3>1, <3>2
    <2>5. QED
      BY <2>4 DEF TasksFirst
  <1>4. ASSUME Next, NEW t \in Task, NEW s \in Sub, PieceStep(t, s) \/ PieceAgentEnds(t, s)
        PROVE  TasksFirst'
    BY <1>0, <1>2, <1>4, PieceStepMoves DEF PieceMoves
  <1>5. ASSUME Next, NEW t \in Task, NEW asked \in BOOLEAN,
               UNCHANGED <<run, piece>>, work' = [work EXCEPT ![t].asked = asked]
        PROVE  TasksFirst'
    BY <1>0, <1>2, <1>5, SameCoroutines
  <1>6. ASSUME Next, NEW t \in Task,
               \/ RemoveTask(t) \/ SetCriteria(t)
               \/ \E lane \in {"todo", "doing", "done"} : MoveTask(t, lane)
               \/ \E s \in Sub : AddSubtask(t, s) \/ RemoveSubtask(t, s) \/ TickSubtask(t, s)
        PROVE  TasksFirst'
    BY <1>2, <1>5, <1>6
    DEF RemoveTask, SetCriteria, MoveTask, AddSubtask, RemoveSubtask, TickSubtask, Edit
  <1>7. ASSUME Next, NEW j \in Job, JobStep(j)
        PROVE  TasksFirst'
    <2>1. CASE UNCHANGED work
      BY <1>2, <1>7, <2>1 DEF JobStep, PlanBegins, PlanReturns, PlanLands
    <2>2. ASSUME NEW t \in Task, NEW criteria \in BOOLEAN, UNCHANGED <<run, piece>>,
                 work' = [work EXCEPT ![t].asked = @ /\ ~criteria]
          PROVE  TasksFirst'
      <3>1. work' = [work EXCEPT ![t].asked = work[t].asked /\ ~criteria]
        BY <2>2
      <3>2. (work[t].asked /\ ~criteria) \in BOOLEAN
        OBVIOUS
      <3>3. QED
        BY <1>5, <1>7, <2>2, <3>1, <3>2
    <2>3. QED
      BY <1>7, <2>1, <2>2 DEF JobStep, PlanBegins, PlanReturns, PlanLands
  <1>8. ASSUME \A u \in Task : work'[u].at \in {"off", "begin"}
        PROVE  TasksFirst'
    BY <1>8 DEF TasksFirst, Beyond
  <1>9. CASE RunBegins \/ RunReturns \/ Crash
    <2>1. Idle.at = "off" /\ [Idle EXCEPT !.at = "begin"].at = "begin"
      BY DEF Idle
    <2>2. QED
      BY <1>8, <1>9, <2>1 DEF RunBegins, RunReturns, Crash
  <1>10. CASE \E chosen \in SUBSET Task : Play(chosen)
    <2>1. \A u \in Task : work'[u].at = "off"
      BY <1>0, <1>10 DEF Play, BoardInv, Owned
    <2>2. QED
      BY <1>8, <2>1
  <1>11. CASE \E chosen \in SUBSET Task : Plan(chosen)
    BY <1>2, <1>11 DEF Plan, Next
  <1>12. CASE Stop
    <2>1. UNCHANGED <<board, work>> /\ run'.tasks = run.tasks
      BY <1>0, <1>12 DEF Stop, BoardInv, Typed, JobState
    <2>2. QED
      BY <1>0, <2>1 DEF TasksFirst, Beyond, Fine, Present
  <1>13. QED
    BY <1>1, <1>3, <1>4, <1>6, <1>7, <1>9, <1>10, <1>11, <1>12 DEF Next

\* Every step keeps the order of sub-tasks.
LEMMA SiblingsFirstStep ==
  ASSUME OrderInv, [Next]_vars
  PROVE  SiblingsFirst'
  <1>0. /\ BoardInv /\ SiblingsFirst /\ piece \in [Task -> [Sub -> Piece]]
        /\ \A t \in Task, s \in Sub : Siblings(t, s) \subseteq Sub
    BY DependsAssumption DEF OrderInv, BoardInv, Typed, Siblings
  <1>1. CASE UNCHANGED piece
    BY <1>0, <1>1 DEF SiblingsFirst, SubMet
  <1>2. ASSUME NEW t \in Task, TaskStep(t) \/ TaskAgentEnds(t)
        PROVE  SiblingsFirst'
    <2>1. CASE UNCHANGED piece
      BY <1>1, <2>1
    <2>2. CASE ~UNCHANGED piece
      <3>1. PICK p \in [Sub -> Piece] :
              /\ piece' = [piece EXCEPT ![t] = p]
              /\ \A q \in Sub : p[q].at \in {"off", "ended", "deps"}
        BY <1>0, <1>2, <2>2, StepFollows DEF PiecesFollow
      <3>2. ASSUME NEW u \in Task, NEW s \in Sub, piece'[u][s].at \in AtSlot
            PROVE  \A d \in Siblings(u, s) : SubMet(u, d)'
        <4>1. u # t
          BY <1>0, <3>1, <3>2 DEF AtSlot
        <4>2. piece'[u] = piece[u]
          BY <1>0, <3>1, <4>1
        <4>3. QED
          BY <1>0, <3>2, <4>2 DEF SiblingsFirst, SubMet
      <3>3. QED
        BY <3>2 DEF SiblingsFirst, Siblings
    <2>3. QED
      BY <2>1, <2>2
  <1>3. ASSUME NEW t \in Task, NEW s \in Sub, PieceStep(t, s) \/ PieceAgentEnds(t, s)
        PROVE  SiblingsFirst'
    <2>1. PieceMoves(t, s)
      BY <1>0, <1>3, PieceStepMoves
    <2>2. PICK p \in Piece :
            /\ piece' = [piece EXCEPT ![t][s] = p]
            /\ p.at \in AtSlot => piece[t][s].at \in AtSlot \/ \A d \in Siblings(t, s) : SubMet(t, d)
      BY <2>1 DEF PieceMoves, PieceGoes
    <2>3. piece[t][s].at \notin {"off", "ended"}
      BY <2>1 DEF PieceMoves
    <2>4. \A u \in Task, q \in Sub : piece'[u][q] = IF u = t /\ q = s THEN p ELSE piece[u][q]
      BY <1>0, <2>2
    <2>5. \A u \in Task, d \in Sub : SubMet(u, d) => SubMet(u, d)'
      BY <2>3, <2>4 DEF SubMet
    <2>6. ASSUME NEW u \in Task, NEW q \in Sub, piece'[u][q].at \in AtSlot
          PROVE  \A d \in Siblings(u, q) : SubMet(u, d)
      BY <1>0, <2>2, <2>4, <2>6 DEF SiblingsFirst
    <2>7. QED
      BY <1>0, <2>5, <2>6 DEF SiblingsFirst, Siblings
  <1>4. CASE Crash
    BY <1>4, Fresh DEF Crash, SiblingsFirst, AtSlot
  <1>5. CASE /\ ~Crash
             /\ ~\E t \in Task : TaskStep(t) \/ TaskAgentEnds(t)
             /\ ~\E t \in Task, s \in Sub : PieceStep(t, s) \/ PieceAgentEnds(t, s)
    <2>1. UNCHANGED piece
      BY <1>5 DEF Next, AddSubtask, RemoveSubtask, TickSubtask, RemoveTask, SetCriteria, MoveTask,
                  Edit, JobStep, PlanBegins, PlanReturns, PlanLands, Play, Plan, RunBegins,
                  RunReturns, Stop, vars
    <2>2. QED
      BY <1>1, <2>1
  <1>6. QED
    BY <1>2, <1>3, <1>4, <1>5

\* No agent works on a task before the tasks it depends on ended done in this
\* run, nor on a sub-task before its siblings (BoardRunner._wait_for_task,
\* _run_subtasks).
THEOREM DependenciesComeFirst == Spec => []DependenciesFirst
  <1>1. Init => OrderInv
    <2> SUFFICES ASSUME Init PROVE OrderInv
      OBVIOUS
    <2>1. TasksFirst /\ SiblingsFirst
      BY Fresh DEF Init, TasksFirst, SiblingsFirst, Beyond, AtSlot
    <2>2. QED
      BY <2>1, InitBoardInv DEF OrderInv
  <1>2. OrderInv /\ [Next]_vars => OrderInv'
    BY BoardInvStep, TasksFirstStep, SiblingsFirstStep DEF OrderInv
  <1>3. OrderInv => DependenciesFirst
    <2> SUFFICES ASSUME OrderInv, NEW t \in Task
                 PROVE  /\ work[t].at \notin {"off", "begin", "deps", "leaving", "ended"} =>
                             \A k \in 1..Len(DependsOn[t]) : Fine(DependsOn[t][k])
                        /\ \A s \in Sub : piece[t][s].at \in AtSlot =>
                             \A d \in Siblings(t, s) : SubMet(t, d)
      BY DEF DependenciesFirst, Fine, AtSlot
    <2>1. QED
      BY DEF OrderInv, TasksFirst, SiblingsFirst, Beyond
  <1>4. QED
    BY <1>1, <1>2, <1>3, PTL DEF Spec
=============================================================================
