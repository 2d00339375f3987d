------------------------------ MODULE BoardRun ------------------------------
(***************************************************************************)
(* The task board and the run that works it (app/board.py, BoardService,   *)
(* and app/board_runner.py, BoardRunner).                                  *)
(*                                                                         *)
(* Play hands the chosen tasks to a run: one coroutine per task, one per   *)
(* sub-task, all drawing agents from one semaphore.  A task waits for the  *)
(* tasks it depends on, works its sub-tasks, is checked by a reviewer, gets *)
(* one round of fixes and lands in Done.  Planner jobs break drafts down.  *)
(* The user edits, stops and plays; the process may die and reload.        *)
(*                                                                         *)
(* Nobody holds a lock on the board: every change of the runner is applied *)
(* at once (BoardService.mutate) and then announced, which is an await.    *)
(* One step of the model is the code between two awaits, so a `leaving`    *)
(* coroutine has changed the board and not yet told those who wait for it. *)
(***************************************************************************)
EXTENDS Naturals, Sequences, FiniteSets

CONSTANTS
  Task,         \* the ids of the board's tasks
  Sub,          \* the ids of sub-tasks, within each task
  DependsOn,    \* DependsOn[t]: Task.depends_on, in its order
  SubDependsOn, \* SubDependsOn[s]: SubTask.depends_on, in its order
  InitialBoard, \* the boards a session may load
  MaxParallel,  \* max_concurrent_subagents
  FixRounds,    \* FIX_ROUNDS
  Job,          \* planner jobs that may be under way at once
  MaxPlays,     \* bounds of the model: how often the user presses Play or Plan,
  MaxEdits,     \* edits the board, and how often the process dies
  MaxCrashes

ASSUME BoundAssumption ==
  /\ MaxParallel \in Nat \ {0}
  /\ FixRounds \in Nat
  /\ MaxPlays \in Nat /\ MaxEdits \in Nat /\ MaxCrashes \in Nat
ASSUME DependsAssumption ==
  /\ DependsOn \in [Task -> Seq(Task)]
  /\ SubDependsOn \in [Sub -> Seq(Sub)]
ASSUME FiniteAssumption == IsFiniteSet(Task) /\ IsFiniteSet(Sub)

VARIABLES
  board,   \* board[t]: what the board says of t (and the file, saved with each change)
  run,     \* BoardService._runner: its phase, its tasks, its _cancel
  work,    \* work[t]: the coroutine _run_task(t)
  piece,   \* piece[t][s]: the coroutine run_one(s) of t
  slots,   \* free slots of BoardRunner._slots
  jobs,    \* jobs[j]: a planner job
  count    \* plays, edits and crashes so far

vars == <<board, run, work, piece, slots, jobs, count>>

TaskStatus == {"draft", "planning", "ready", "queued", "running", "verifying",
               "done", "failed", "stopped", "absent"}
SubStatus == {"absent", "pending", "running", "done", "failed", "stopped", "blocked"}
Busy == {"planning", "queued", "running", "verifying"}
Resumable == {"failed", "stopped"}

Card == [status : TaskStatus, lane : {"todo", "doing", "done"},
         subs : [Sub -> SubStatus], criteria : {"none", "pending", "failed", "passed"}]

\* What Board.from_dict leaves, whatever was on disk.
ASSUME InitialBoardAssumption ==
  \A loaded \in InitialBoard :
    loaded \in [Task -> Card] /\ \A t \in Task : loaded[t].status \notin Busy

\* begin: about to read its task.  deps: waiting for the first of `waits`.
\* whole..., verify..., fix...: waiting for a slot, or with an agent at work.
Point == {"off", "begin", "deps", "subs", "wholeSlot", "wholeStarted", "wholeAgent",
          "wholeLanded", "verifySlot", "verifyAgent", "judged", "fixSlot", "fixAgent",
          "leaving", "ended"}
Outcome == {"none", "gone", "done", "failed", "stopped"}
\* asked: the verifier's prompt names every criterion of the task.
Work == [at : Point, waits : SUBSET Task, round : 0..FixRounds, asked : BOOLEAN, ok : BOOLEAN,
         outcome : Outcome]

PiecePoint == {"off", "deps", "slot", "started", "agent", "leaving", "ended"}
Piece == [at : PiecePoint, ok : BOOLEAN]

Idle == [at |-> "off", waits |-> {}, round |-> 0, asked |-> FALSE, ok |-> FALSE,
         outcome |-> "none"]
NoPiece == [at |-> "off", ok |-> FALSE]
NoRun == [phase |-> "idle", tasks |-> {}, stop |-> FALSE]

TypeOK ==
  /\ board \in [Task -> Card]
  /\ run \in [phase : {"idle", "starting", "working"}, tasks : SUBSET Task, stop : BOOLEAN]
  /\ work \in [Task -> Work]
  /\ piece \in [Task -> [Sub -> Piece]]
  /\ slots \in 0..MaxParallel
  /\ jobs \in [Job -> [phase : {"idle", "starting", "working"}, tasks : SUBSET Task,
                       stop : BOOLEAN]]
  /\ count \in [plays : 0..MaxPlays, edits : 0..MaxEdits, crashes : 0..MaxCrashes]

Init ==
  /\ board \in InitialBoard
  /\ run = NoRun
  /\ work = [t \in Task |-> Idle]
  /\ piece = [t \in Task |-> [s \in Sub |-> NoPiece]]
  /\ slots = MaxParallel
  /\ jobs = [j \in Job |-> NoRun]
  /\ count = [plays |-> 0, edits |-> 0, crashes |-> 0]

Present(t) == board[t].status # "absent"
SubsOf(t) == {s \in Sub : board[t].subs[s] # "absent"}
Settled(card) == IF \E s \in Sub : card.subs[s] # "absent" THEN "ready" ELSE "draft"
Held == {t \in run.tasks : work[t].at \notin {"off", "leaving", "ended"}}

\* A change of a task that is no longer there changes nothing.
Changed(t, card) == IF Present(t) THEN [board EXCEPT ![t] = card] ELSE board
Status(t, status) == Changed(t, [board[t] EXCEPT !.status = status])
SubIs(t, s, status) ==
  IF board[t].subs[s] = "absent" THEN board ELSE Changed(t, [board[t] EXCEPT !.subs[s] = status])

-----------------------------------------------------------------------------
(* The end of a task, and the steps that lead to it.                       *)

\* _finish: Done moves the card; stopped before its card moved, it waits again.
Finished(card, outcome) ==
  CASE outcome = "done" -> [card EXCEPT !.status = "done", !.lane = "done"]
    [] outcome = "stopped" /\ card.lane # "doing" -> [card EXCEPT !.status = Settled(card)]
    [] OTHER -> [card EXCEPT !.status = outcome]

Leave(t, outcome) ==
  /\ board' = Changed(t, Finished(board[t], outcome))
  /\ work' = [work EXCEPT ![t].at = "leaving", ![t].outcome = outcome]

GoTo(t, point) == work' = [work EXCEPT ![t].at = point] /\ UNCHANGED board

\* `return "gone"`: the task was removed, its coroutine ends at once.
Vanish(t) == /\ work' = [work EXCEPT ![t].at = "ended", ![t].outcome = "gone"]
             /\ UNCHANGED board

\* The last lines of _verify.
Conclude(t) == Leave(t, IF run.stop THEN "stopped" ELSE "done")

\* The head of the loop of _verify.
Verify(t, round) ==
  \/ ~Present(t) /\ Vanish(t)
  \/ Present(t) /\ board[t].criteria = "none" /\ Conclude(t)
  \/ /\ Present(t) /\ board[t].criteria # "none"
     /\ board' = Status(t, "verifying")
     /\ work' = [work EXCEPT ![t].at = "verifySlot", ![t].round = round, ![t].asked = TRUE]

\* Defect: sub-tasks that failed do not fail their task.
WorkedAnyway(t, ok) ==
  \/ run.stop /\ Leave(t, "stopped")
  \/ ~run.stop /\ Verify(t, 0)

\* _work_task, once its sub-tasks or its agent are done.
Worked(t, ok) ==
  \/ run.stop /\ Leave(t, "stopped")
  \/ ~run.stop /\ ~ok /\ Leave(t, "failed")
  \/ ~run.stop /\ ok /\ Verify(t, 0)

\* _start_task: the first agent moves the card to In Progress.
StartedCard(card) ==
  [card EXCEPT !.status = IF @ \in {"queued", "stopped", "failed", "ready"} THEN "running" ELSE @,
               !.lane = "doing"]

-----------------------------------------------------------------------------
(* Waiting for other tasks.                                                *)

InRun(d) == d \in run.tasks

\* Defect: a dependency that ended is taken for one that is done.
DepEnded(d) == IF InRun(d) THEN work[d].at = "ended" ELSE board[d].status \in {"absent", "done"}
DepMet(d) == IF InRun(d) THEN work[d].at = "ended" /\ work[d].outcome = "done"
             ELSE board[d].status \in {"absent", "done"}

\* Defect: an undone dependency outside the run is waited for.
DepBadInRun(d) == InRun(d) /\ ~DepMet(d) /\ work[d].at = "ended"
DepBad(d) == ~DepMet(d) /\ (InRun(d) => work[d].at = "ended")

Looking(t) == work[t].at = "deps" \/ (work[t].at = "begin" /\ Present(t))

\* What t still waits for; a removed task leaves the depends_on of the others.
Waits(t) == IF work[t].at = "begin" THEN {d \in Task : Present(d)} ELSE work[t].waits
WaitedAt(t, k) == DependsOn[t][k] \in Waits(t)

\* The dependencies are looked at one after the other.
FirstUnmet(t, k) ==
  /\ k \in 1..Len(DependsOn[t]) /\ WaitedAt(t, k) /\ ~DepMet(DependsOn[t][k])
  /\ \A i \in 1..k - 1 : WaitedAt(t, i) => DepMet(DependsOn[t][i])

GoneAtStart(t) ==
  /\ work[t].at = "begin" /\ ~Present(t)
  /\ Vanish(t)
  /\ UNCHANGED <<run, piece, slots, jobs, count>>

AwaitDependency(t) ==
  /\ Looking(t)
  /\ \E k \in 1..Len(DependsOn[t]) :
       /\ FirstUnmet(t, k) /\ ~DepBad(DependsOn[t][k])
       /\ work' = [work EXCEPT ![t].at = "deps",
                               ![t].waits = {DependsOn[t][i] : i \in k..Len(DependsOn[t])}
                                              \cap Waits(t)]
  /\ UNCHANGED <<board, run, piece, slots, jobs, count>>

FailDependency(t) ==
  /\ Looking(t)
  /\ \E k \in 1..Len(DependsOn[t]) : FirstUnmet(t, k) /\ DepBad(DependsOn[t][k])
  /\ Leave(t, "failed")
  /\ UNCHANGED <<run, piece, slots, jobs, count>>

StartWork(t) ==
  /\ Looking(t)
  /\ \A k \in 1..Len(DependsOn[t]) : WaitedAt(t, k) => DepMet(DependsOn[t][k])
  /\ \/ /\ run.stop
        /\ Leave(t, "stopped")
        /\ UNCHANGED piece
     \/ /\ ~run.stop /\ ~Present(t)
        /\ Vanish(t)
        /\ UNCHANGED piece
     \/ /\ ~run.stop /\ Present(t) /\ SubsOf(t) # {}
        /\ GoTo(t, "subs")
        /\ piece' = [piece EXCEPT ![t] =
                       [s \in Sub |-> CASE board[t].subs[s] = "absent" -> NoPiece
                                        [] board[t].subs[s] = "done" ->
                                             [at |-> "ended", ok |-> TRUE]
                                        [] OTHER -> [at |-> "deps", ok |-> FALSE]]]
     \/ /\ ~run.stop /\ Present(t) /\ SubsOf(t) = {}
        /\ GoTo(t, "wholeSlot")
        /\ UNCHANGED piece
  /\ UNCHANGED <<run, slots, jobs, count>>

-----------------------------------------------------------------------------
(* Sub-tasks.                                                              *)

PieceAt(t, s, point) == piece' = [piece EXCEPT ![t][s].at = point]

\* A sibling that the run did not find at its start is not waited for.
SubMet(t, d) == piece[t][d].at = "off" \/ (piece[t][d].at = "ended" /\ piece[t][d].ok)
Siblings(t, s) == {SubDependsOn[s][k] : k \in 1..Len(SubDependsOn[s])}

\* The first sibling that ended without success blocks the sub-task, if those
\* before it in its list are done.
Block(t, s) ==
  /\ piece[t][s].at = "deps"
  /\ \E k \in 1..Len(SubDependsOn[s]) :
       /\ piece[t][SubDependsOn[s][k]].at = "ended" /\ ~piece[t][SubDependsOn[s][k]].ok
       /\ \A i \in 1..k - 1 : SubMet(t, SubDependsOn[s][i])
  /\ board' = SubIs(t, s, "blocked")
  /\ PieceAt(t, s, "leaving")
  /\ UNCHANGED <<run, work, slots, jobs, count>>

\* Defect: a sub-task that sees the stop returns without telling the others.
SeekSlotUnlessStopped(t, s) ==
  /\ piece[t][s].at = "deps" /\ \A d \in Siblings(t, s) : SubMet(t, d)
  /\ ~run.stop
  /\ PieceAt(t, s, "slot")
  /\ UNCHANGED <<board, run, work, slots, jobs, count>>

SeekSlot(t, s) ==
  /\ piece[t][s].at = "deps" /\ \A d \in Siblings(t, s) : SubMet(t, d)
  /\ PieceAt(t, s, IF run.stop THEN "ended" ELSE "slot")
  /\ UNCHANGED <<board, run, work, slots, jobs, count>>

TakeSlot(t, s) ==
  /\ piece[t][s].at = "slot" /\ slots > 0
  /\ \/ /\ run.stop
        /\ PieceAt(t, s, "ended")
        /\ UNCHANGED <<board, slots>>
     \/ /\ ~run.stop
        /\ board' = Changed(t, StartedCard(board[t]))
        /\ PieceAt(t, s, "started")
        /\ slots' = slots - 1
  /\ UNCHANGED <<run, work, jobs, count>>

HireWorker(t, s) ==
  /\ piece[t][s].at = "started"
  /\ \/ /\ ~Present(t) \/ s \notin SubsOf(t)
        /\ PieceAt(t, s, "ended")
        /\ slots' = slots + 1
        /\ UNCHANGED board
     \/ /\ Present(t) /\ s \in SubsOf(t)
        /\ board' = SubIs(t, s, "running")
        /\ PieceAt(t, s, "agent")
        /\ UNCHANGED slots
  /\ UNCHANGED <<run, work, jobs, count>>

\* Defect: an answer that comes after the stop counts.
HiredAnyway(outcome) == outcome = "cancelled" => run.stop

\* _hire: what an agent's turn may come to.  Once the run is stopped no turn
\* counts as completed; a timeout is one way to fail.
Hired(outcome) ==
  /\ outcome = "completed" => ~run.stop
  /\ outcome = "cancelled" => run.stop

\* Defect: a worker that is cancelled keeps its slot.
WorkerEndsUnreleased(t, s, outcome) ==
  /\ piece[t][s].at = "agent" /\ Hired(outcome)
  /\ board' = SubIs(t, s, CASE outcome = "completed" -> "done"
                            [] outcome = "cancelled" -> "stopped"
                            [] OTHER -> "failed")
  /\ piece' = [piece EXCEPT ![t][s].at = "leaving", ![t][s].ok = outcome = "completed"]
  /\ slots' = IF outcome = "cancelled" THEN slots ELSE slots + 1
  /\ UNCHANGED <<run, work, jobs, count>>

WorkerEnds(t, s, outcome) ==
  /\ piece[t][s].at = "agent" /\ Hired(outcome)
  /\ board' = SubIs(t, s, CASE outcome = "completed" -> "done"
                            [] outcome = "cancelled" -> "stopped"
                            [] OTHER -> "failed")
  /\ piece' = [piece EXCEPT ![t][s].at = "leaving", ![t][s].ok = outcome = "completed"]
  /\ slots' = slots + 1
  /\ UNCHANGED <<run, work, jobs, count>>

PieceEnds(t, s) ==
  /\ piece[t][s].at = "leaving"
  /\ PieceAt(t, s, "ended")
  /\ UNCHANGED <<board, run, work, slots, jobs, count>>

\* gather over the sub-tasks.
JoinPieces(t) ==
  /\ work[t].at = "subs"
  /\ \A s \in Sub : piece[t][s].at \in {"off", "ended"}
  /\ Worked(t, \A s \in Sub : piece[t][s].at = "ended" => piece[t][s].ok)
  /\ piece' = [piece EXCEPT ![t] = [s \in Sub |-> NoPiece]]
  /\ UNCHANGED <<run, slots, jobs, count>>

-----------------------------------------------------------------------------
(* A task without sub-tasks, the check and the fix.                        *)

\* A coroutine at `from` gets its slot and gives it up if the run is stopped.
SlotRefused(t, from) == work[t].at = from /\ slots > 0 /\ run.stop /\ UNCHANGED slots
\* Defect: a slot is used although the run was stopped.
SlotTakenAnyway(t, from) == work[t].at = from /\ slots > 0 /\ slots' = slots - 1
SlotTaken(t, from) == work[t].at = from /\ slots > 0 /\ ~run.stop /\ slots' = slots - 1
AgentGone(t, from, outcome) == work[t].at = from /\ Hired(outcome) /\ slots' = slots + 1

TakeWholeSlot(t) ==
  /\ \/ SlotRefused(t, "wholeSlot") /\ Leave(t, "stopped")
     \/ /\ SlotTaken(t, "wholeSlot")
        /\ board' = Changed(t, StartedCard(board[t]))
        /\ work' = [work EXCEPT ![t].at = "wholeStarted"]
  /\ UNCHANGED <<run, piece, jobs, count>>

HireWhole(t) ==
  /\ work[t].at = "wholeStarted"
  /\ \/ Present(t) /\ GoTo(t, "wholeAgent") /\ UNCHANGED slots
     \/ ~Present(t) /\ Worked(t, FALSE) /\ slots' = slots + 1
  /\ UNCHANGED <<run, piece, jobs, count>>

WholeEnds(t, outcome) ==
  /\ AgentGone(t, "wholeAgent", outcome)
  /\ work' = [work EXCEPT ![t].at = "wholeLanded", ![t].ok = outcome = "completed"]
  /\ UNCHANGED <<board, run, piece, jobs, count>>

WholeLanded(t) ==
  /\ work[t].at = "wholeLanded"
  /\ Worked(t, work[t].ok)
  /\ UNCHANGED <<run, piece, slots, jobs, count>>

\* The prompt is written now, about the task as it was read before or as it is:
\* an edit of the board in between replaces the object that was read.
TakeVerifySlot(t) ==
  /\ \/ SlotRefused(t, "verifySlot") /\ Conclude(t)
     \/ /\ SlotTaken(t, "verifySlot")
        /\ \E asked \in {work[t].asked, TRUE} :
             work' = [work EXCEPT ![t].at = "verifyAgent", ![t].asked = asked]
        /\ UNCHANGED board
  /\ UNCHANGED <<run, piece, jobs, count>>

\* The verdict on what was asked: all passed, or some failed, or it could not be
\* read or left some out.
VerifierEnds(t, outcome, verdict) ==
  /\ AgentGone(t, "verifyAgent", outcome)
  /\ outcome # "completed" => verdict = "unreadable"
  /\ \/ run.stop /\ Leave(t, "stopped")
     \/ /\ ~run.stop
        /\ board' = IF verdict = "unreadable" \/ board[t].criteria = "none" THEN board
                    ELSE Changed(t, [board[t] EXCEPT !.criteria =
                                       IF work[t].asked \/ verdict = "failed" THEN verdict
                                       ELSE "pending"])
        /\ work' = [work EXCEPT ![t].at = "judged", ![t].ok = verdict # "unreadable"]
  /\ UNCHANGED <<run, piece, jobs, count>>

\* Defect: a verdict that could be read is taken for a good one.
PassedIfRead(t) == work[t].ok

\* Defect: the check passed if what it was asked about did.
PassedAsRead(t) == work[t].ok /\ board[t].criteria # "failed"

\* Verdict.passed: of the criteria the task has now, every one was judged so.
Passed(t) == work[t].ok /\ board[t].criteria \in {"none", "passed"}

\* Defect: one round of fixes too many.
JudgedOnceMore(t) ==
  /\ work[t].at = "judged"
  /\ \/ ~Present(t) /\ Vanish(t)
     \/ Present(t) /\ Passed(t) /\ Conclude(t)
     \/ Present(t) /\ ~Passed(t) /\ work[t].round > FixRounds /\ Leave(t, "failed")
     \/ /\ Present(t) /\ ~Passed(t) /\ work[t].round <= FixRounds
        /\ board' = Status(t, "running")
        /\ work' = [work EXCEPT ![t].at = "fixSlot"]
  /\ UNCHANGED <<run, piece, slots, jobs, count>>

Judged(t) ==
  /\ work[t].at = "judged"
  /\ \/ ~Present(t) /\ Vanish(t)
     \/ Present(t) /\ Passed(t) /\ Conclude(t)
     \/ Present(t) /\ ~Passed(t) /\ work[t].round = FixRounds /\ Leave(t, "failed")
     \/ /\ Present(t) /\ ~Passed(t) /\ work[t].round < FixRounds
        /\ board' = Status(t, "running")
        /\ work' = [work EXCEPT ![t].at = "fixSlot"]
  /\ UNCHANGED <<run, piece, slots, jobs, count>>

TakeFixSlot(t) ==
  /\ \/ SlotRefused(t, "fixSlot") /\ Conclude(t)
     \/ SlotTaken(t, "fixSlot") /\ GoTo(t, "fixAgent")
  /\ UNCHANGED <<run, piece, jobs, count>>

FixerEnds(t, outcome) ==
  /\ AgentGone(t, "fixAgent", outcome)
  /\ \/ outcome = "completed" /\ Verify(t, work[t].round + 1)
     \/ outcome = "cancelled" /\ Leave(t, "stopped")
     \/ outcome = "failed" /\ Leave(t, "failed")
  /\ UNCHANGED <<run, piece, jobs, count>>

\* _run_task's finally: the waiting dependents may look.
TaskEnds(t) ==
  /\ work[t].at = "leaving"
  /\ GoTo(t, "ended")
  /\ UNCHANGED <<run, piece, slots, jobs, count>>

-----------------------------------------------------------------------------
(* The run and the planners.                                               *)

Queued(card) ==
  [card EXCEPT !.status = "queued",
               !.subs = [s \in Sub |-> IF @[s] \in {"absent", "done"} THEN @[s] ELSE "pending"]]

\* BoardRunner.run begins: whatever became of the tasks since Play chose them.
RunBegins ==
  /\ run.phase = "starting"
  /\ run' = [run EXCEPT !.phase = "working"]
  /\ board' = [t \in Task |-> IF t \in run.tasks /\ Present(t) THEN Queued(board[t]) ELSE board[t]]
  /\ work' = [t \in Task |-> IF t \in run.tasks THEN [Idle EXCEPT !.at = "begin"] ELSE Idle]
  /\ slots' = MaxParallel
  /\ UNCHANGED <<piece, jobs, count>>

RunReturns ==
  /\ run.phase = "working"
  /\ \A t \in run.tasks : work[t].at = "ended"
  /\ run' = NoRun
  /\ work' = [t \in Task |-> Idle]
  /\ UNCHANGED <<board, piece, slots, jobs, count>>

PlanBegins(j) ==
  /\ jobs[j].phase = "starting"
  /\ jobs' = [jobs EXCEPT ![j].phase = "working"]
  /\ board' = [t \in Task |-> IF t \in jobs[j].tasks /\ Present(t)
                              THEN [board[t] EXCEPT !.status = "planning"] ELSE board[t]]
  /\ UNCHANGED <<run, work, piece, slots, count>>

\* Defect: a planner that was stopped lands nothing.
PlanLandsUnlessStopped(j, t) ==
  /\ jobs[j].phase = "working" /\ t \in jobs[j].tasks
  /\ jobs' = [jobs EXCEPT ![j].tasks = @ \ {t}]
  /\ board' = IF jobs[j].stop THEN board ELSE Status(t, "ready")
  /\ UNCHANGED <<run, work, piece, slots, count>>

\* _plan_one: the planner of t answers with sub-tasks, and criteria perhaps, or
\* does not answer.
PlanLands(j, t) ==
  /\ jobs[j].phase = "working" /\ t \in jobs[j].tasks
  /\ jobs' = [jobs EXCEPT ![j].tasks = @ \ {t}]
  /\ \/ /\ board' = Status(t, Settled(board[t]))
        /\ UNCHANGED work
     \/ /\ ~jobs[j].stop
        /\ \E planned \in SUBSET Sub \ {{}}, criteria \in BOOLEAN :
             /\ board' = Changed(t, [board[t] EXCEPT
                           !.status = "ready",
                           !.criteria = IF criteria THEN "pending" ELSE @,
                           !.subs = [s \in Sub |-> IF s \in planned /\ @[s] = "absent"
                                                   THEN "pending" ELSE @[s]]])
             /\ work' = [work EXCEPT ![t].asked = @ /\ ~criteria]
  /\ UNCHANGED <<run, piece, slots, count>>

PlanReturns(j) ==
  /\ jobs[j].phase = "working" /\ jobs[j].tasks = {}
  /\ jobs' = [jobs EXCEPT ![j] = NoRun]
  /\ UNCHANGED <<board, run, work, piece, slots, count>>

-----------------------------------------------------------------------------
(* The user.                                                               *)

\* _pick.
Pickable(t) == board[t].status \in {"draft", "ready"} \cup Resumable /\ board[t].lane # "done"
Played == count.plays < MaxPlays /\ count' = [count EXCEPT !.plays = @ + 1]

StartJob(tasks) ==
  \E j \in Job : /\ jobs[j].phase = "idle"
                 /\ jobs' = [jobs EXCEPT ![j] = [phase |-> "starting", tasks |-> tasks,
                                                 stop |-> FALSE]]

\* plan: by id, any task nobody works on; draft or not.
Plan(chosen) ==
  /\ chosen # {} /\ \A t \in chosen : Pickable(t)
  /\ Played
  /\ StartJob(chosen)
  /\ UNCHANGED <<board, run, work, piece, slots>>

\* play: the drafts among the chosen are planned, the others run.
Play(chosen) ==
  LET drafts == {t \in chosen : board[t].status = "draft"} IN
  /\ run.phase = "idle"
  /\ chosen # {} /\ \A t \in chosen : Pickable(t)
  /\ Played
  /\ \/ drafts = {} /\ UNCHANGED jobs
     \/ drafts # {} /\ StartJob(drafts)
  /\ run' = IF drafts = chosen THEN run
            ELSE [phase |-> "starting", tasks |-> chosen \ drafts, stop |-> FALSE]
  /\ UNCHANGED <<board, work, piece, slots>>

Stop ==
  LET stopped(r) == IF r.phase = "idle" THEN r ELSE [r EXCEPT !.stop = TRUE] IN
  /\ run' = stopped(run)
  /\ jobs' = [j \in Job |-> stopped(jobs[j])]
  /\ <<run', jobs'>> # <<run, jobs>>
  /\ UNCHANGED <<board, work, piece, slots, count>>

\* Defect: a queued task may still be edited.
EditQueued(t, card) ==
  /\ Present(t) /\ board[t].status \notin Busy \ {"queued"}
  /\ count.edits < MaxEdits /\ count' = [count EXCEPT !.edits = @ + 1]
  /\ board' = [board EXCEPT ![t] = card]
  /\ UNCHANGED <<run, piece, slots, jobs>>

\* BoardService.apply: a task nobody works on becomes `card`.
Edit(t, card) ==
  /\ Present(t) /\ board[t].status \notin Busy
  /\ count.edits < MaxEdits /\ count' = [count EXCEPT !.edits = @ + 1]
  /\ board' = [board EXCEPT ![t] = card]
  /\ UNCHANGED <<run, piece, slots, jobs>>

\* _settle_status.
Settle(card) ==
  [card EXCEPT !.status = CASE card.lane = "done" -> "done"
                            [] card.lane # "done" /\ @ \in {"draft", "ready"} -> Settled(card)
                            [] OTHER -> @]

MoveTask(t, lane) ==
  /\ Edit(t, CASE lane = "done" -> [board[t] EXCEPT !.lane = lane, !.status = "done"]
               [] lane # "done" /\ board[t].lane = "done" ->
                    Settle([board[t] EXCEPT !.lane = lane, !.status = "draft"])
               [] OTHER -> [board[t] EXCEPT !.lane = lane])
  /\ UNCHANGED work

RemoveTask(t) == Edit(t, [board[t] EXCEPT !.status = "absent"]) /\ UNCHANGED work

\* update_task with `criteria`: new ones, which nobody has been asked about.
SetCriteria(t) ==
  /\ \E criteria \in {"none", "pending"} : Edit(t, [board[t] EXCEPT !.criteria = criteria])
  /\ work' = [work EXCEPT ![t].asked = FALSE]

AddSubtask(t, s) ==
  /\ s \notin SubsOf(t)
  /\ Edit(t, Settle([board[t] EXCEPT !.subs[s] = "pending"]))
  /\ UNCHANGED work

RemoveSubtask(t, s) ==
  /\ s \in SubsOf(t)
  /\ Edit(t, Settle([board[t] EXCEPT !.subs[s] = "absent"]))
  /\ UNCHANGED work

\* update_subtask with `done`: ticked by hand, or un-ticked.
TickSubtask(t, s) ==
  /\ s \in SubsOf(t)
  /\ \E status \in {"done", "pending"} : Edit(t, [board[t] EXCEPT !.subs[s] = status])
  /\ UNCHANGED work

\* Defect: only a running task is taken for one a dead run held.
RepairedRunning(card) == [card EXCEPT !.status = IF @ = "running" THEN "stopped" ELSE @]

\* Board.repair, on the board the dead process saved.
Repaired(card) ==
  [card EXCEPT !.status = CASE @ = "planning" -> Settled(card)
                            [] @ \in Busy \ {"planning"} -> "stopped"
                            [] OTHER -> @,
               !.subs = [s \in Sub |-> IF @[s] = "running" THEN "stopped" ELSE @[s]]]

Crash ==
  /\ count.crashes < MaxCrashes /\ count' = [count EXCEPT !.crashes = @ + 1]
  /\ board' = [t \in Task |-> Repaired(board[t])]
  /\ run' = NoRun
  /\ work' = [t \in Task |-> Idle]
  /\ piece' = [t \in Task |-> [s \in Sub |-> NoPiece]]
  /\ slots' = MaxParallel
  /\ jobs' = [j \in Job |-> NoRun]

-----------------------------------------------------------------------------

Endings == {"completed", "failed", "cancelled"}
Verdicts == {"passed", "failed", "unreadable"}

TaskStep(t) ==
  \/ GoneAtStart(t) \/ AwaitDependency(t) \/ FailDependency(t) \/ StartWork(t)
  \/ JoinPieces(t) \/ TakeWholeSlot(t) \/ HireWhole(t) \/ WholeLanded(t)
  \/ TakeVerifySlot(t) \/ Judged(t) \/ TakeFixSlot(t) \/ TaskEnds(t)
PieceStep(t, s) ==
  \/ Block(t, s) \/ SeekSlot(t, s) \/ TakeSlot(t, s) \/ HireWorker(t, s) \/ PieceEnds(t, s)
TaskAgentEnds(t) ==
  \E outcome \in Endings :
    \/ WholeEnds(t, outcome) \/ FixerEnds(t, outcome)
    \/ \E verdict \in Verdicts : VerifierEnds(t, outcome, verdict)
PieceAgentEnds(t, s) == \E outcome \in Endings : WorkerEnds(t, s, outcome)
JobStep(j) == PlanBegins(j) \/ PlanReturns(j) \/ \E t \in Task : PlanLands(j, t)

Next ==
  \/ \E t \in Task : TaskStep(t) \/ TaskAgentEnds(t)
  \/ \E t \in Task, s \in Sub :
       \/ PieceStep(t, s) \/ PieceAgentEnds(t, s)
       \/ AddSubtask(t, s) \/ RemoveSubtask(t, s) \/ TickSubtask(t, s)
  \/ \E t \in Task :
       RemoveTask(t) \/ SetCriteria(t) \/ \E lane \in {"todo", "doing", "done"} : MoveTask(t, lane)
  \/ \E j \in Job : JobStep(j)
  \/ \E chosen \in SUBSET Task : Play(chosen) \/ Plan(chosen)
  \/ RunBegins \/ RunReturns \/ Stop \/ Crash

Spec == Init /\ [][Next]_vars

\* The event loop runs every coroutine that can run.
Scheduled ==
  /\ WF_vars(RunBegins) /\ WF_vars(RunReturns)
  /\ \A t \in Task : WF_vars(TaskStep(t)) /\ \A s \in Sub : WF_vars(PieceStep(t, s))
  /\ \A j \in Job : WF_vars(JobStep(j))

\* Every agent's turn ends: it answers, fails, or falls silent and is cut short
\* (Pulse.watch in _hire).
AgentsEnd ==
  \A t \in Task : WF_vars(TaskAgentEnds(t)) /\ \A s \in Sub : WF_vars(PieceAgentEnds(t, s))

\* Only the agents of a stopped run end: _hire cancels them and does not wait
\* for those that do not obey.
StoppedAgentsEnd ==
  \A t \in Task : /\ WF_vars(run.stop /\ TaskAgentEnds(t))
                  /\ \A s \in Sub : WF_vars(run.stop /\ PieceAgentEnds(t, s))

StopSpec == Spec /\ Scheduled /\ StoppedAgentsEnd

-----------------------------------------------------------------------------
(* Properties.                                                             *)

\* A task that may not be edited or played is in somebody's hands, a run's or
\* a planner's: no order of edits, stops, plays, plans and crashes leaves it
\* busy for good.
BusyIsHeld ==
  \A t \in Task :
    /\ board[t].status \in {"queued", "running", "verifying"} => t \in Held
    /\ board[t].status = "planning" =>
         \E j \in Job : jobs[j].phase = "working" /\ t \in jobs[j].tasks

TaskHolders ==
  {t \in Task : work[t].at \in {"wholeStarted", "wholeAgent", "verifyAgent", "fixAgent"}}
PieceHolders == {p \in Task \X Sub : piece[p[1]][p[2]].at \in {"started", "agent"}}

\* The slots of a run are free or held by a coroutine that has an agent or is
\* about to: every early return gives its slot back, once.
SlotsBalanced == slots + Cardinality(TaskHolders) + Cardinality(PieceHolders) = MaxParallel

\* No agent works on a task before the tasks it depends on ended done in this
\* run, nor on a sub-task before its siblings.
DependenciesFirst ==
  \A t \in Task :
    /\ work[t].at \notin {"off", "begin", "deps", "leaving", "ended"} =>
         \A k \in 1..Len(DependsOn[t]) :
           LET d == DependsOn[t][k] IN
           d \in run.tasks /\ Present(d) => work[d].at = "ended" /\ work[d].outcome = "done"
    /\ \A s \in Sub : piece[t][s].at \in {"slot", "started", "agent"} =>
         \A d \in Siblings(t, s) : SubMet(t, d)

\* A run that says a task is done has all of its sub-tasks done.
DoneIsComplete ==
  [][\A t \in Task :
       work'[t].outcome = "done" /\ work[t].outcome # "done" /\ Present(t) =>
         \A s \in SubsOf(t) : board'[t].subs[s] = "done"]_vars

\* A run that says a task is done has had every criterion the task has by then
\* pass, those that a planner or an edit brought in during the check too.
DoneIsChecked ==
  [][\A t \in Task :
       work'[t].outcome = "done" /\ work[t].outcome # "done" /\ Present(t) =>
         board'[t].criteria \in {"none", "passed"}]_vars

\* Once the user has stopped a run, it completes nothing more: neither a task
\* nor a sub-task it holds becomes done, unless the user makes it so.
StopFreezesDone ==
  [][\A t \in Held : run.stop /\ run'.phase = "working" /\ count'.edits = count.edits =>
       /\ board'[t].status = "done" => board[t].status = "done"
       /\ \A s \in Sub : board'[t].subs[s] = "done" => board[t].subs[s] = "done"]_vars

\* "queued/running/verifying: a run holds it, and nothing may edit it."
HeldNotEdited ==
  [][\A t \in Held : count'.edits # count.edits => board'[t] = board[t]]_vars

\* Without planners, every step of the board and of its run is one that TaskLife
\* allows, or leaves the statuses and who holds the tasks as they are.
Life == INSTANCE TaskLife WITH
          status <- [t \in Task |-> board[t].status], held <- Held, stopping <- run.stop
KeepsTaskLife == Life!Spec

\* If every agent's turn ends, a run ends, whatever its agents answer and
\* whatever the user edits.
RunEnds == AgentsEnd => (run.phase # "idle" ~> run.phase = "idle")

\* A stopped run ends, also when no agent would ever have answered.
StopEnds == run.stop ~> run.phase = "idle"
=============================================================================
