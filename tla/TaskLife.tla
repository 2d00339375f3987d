------------------------------ MODULE TaskLife ------------------------------
(***************************************************************************)
(* What the board promises of its tasks, whoever acts on them              *)
(* (core/board/models.py, TASK_STATUSES): a task is free, and the user may *)
(* change it, or it is held by a run, and only the run moves it on and     *)
(* lets it go.  How a run comes to an outcome is left to BoardRun, which   *)
(* implements this specification as long as no planner is at work.         *)
(***************************************************************************)
CONSTANT Task

VARIABLES
  status,   \* status[t] of the task; "absent" when it was removed
  held,     \* the tasks in the hands of the run
  stopping  \* the user stopped the run

vars == <<status, held, stopping>>

Working == {"queued", "running", "verifying"}
Free == {"draft", "ready", "done", "failed", "stopped", "absent"}

Init == status \in [Task -> Free] /\ held = {} /\ stopping = FALSE

\* A run takes its tasks, all at once; those removed since they were chosen
\* stay removed.
Take(tasks) ==
  /\ held = {} /\ \A t \in Task : status[t] \in Free
  /\ held' = tasks
  /\ status' = [t \in Task |-> IF t \in tasks /\ status[t] # "absent" THEN "queued" ELSE status[t]]
  /\ UNCHANGED stopping

Became(t, new) == status' = [status EXCEPT ![t] = new]

\* The run moves a task on.  Once it is stopped it starts neither work nor a
\* check; a check that was under way may still ask for a fix.
MoveOn(t) ==
  /\ t \in held /\ status[t] \in Working
  /\ \/ ~stopping /\ status[t] = "queued" /\ Became(t, "running")
     \/ ~stopping /\ Became(t, "verifying")
     \/ status[t] = "verifying" /\ Became(t, "running")
  /\ UNCHANGED <<held, stopping>>

\* The run lets a task go, with the status it leaves it in.
LetGo(t) ==
  /\ t \in held
  /\ \/ status[t] = "absent" /\ UNCHANGED status
     \/ status[t] # "absent" /\ ~stopping /\ Became(t, "done")
     \/ status[t] # "absent" /\ Became(t, "failed")
     \/ /\ status[t] # "absent" /\ stopping
        /\ \E new \in {"stopped", "ready", "draft"} : Became(t, new)
  /\ held' = held \ {t}
  /\ UNCHANGED stopping

\* The user changes a task that nobody holds; a removed one does not return.
Change(t) ==
  /\ t \notin held /\ status[t] \in Free \ {"absent"}
  /\ \E new \in {"draft", "ready", "done", "absent"} : Became(t, new)
  /\ UNCHANGED <<held, stopping>>

Halt == stopping' = TRUE /\ UNCHANGED <<status, held>>

Return == held = {} /\ stopping' = FALSE /\ UNCHANGED <<status, held>>

\* The process dies: what a run held is found stopped.
Die ==
  /\ status' = [t \in Task |-> IF status[t] \in Working THEN "stopped" ELSE status[t]]
  /\ held' = {} /\ stopping' = FALSE

Next ==
  \/ \E tasks \in SUBSET Task : Take(tasks)
  \/ \E t \in Task : MoveOn(t) \/ LetGo(t) \/ Change(t)
  \/ Halt \/ Return \/ Die

Spec == Init /\ [][Next]_vars
=============================================================================
