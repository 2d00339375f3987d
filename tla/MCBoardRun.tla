----------------------------- MODULE MCBoardRun -----------------------------
(* Small instances of BoardRun.                                            *)
EXTENDS BoardRun, TLC

CONSTANTS t1, t2, s1, s2

\* t2 waits for t1; within a task, s2 waits for s1.
Chain == (t1 :> <<>>) @@ (t2 :> <<t1>>)
SubChain == (s1 :> <<>>) @@ (s2 :> <<s1>>)
Alone == s1 :> <<>>

Fresh(subs, criteria) ==
  [status |-> IF subs = {} THEN "draft" ELSE "ready", lane |-> "todo",
   subs |-> [s \in Sub |-> IF s \in subs THEN "pending" ELSE "absent"], criteria |-> criteria]

\* One task with two sub-tasks and a criterion, one that nobody broke down.
Boards == {(t1 :> Fresh(Sub, "pending")) @@ (t2 :> Fresh({s1}, "none")),
           (t1 :> Fresh({s1}, "none")) @@
             (t2 :> [Fresh({}, "pending") EXCEPT !.status = "stopped"])}
\* The same with a draft, which Play hands to a planner.
WithDraft == {(t1 :> Fresh(Sub, "pending")) @@ (t2 :> Fresh({}, "none"))}
OneSub == {t1 :> Fresh({s1}, "none")}
NoChain == t1 :> <<>>
=============================================================================
