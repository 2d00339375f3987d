----------------------------- MODULE McpProofs ------------------------------
(***************************************************************************)
(* Proofs about McpManager, for any number of servers, callers, tasks and  *)
(* connections, when a server is stopped for one caller at a time.         *)
(*                                                                         *)
(* The invariant says who holds what.  A server's task is held by its      *)
(* state, or by the one caller that has taken it from there to stop it;    *)
(* its connection by the state, and by the task or the caller that will    *)
(* close it.  The steps of tasks and servers are taken one by one; those   *)
(* of a stop are shown to be of one form (StopMove, StopConns), which      *)
(* keeps the invariant.                                                    *)
(***************************************************************************)
EXTENDS McpManager, TLAPS

-----------------------------------------------------------------------------
(* The invariant.                                                          *)

Of(t) == run[t].server
Stopping(a) == act[a].at \in {"shutting", "cancelling"}
AtWork(a) == Stopping(a) \/ act[a].at = "setting"
\* The awaits of _connect, where the task closes the client it made.
Connecting == {"handshake", "stuck", "listing", "prompts", "announce", "closing"}

(* Who holds a server.                                                     *)

\* A coroutine that manages servers never is in close, and the branches of
\* close each have their server and begin when the session is closed.
Roles ==
  \A a \in Actor :
    IF a \in Caller THEN act[a].op # "close" /\ act[a].at \notin {"closing", "ended"}
    ELSE /\ act[a].server = a /\ act[a].at \notin {"away", "setting"}
         /\ act[a].at # "idle" => closed
         /\ Stopping(a) => act[a].op = "close"

\* Two callers are never at work on one server.
Turns ==
  \A a, b \in Caller : AtWork(a) /\ AtWork(b) /\ act[a].server = act[b].server => a = b

\* A task is kept, by the state or by who stops it, under its own server.
Named ==
  /\ \A s \in Server : task[s] # None => Of(task[s]) = s
  /\ \A a \in Actor : act[a].task # None => Of(act[a].task) = act[a].server

\* A task that runs is the state's, or somebody is stopping it.
Owned ==
  \A t \in Task : Alive(t) => \/ task[Of(t)] = t
                              \/ \E a \in Actor : Stopping(a) /\ act[a].task = t

\* A server has one task at most.
Alone == \A t, u \in Task : Alive(t) /\ Alive(u) /\ Of(t) = Of(u) => t = u

\* Who is about to create a task finds the server allowed and nobody there.
Quiet ==
  \A a \in Actor : act[a].at = "setting" =>
    /\ client[act[a].server] = None
    /\ act[a].server \in allowed
    /\ \A t \in Task : Alive(t) => Of(t) # act[a].server
    /\ \A b \in Actor : Stopping(b) => act[b].server # act[a].server

\* While somebody is at work on a server, its state has no task.
Taken == \A a \in Actor : AtWork(a) => task[act[a].server] = None

\* While a server is being stopped, its task may not connect again.
Halting == \A a \in Actor : Stopping(a) => closed \/ stopping[act[a].server]

\* A server that is not allowed and still has a task is being stopped.
Permitted ==
  \A t \in Task : Alive(t) =>
    Of(t) \in allowed \/ \E a \in Actor : Stopping(a) /\ act[a].server = Of(t)

Hands ==
  Roles /\ Turns /\ Named /\ Owned /\ Alone /\ Quiet /\ Taken /\ Halting /\ Permitted

(* Who holds a connection.                                                 *)

Forms ==
  /\ \A t \in Task : run[t].at \in Connecting => run[t].conn # None
  /\ \A t \in Task : run[t].at \in {"listing", "connected", "dropping"} => run[t].uses # None
  /\ \A a \in Actor : act[a].at = "shutting" => act[a].conn # None
  /\ \A a \in Actor : act[a].at = "cancelling" => act[a].task # None

\* A task that connects next finds no client.
Fresh == \A t \in Task : run[t].at \in {"start", "backoff"} => client[Of(t)] = None

\* The client a task will close is the state's, if the state has one.
TaskHolds ==
  \A t \in Task :
    /\ run[t].at \in Connecting => client[Of(t)] \in {None, run[t].conn}
    /\ run[t].at \in {"connected", "dropping"} => client[Of(t)] \in {None, run[t].uses}

\* And so is the one a stop closes; after that the state has none that is up.
StopHolds ==
  \A a \in Actor :
    /\ act[a].at = "shutting" => client[act[a].server] \in {None, act[a].conn}
    /\ act[a].at = "cancelling" /\ client[act[a].server] # None => ~Up(client[act[a].server])

Belongs ==
  /\ \A s \in Server : client[s] # None => conn[client[s]].server = s
  /\ \A t \in Task : Alive(t) /\ run[t].uses # None => conn[run[t].uses].server = Of(t)
  /\ \A c \in Conn : refresh[c] # None => conn[refresh[c]].server = conn[c].server

\* Without a client there are no tools.
Tidy == \A s \in Server : client[s] = None => ~tools[s]

\* A client is in the care of a task or of who stops the server.
Kept ==
  \A s \in Server : client[s] # None =>
    Running(s) \/ \E a \in Actor : Stopping(a) /\ act[a].server = s

Clients ==
  Forms /\ Fresh /\ TaskHolds /\ StopHolds /\ Belongs /\ Tidy /\ Kept /\ OneConnection

McpInv == TypeOK /\ Hands /\ Clients

-----------------------------------------------------------------------------
(* Types.                                                                  *)

\* What a step of a server's task leaves as it is.
RunEffect(t) ==
  /\ \E r \in Run : run' = [run EXCEPT ![t] = r] /\ r.server = run[t].server
  /\ UNCHANGED <<closed, listed, allowed, task, stopping, act>>

\* A record put together by one of the abbreviations is a task's.
LEMMA RunRecords ==
  ASSUME TypeOK, NEW t \in Task
  PROVE  /\ run[t] \in Run
         /\ NoRun(run[t].server) \in Run /\ NewRun(run[t].server) \in Run
         /\ \A p \in Place : [run[t] EXCEPT !.at = p] \in Run
         /\ \A w \in Why : [run[t] EXCEPT !.at = "closing", !.why = w] \in Run
  <1>1. run[t] \in Run /\ run[t].server \in Server
    BY DEF TypeOK, Run
  <1>2. NewRun(run[t].server) \in Run
    BY <1>1, RetriesAssumption DEF Run, NewRun, Place, Why
  <1>3. NoRun(run[t].server) \in Run
    BY <1>2 DEF NoRun, Run, Place
  <1>4. \A p \in Place : [run[t] EXCEPT !.at = p] \in Run
    BY <1>1 DEF Run
  <1>5. \A w \in Why : [run[t] EXCEPT !.at = "closing", !.why = w] \in Run
    BY <1>1 DEF Run, Place
  <1>6. QED
    BY <1>1, <1>2, <1>3, <1>4, <1>5

\* A failure that is not the last is counted within the limit.
LEMMA FailedRecord ==
  ASSUME TypeOK, NEW t \in Task, NEW why \in Why, NEW before \in 0..(Retries - 1),
         Failed(t, why, before)
  PROVE  /\ \E r \in Run : /\ run' = [run EXCEPT ![t] = r] /\ r.server = run[t].server
                           /\ r.at \in {"done", "backoff"} /\ r.conn = None /\ r.uses = None
         /\ status' \in [Server -> Status]
  <1>1. run[t].server \in Server /\ run[t] \in Run
    BY DEF TypeOK, Run
  <1> DEFINE r == IF before + 1 >= Retries THEN NoRun(run[t].server)
                  ELSE [NewRun(run[t].server) EXCEPT !.at = "backoff", !.why = why,
                                                     !.failures = before + 1]
  <1>2. run' = [run EXCEPT ![t] = r]
    BY DEF Failed
  <1>3. r \in Run /\ r.server = run[t].server /\ r.at \in {"done", "backoff"}
        /\ r.conn = None /\ r.uses = None
    <2>1. CASE before + 1 >= Retries
      BY <1>1, <2>1, RunRecords DEF NoRun, NewRun
    <2>2. CASE ~(before + 1 >= Retries)
      <3>1. before + 1 \in 0..(Retries - 1)
        BY <2>2, RetriesAssumption
      <3>2. QED
        BY <1>1, <2>2, <3>1 DEF NewRun, Run, Place
    <2>3. QED
      BY <2>1, <2>2
  <1>4. status' \in [Server -> Status]
    BY <1>1 DEF Failed, TypeOK, Status
  <1> HIDE DEF r
  <1>5. QED
    BY <1>2, <1>3, <1>4

\* A step of a task changes its own record, keeps its server and never wakes a
\* task that has ended; the types are kept.
LEMMA RunSteps ==
  ASSUME TypeOK, NEW t \in Task, RunStep(t)
  PROVE  RunEffect(t) /\ Alive(t) /\ TypeOK'
  <1>1. /\ run[t] \in Run /\ run[t].server \in Server
        /\ run[t].failures \in 0..(Retries - 1) /\ run[t].why \in Why
    BY DEF TypeOK, Run
  <1>2. /\ NoRun(run[t].server) \in Run /\ NoRun(run[t].server).server = run[t].server
        /\ NewRun(run[t].server) \in Run
    BY RunRecords DEF NoRun, NewRun
  <1>3. ASSUME NEW p \in Place
        PROVE  /\ [run[t] EXCEPT !.at = p] \in Run
               /\ [run[t] EXCEPT !.at = p].server = run[t].server
    BY <1>1, RunRecords DEF Run
  <1>4. ASSUME NEW w \in Why
        PROVE  /\ [run[t] EXCEPT !.at = "closing", !.why = w] \in Run
               /\ [run[t] EXCEPT !.at = "closing", !.why = w].server = run[t].server
    BY <1>1, RunRecords DEF Run
  <1>5. ASSUME NEW r \in Run, run' = [run EXCEPT ![t] = r]
        PROVE  run' \in [Task -> Run]
    BY <1>5 DEF TypeOK
  <1>6. CASE Start(t)
    <2>1. CASE closed \/ stopping[run[t].server]
      BY <1>2, <1>5, <1>6, <2>1 DEF Start, Leaves, RunEffect, Alive, TypeOK, serverVars, connVars
    <2>2. CASE ~(closed \/ stopping[run[t].server])
      <3>1. PICK c \in Conn :
              /\ conn' = [conn EXCEPT ![c] = [server |-> run[t].server, up |-> TRUE]]
              /\ client' = [client EXCEPT ![run[t].server] = c]
              /\ run' = [run EXCEPT ![t].at = "handshake", ![t].conn = c]
        BY <1>6, <2>2 DEF Start
      <3>2. [run[t] EXCEPT !.at = "handshake", !.conn = c] \in Run
        BY <1>1 DEF Run, Place
      <3>3. run' = [run EXCEPT ![t] = [run[t] EXCEPT !.at = "handshake", !.conn = c]]
        BY <3>1
      <3>4. conn' \in [Conn -> [server : Server, up : BOOLEAN]]
        BY <1>1, <3>1 DEF TypeOK
      <3>5. client' \in [Server -> Conn \cup {None}]
        BY <1>1, <3>1 DEF TypeOK
      <3>6. /\ UNCHANGED <<closed, listed, allowed, status, task, stopping, tools, refresh, act>>
            /\ run[t].at = "start"
        BY <1>6, <2>2 DEF Start
      <3>7. run' \in [Task -> Run]
        BY <1>5, <3>2, <3>3
      <3>8. [run[t] EXCEPT !.at = "handshake", !.conn = c].server = run[t].server
        BY <1>1 DEF Run
      <3>9. RunEffect(t)
        BY <3>2, <3>3, <3>6, <3>8 DEF RunEffect
      <3>10. QED
        BY <3>4, <3>5, <3>6, <3>7, <3>9 DEF TypeOK, Alive
    <2>3. QED
      BY <2>1, <2>2
  <1>7. CASE Greeted(t)
    <2>1. CASE client[run[t].server] = None
      BY <1>4, <1>5, <1>7, <2>1
         DEF Greeted, GivesUp, RunEffect, Alive, TypeOK, Why, serverVars, connVars
    <2>2. CASE client[run[t].server] # None
      <3> DEFINE r == [run[t] EXCEPT !.at = "listing", !.uses = client[run[t].server]]
      <3>1. run' = [run EXCEPT ![t] = r]
        BY <1>7, <2>2 DEF Greeted
      <3>2. client[run[t].server] \in Conn \cup {None}
        BY <1>1 DEF TypeOK
      <3>3. r \in Run /\ r.server = run[t].server
        BY <1>1, <3>2 DEF Run, Place
      <3> HIDE DEF r
      <3>4. QED
        BY <1>5, <1>7, <3>1, <3>3 DEF Greeted, RunEffect, Alive, TypeOK, serverVars, connVars
    <2>3. QED
      BY <2>1, <2>2
  <1>8. CASE Listed(t)
    <2>1. tools' \in [Server -> BOOLEAN]
      BY <1>1, <1>8 DEF Listed, TypeOK
    <2>2. \E r \in Run : run' = [run EXCEPT ![t] = r] /\ r.server = run[t].server
      BY <1>3, <1>4, <1>8 DEF Listed, GivesUp, Goes, Place, Why
    <2>3. QED
      BY <1>5, <1>8, <2>1, <2>2 DEF Listed, RunEffect, Alive, TypeOK, connVars
  <1>9. CASE ConnectFails(t)
    <2>1. \E r \in Run : run' = [run EXCEPT ![t] = r] /\ r.server = run[t].server
      BY <1>4, <1>9 DEF ConnectFails, GivesUp, Why
    <2>2. QED
      BY <1>5, <1>9, <2>1 DEF ConnectFails, RunEffect, Alive, TypeOK, serverVars, connVars
  <1>10. CASE PromptsListed(t)
    <2>1. status' \in [Server -> Status]
      BY <1>1, <1>10 DEF PromptsListed, TypeOK, Status
    <2>2. \E r \in Run : run' = [run EXCEPT ![t] = r] /\ r.server = run[t].server
      BY <1>3, <1>10 DEF PromptsListed, Goes, Place
    <2>3. QED
      BY <1>5, <1>10, <2>1, <2>2 DEF PromptsListed, RunEffect, Alive, TypeOK, connVars
  <1>11. CASE Announced(t)
    <2>1. \E r \in Run : run' = [run EXCEPT ![t] = r] /\ r.server = run[t].server
      <3>1. CASE client[run[t].server] = None
        BY <1>2, <1>11, <3>1 DEF Announced, Leaves
      <3>2. CASE client[run[t].server] # None
        <4> DEFINE r == [run[t] EXCEPT !.at = "connected", !.uses = client[run[t].server]]
        <4>1. run' = [run EXCEPT ![t] = r]
          BY <1>11, <3>2 DEF Announced
        <4>2. client[run[t].server] \in Conn \cup {None}
          BY <1>1 DEF TypeOK
        <4>3. r \in Run /\ r.server = run[t].server
          BY <1>1, <4>2 DEF Run, Place
        <4> HIDE DEF r
        <4>4. QED
          BY <4>1, <4>3
      <3>3. QED
        BY <3>1, <3>2
    <2>2. QED
      BY <1>5, <1>11, <2>1 DEF Announced, RunEffect, Alive, TypeOK, serverVars, connVars
  <1>12. ASSUME NEW c, CloseConn(c)
         PROVE  /\ conn' \in [Conn -> [server : Server, up : BOOLEAN]]
                /\ refresh' \in [Conn -> Conn \cup {None}]
    BY <1>12 DEF CloseConn, TypeOK
  <1>13. ASSUME NEW s, Forget(s)
         PROVE  tools' \in [Server -> BOOLEAN] /\ client' \in [Server -> Conn \cup {None}]
    BY <1>13 DEF Forget, TypeOK
  <1>14. CASE CloseFailed(t)
    <2>1. /\ \E r \in Run : run' = [run EXCEPT ![t] = r] /\ r.server = run[t].server
          /\ status' \in [Server -> Status]
      <3>1. CASE run[t].why = "error"
        <4>1. "error" \in Why /\ Failed(t, "error", run[t].failures)
          BY <1>14, <3>1 DEF CloseFailed, Why
        <4>2. QED
          BY <1>1, <4>1, FailedRecord
      <3>2. CASE run[t].why = "auth"
        <4>1. status' = [status EXCEPT ![run[t].server] = "needs_auth"] /\ Leaves(t)
          BY <1>14, <3>2 DEF CloseFailed
        <4>2. QED
          BY <1>1, <1>2, <4>1 DEF Leaves, TypeOK, Status
      <3>3. CASE run[t].why \notin {"error", "auth"}
        <4>1. status' = status /\ Leaves(t)
          BY <1>14, <3>3 DEF CloseFailed
        <4>2. QED
          BY <1>1, <1>2, <4>1 DEF Leaves, TypeOK
      <3>4. QED
        BY <3>1, <3>2, <3>3
    <2>2. /\ UNCHANGED <<closed, listed, allowed, task, stopping, act>>
          /\ run[t].at = "closing" /\ CloseConn(run[t].conn) /\ Forget(run[t].server)
      BY <1>14 DEF CloseFailed
    <2>3. QED
      BY <1>5, <1>12, <1>13, <2>1, <2>2 DEF RunEffect, Alive, TypeOK
  <1>15. CASE Ended(t)
    <2>1. \E r \in Run : run' = [run EXCEPT ![t] = r] /\ r.server = run[t].server
      BY <1>3, <1>15 DEF Ended, Goes, Place
    <2>2. QED
      BY <1>5, <1>15, <2>1 DEF Ended, RunEffect, Alive, TypeOK, serverVars, connVars
  <1>16. CASE CloseEnded(t)
    <2>1. /\ \E r \in Run : run' = [run EXCEPT ![t] = r] /\ r.server = run[t].server
          /\ status' \in [Server -> Status]
      <3>1. CASE closed \/ stopping[run[t].server]
        BY <1>1, <1>2, <1>16, <3>1 DEF CloseEnded, Leaves, TypeOK
      <3>2. CASE ~(closed \/ stopping[run[t].server])
        <4>1. PICK before \in {0, run[t].failures} : Failed(t, "drop", before)
          BY <1>16, <3>2 DEF CloseEnded
        <4>2. "drop" \in Why /\ before \in 0..(Retries - 1)
          BY <1>1, RetriesAssumption DEF Why
        <4>3. QED
          BY <4>1, <4>2, FailedRecord
      <3>3. QED
        BY <3>1, <3>2
    <2>2. /\ UNCHANGED <<closed, listed, allowed, task, stopping, act>>
          /\ run[t].at = "dropping" /\ CloseConn(run[t].uses) /\ Forget(run[t].server)
      BY <1>16 DEF CloseEnded
    <2>3. QED
      BY <1>5, <1>12, <1>13, <2>1, <2>2 DEF RunEffect, Alive, TypeOK
  <1>17. CASE Wake(t)
    <2>1. status' \in [Server -> Status]
      BY <1>1, <1>17 DEF Wake, TypeOK, Status
    <2>2. \E r \in Run : run' = [run EXCEPT ![t] = r] /\ r.server = run[t].server
      BY <1>3, <1>17 DEF Wake, Goes, Place
    <2>3. QED
      BY <1>5, <1>17, <2>1, <2>2 DEF Wake, RunEffect, Alive, TypeOK, connVars
  <1>18. QED
    BY <1>6, <1>7, <1>8, <1>9, <1>10, <1>11, <1>14, <1>15, <1>16, <1>17 DEF RunStep

\* What a cancellation leaves of a task is a task of the same server, at an
\* await where it unwinds, with the client it had.
LEMMA CancelledRecord ==
  ASSUME TypeOK, NEW t \in Task, NEW r \in Cancelled(run[t])
  PROVE  /\ r \in Run /\ r.server = run[t].server
         /\ r.at # "done" => /\ run[t].at # "done"
                             /\ r.conn = run[t].conn /\ r.uses = run[t].uses
         /\ \/ r.at = "done"
            \/ r.at = "stuck" /\ run[t].at = "handshake"
            \/ r.at = "closing" /\ run[t].at \in {"handshake", "stuck", "listing", "prompts", "closing"}
            \/ r.at = "dropping" /\ run[t].at = "dropping"
  <1>1. /\ run[t] \in Run /\ run[t].server \in Server
        /\ NoRun(run[t].server) \in Run
        /\ NoRun(run[t].server).server = run[t].server /\ NoRun(run[t].server).at = "done"
    BY RunRecords DEF TypeOK, Run, NoRun, NewRun
  <1> DEFINE u == [run[t] EXCEPT !.at = "closing", !.why = "cancel"]
             v == [run[t] EXCEPT !.at = "stuck"]
  <1>2. /\ u \in Run /\ u.server = run[t].server /\ u.at = "closing"
        /\ u.conn = run[t].conn /\ u.uses = run[t].uses
    BY <1>1 DEF Run, Place, Why
  <1>3. /\ v \in Run /\ v.server = run[t].server /\ v.at = "stuck"
        /\ v.conn = run[t].conn /\ v.uses = run[t].uses
    BY <1>1 DEF Run, Place
  <1>4. CASE run[t].at = "handshake"
    <2>1. r \in {u, v}
      BY <1>4 DEF Cancelled
    <2> HIDE DEF u, v
    <2>2. QED
      BY <1>2, <1>3, <1>4, <2>1
  <1>5. CASE run[t].at \in {"stuck", "listing", "prompts"}
    <2>1. r = u
      BY <1>5 DEF Cancelled
    <2> HIDE DEF u, v
    <2>2. QED
      BY <1>2, <1>5, <2>1
  <1>6. CASE run[t].at \in {"closing", "dropping"}
    <2>1. r \in {NoRun(run[t].server), run[t]}
      BY <1>6 DEF Cancelled
    <2> HIDE DEF u, v
    <2>2. QED
      BY <1>1, <1>6, <2>1
  <1>7. CASE run[t].at \notin {"handshake", "stuck", "listing", "prompts", "closing", "dropping"}
    <2>1. r = NoRun(run[t].server)
      BY <1>7 DEF Cancelled
    <2> HIDE DEF u, v
    <2>2. QED
      BY <1>1, <2>1
  <1> HIDE DEF u, v
  <1>8. QED
    BY <1>4, <1>5, <1>6, <1>7

\* Telling a task to stop changes its record and the caller's, and no other.
LEMMA CancelEffect ==
  ASSUME TypeOK, NEW a \in Actor, NEW s \in Server, NEW op \in Op, NEW t \in Task,
         NEW tries \in 0..Attempts, CancelTask(a, s, op, t, tries)
  PROVE  /\ run' \in [Task -> Run] /\ act' \in [Actor -> Act]
         /\ \E r \in Cancelled(run[t]) : run' = [run EXCEPT ![t] = r]
         /\ \E b \in Act : /\ act' = [act EXCEPT ![a] = b]
                           /\ b.at = "cancelling" /\ b.op = op /\ b.server = s
                           /\ b.task = t /\ b.conn = None
  <1>1. PICK r \in Cancelled(run[t]) : run' = [run EXCEPT ![t] = r]
    BY DEF CancelTask
  <1>2. run' \in [Task -> Run]
    BY <1>1, CancelledRecord DEF TypeOK
  <1> DEFINE b == [Idle(s) EXCEPT !.at = "cancelling", !.op = op, !.task = t, !.tries = tries]
  <1>3. act' = [act EXCEPT ![a] = b]
    BY DEF CancelTask
  <1>4. /\ b \in Act /\ b.at = "cancelling" /\ b.op = op /\ b.server = s
        /\ b.task = t /\ b.conn = None
    BY AttemptsAssumption DEF Idle, Act, At, Op
  <1> HIDE DEF b
  <1>5. act' \in [Actor -> Act]
    BY <1>3, <1>4 DEF TypeOK
  <1>6. QED
    BY <1>1, <1>2, <1>3, <1>4, <1>5

\* What is left of a stop when it is over: the client and the tools are
\* forgotten, and the caller is done or about to create a task.
LEMMA FinishEffect ==
  ASSUME TypeOK, allowed' \in SUBSET Server, NEW a \in Actor, NEW s \in Server, NEW op \in Op,
         NEW halted \in [Server -> BOOLEAN], FinishStop(a, s, op, halted)
  PROVE  /\ listed' \subseteq Server /\ status' \in [Server -> Status]
         /\ client' = [client EXCEPT ![s] = None] /\ tools' = [tools EXCEPT ![s] = FALSE]
         /\ client' \in [Server -> Conn \cup {None}] /\ tools' \in [Server -> BOOLEAN]
         /\ stopping' \in [Server -> BOOLEAN] /\ act' \in [Actor -> Act]
         /\ \E b \in Act :
              /\ act' = [act EXCEPT ![a] = b]
              /\ b.server = s /\ b.task = None /\ b.conn = None
              /\ b.op = "reconnect"
              /\ \/ /\ b.at = IF op = "close" THEN "ended" ELSE "idle"
                    /\ stopping' = halted
                 \/ /\ b.at = "setting" /\ op \in {"reconnect", "allow", "forbid"}
                    /\ ~closed /\ s \in allowed'
                    /\ stopping' = [halted EXCEPT ![s] = FALSE]
  <1>1. /\ client' = [client EXCEPT ![s] = None] /\ tools' = [tools EXCEPT ![s] = FALSE]
        /\ client' \in [Server -> Conn \cup {None}] /\ tools' \in [Server -> BOOLEAN]
    BY DEF FinishStop, Forget, TypeOK
  <1>2. listed' \subseteq Server
    BY DEF FinishStop, TypeOK
  <1> DEFINE away == [Idle(s) EXCEPT !.at = "setting"]
             over == [Idle(s) EXCEPT !.at = IF op = "close" THEN "ended" ELSE "idle"]
  <1>3. /\ Idle(s) \in Act /\ Idle(s).at = "idle" /\ Idle(s).op = "reconnect"
        /\ Idle(s).server = s /\ Idle(s).task = None /\ Idle(s).conn = None
    BY AttemptsAssumption DEF Idle, Act, At, Op
  <1>4. /\ away \in Act /\ away.at = "setting" /\ away.op = "reconnect"
        /\ away.server = s /\ away.task = None /\ away.conn = None
    BY AttemptsAssumption DEF Idle, Act, At, Op
  <1>5. /\ over \in Act /\ over.at = (IF op = "close" THEN "ended" ELSE "idle")
        /\ over.op = "reconnect"
        /\ over.server = s /\ over.task = None /\ over.conn = None
    BY AttemptsAssumption DEF Idle, Act, At, Op
  <1>6. CASE op \in {"reconnect", "allow", "forbid"} /\ (closed \/ s \notin allowed')
    <2>1. /\ status' = [status EXCEPT ![s] = "off"] /\ stopping' = halted
          /\ act' = [act EXCEPT ![a] = Idle(s)]
      BY <1>6 DEF FinishStop, Schedule
    <2>2. op # "close"
      BY <1>6
    <2> HIDE DEF away, over
    <2>3. /\ status' \in [Server -> Status] /\ stopping' \in [Server -> BOOLEAN]
          /\ act' \in [Actor -> Act]
      BY <1>3, <2>1 DEF TypeOK, Status
    <2>4. QED
      BY <1>1, <1>2, <1>3, <2>1, <2>2, <2>3
  <1>7. CASE op \in {"reconnect", "allow", "forbid"} /\ ~(closed \/ s \notin allowed')
    <2>1. /\ status' = [status EXCEPT ![s] = "connecting"]
          /\ stopping' = [halted EXCEPT ![s] = FALSE]
          /\ act' = [act EXCEPT ![a] = away]
      BY <1>7 DEF FinishStop, Schedule
    <2> HIDE DEF away, over
    <2>2. /\ status' \in [Server -> Status] /\ stopping' \in [Server -> BOOLEAN]
          /\ act' \in [Actor -> Act]
      BY <1>4, <2>1 DEF TypeOK, Status
    <2>3. QED
      BY <1>1, <1>2, <1>4, <1>7, <2>1, <2>2
  <1>8. CASE op \notin {"reconnect", "allow", "forbid"}
    <2>1. /\ stopping' = halted
          /\ status' = IF op = "call" THEN [status EXCEPT ![s] = "needs_auth"] ELSE status
          /\ act' = [act EXCEPT ![a] = over]
      BY <1>8 DEF FinishStop
    <2> HIDE DEF away, over
    <2>2. /\ status' \in [Server -> Status] /\ stopping' \in [Server -> BOOLEAN]
          /\ act' \in [Actor -> Act]
      BY <1>5, <2>1 DEF TypeOK, Status
    <2>3. QED
      BY <1>1, <1>2, <1>5, <2>1, <2>2
  <1> HIDE DEF away, over
  <1>9. QED
    BY <1>6, <1>7, <1>8

-----------------------------------------------------------------------------
(* Steps of a task and of a server.                                        *)

\* A step that leaves the callers alone, wakes no task, and touches a client
\* only of a server whose task runs, leaves it clear who holds what.
LEMMA HandsKept ==
  ASSUME TypeOK, Hands, UNCHANGED <<closed, allowed, task, stopping, act>>,
         \A t \in Task : run'[t].server = run[t].server,
         \A t \in Task : run'[t].at # "done" => run[t].at # "done",
         \A s \in Server : client'[s] # client[s] => Running(s)
  PROVE  Hands'
  <1>1. Roles'
    BY DEF Hands, Roles, Stopping
  <1>2. Turns' /\ Taken' /\ Halting'
    BY DEF Hands, Turns, Taken, Halting, AtWork, Stopping
  <1>3. Named'
    <2>1. \A s \in Server : task[s] \in Task \cup {None}
      BY DEF TypeOK
    <2>2. \A a \in Actor : act[a].task \in Task \cup {None}
      BY DEF TypeOK, Act
    <2>3. QED
      BY <2>1, <2>2 DEF Hands, Named, Of
  <1>4. Owned'
    BY DEF Hands, Owned, Alive, Of, Stopping
  <1>5. Alone'
    BY DEF Hands, Alone, Alive, Of
  <1>6. Quiet'
    <2> SUFFICES ASSUME NEW a \in Actor, act[a].at = "setting"
                 PROVE  /\ client'[act[a].server] = None
                        /\ act[a].server \in allowed
                        /\ \A t \in Task : run'[t].at # "done" => run'[t].server # act[a].server
                        /\ \A b \in Actor : Stopping(b) => act[b].server # act[a].server
      BY DEF Quiet, Alive, Of, Stopping
    <2>1. /\ client[act[a].server] = None /\ act[a].server \in allowed
          /\ \A t \in Task : run[t].at # "done" => run[t].server # act[a].server
          /\ \A b \in Actor : Stopping(b) => act[b].server # act[a].server
      BY DEF Hands, Quiet, Alive, Of
    <2>2. act[a].server \in Server
      BY DEF TypeOK, Act
    <2>3. ~Running(act[a].server)
      BY <2>1 DEF Running, Alive
    <2>4. QED
      BY <2>1, <2>2, <2>3
  <1>7. Permitted'
    BY DEF Hands, Permitted, Alive, Of, Stopping
  <1>8. QED
    BY <1>1, <1>2, <1>3, <1>4, <1>5, <1>6, <1>7 DEF Hands

\* A step of a task that changes no client and no connection: it stays with the
\* client it has, takes the state's, or leaves if there is none.
Walks(t, r) ==
  /\ r \in Run /\ run' = [run EXCEPT ![t] = r] /\ r.server = Of(t)
  /\ UNCHANGED <<client, conn, refresh, act>>
  /\ r.at \in Connecting => run[t].at \in Connecting /\ r.conn = run[t].conn
  /\ r.at \in {"start", "backoff"} => run[t].at \in {"start", "backoff"}
  /\ r.at \in {"listing", "connected", "dropping"} => r.uses # None
  /\ r.at \in {"connected", "dropping"} => client[Of(t)] \in {None, r.uses}
  /\ r.uses # None => r.uses \in {run[t].uses, client[Of(t)]}
  /\ r.at = "done" => client[Of(t)] = None
  /\ \A s \in Server : tools'[s] => tools[s] \/ client[s] # None

\* Such a step leaves it clear who holds which connection.
LEMMA WalkKeeps ==
  ASSUME TypeOK, Clients, NEW t \in Task, Alive(t), NEW r, Walks(t, r)
  PROVE  Clients'
  <1>1. /\ run' = [run EXCEPT ![t] = r] /\ run'[t] = r /\ r.server = Of(t)
        /\ \A u \in Task \ {t} : run'[u] = run[u]
        /\ client' = client /\ conn' = conn /\ refresh' = refresh /\ act' = act
    BY DEF Walks, TypeOK
  <1>2. Of(t) \in Server
    BY DEF TypeOK, Run, Of
  <1>3. Forms'
    BY <1>1 DEF Walks, Clients, Forms
  <1>4. Fresh'
    BY <1>1 DEF Walks, Clients, Fresh, Of
  <1>5. TaskHolds'
    BY <1>1 DEF Walks, Clients, TaskHolds, Of
  <1>6. StopHolds'
    BY <1>1 DEF Clients, StopHolds, Up
  <1>7. Belongs'
    <2>1. \A u \in Task : run'[u].at # "done" /\ run'[u].uses # None
            => conn'[run'[u].uses].server = run'[u].server
      BY <1>1, <1>2 DEF Walks, Clients, Belongs, Alive, Of
    <2>2. QED
      BY <1>1, <2>1 DEF Clients, Belongs, Alive, Of
  <1>8. Tidy'
    BY <1>1 DEF Walks, Clients, Tidy, TypeOK
  <1>9. Kept'
    <2> SUFFICES ASSUME NEW s \in Server, client[s] # None
                 PROVE  Running(s)' \/ \E a \in Actor : Stopping(a) /\ act[a].server = s
      BY <1>1 DEF Kept, Stopping
    <2>1. Running(s) \/ \E a \in Actor : Stopping(a) /\ act[a].server = s
      BY DEF Clients, Kept
    <2>2. Running(s) => Running(s)'
      BY <1>1 DEF Walks, Running, Alive, Of
    <2>3. QED
      BY <2>1, <2>2
  <1>10. OneConnection'
    BY <1>1 DEF Clients, OneConnection, Up
  <1>11. QED
    BY <1>3, <1>4, <1>5, <1>6, <1>7, <1>8, <1>9, <1>10 DEF Clients

\* The steps of a task that are of this kind.
LEMMA RunWalks ==
  ASSUME TypeOK, Clients, NEW t \in Task,
         \/ Start(t) /\ (closed \/ stopping[run[t].server])
         \/ Greeted(t) \/ Listed(t) \/ ConnectFails(t) \/ PromptsListed(t) \/ Announced(t)
         \/ Ended(t) \/ Wake(t)
  PROVE  \E r : Walks(t, r)
  <1>1. /\ run[t] \in Run /\ Of(t) \in Server /\ run[t].server = Of(t)
        /\ client[Of(t)] \in Conn \cup {None}
    BY DEF TypeOK, Run, Of
  <1>2. /\ NoRun(Of(t)) \in Run /\ NoRun(Of(t)).server = Of(t)
        /\ NoRun(Of(t)).at = "done" /\ NoRun(Of(t)).uses = None
    BY <1>1, RunRecords DEF NoRun, NewRun
  <1>3. ASSUME NEW p \in Place
        PROVE  LET r == [run[t] EXCEPT !.at = p] IN
               r \in Run /\ r.server = Of(t) /\ r.at = p /\ r.uses = run[t].uses /\ r.conn = run[t].conn
    BY <1>1, RunRecords DEF Run
  <1>4. ASSUME NEW w \in Why
        PROVE  LET r == [run[t] EXCEPT !.at = "closing", !.why = w] IN
               r \in Run /\ r.server = Of(t) /\ r.at = "closing" /\ r.uses = run[t].uses
               /\ r.conn = run[t].conn
    BY <1>1, RunRecords DEF Run
  <1>5. ASSUME NEW p \in Place
        PROVE  LET r == [run[t] EXCEPT !.at = p, !.uses = client[Of(t)]] IN
               r \in Run /\ r.server = Of(t) /\ r.at = p /\ r.uses = client[Of(t)]
               /\ r.conn = run[t].conn
    BY <1>1 DEF Run
  <1>6. CASE Start(t) /\ (closed \/ stopping[run[t].server])
    <2>1. /\ run' = [run EXCEPT ![t] = NoRun(Of(t))] /\ run[t].at = "start"
          /\ UNCHANGED <<client, conn, refresh, act, tools>>
      BY <1>1, <1>6 DEF Start, Leaves, serverVars, connVars
    <2>2. client[Of(t)] = None
      BY <2>1 DEF Clients, Fresh
    <2>3. Walks(t, NoRun(Of(t)))
      BY <1>2, <2>1, <2>2 DEF Walks, Connecting
    <2>4. QED
      BY <2>3
  <1>7. CASE Greeted(t)
    <2>1. /\ run[t].at = "handshake"
          /\ UNCHANGED <<client, conn, refresh, act, tools>>
      BY <1>7 DEF Greeted, serverVars, connVars
    <2>2. CASE client[Of(t)] = None
      <3> DEFINE r == [run[t] EXCEPT !.at = "closing", !.why = "error"]
      <3>1. run' = [run EXCEPT ![t] = r]
        BY <1>1, <1>7, <2>2 DEF Greeted, GivesUp
      <3>2. /\ r \in Run /\ r.server = Of(t) /\ r.at = "closing" /\ r.uses = run[t].uses
            /\ r.conn = run[t].conn
        BY <1>4 DEF Why
      <3> HIDE DEF r
      <3>3. Walks(t, r)
        BY <2>1, <3>1, <3>2 DEF Walks, Connecting
      <3>4. QED
        BY <3>3
    <2>3. CASE client[Of(t)] # None
      <3> DEFINE r == [run[t] EXCEPT !.at = "listing", !.uses = client[Of(t)]]
      <3>1. run' = [run EXCEPT ![t] = r]
        BY <1>1, <1>7, <2>3 DEF Greeted
      <3>2. /\ r \in Run /\ r.server = Of(t) /\ r.at = "listing" /\ r.uses = client[Of(t)]
            /\ r.conn = run[t].conn
        BY <1>5 DEF Place
      <3> HIDE DEF r
      <3>3. Walks(t, r)
        BY <2>1, <2>3, <3>1, <3>2 DEF Walks, Connecting
      <3>4. QED
        BY <3>3
    <2>4. QED
      BY <2>2, <2>3
  <1>8. CASE Listed(t)
    <2>1. /\ run[t].at = "listing" /\ Up(run[t].uses)
          /\ UNCHANGED <<client, conn, refresh, act>>
          /\ tools' = [tools EXCEPT ![Of(t)] = TRUE]
      BY <1>1, <1>8 DEF Listed, connVars
    <2>2. client[Of(t)] = run[t].uses /\ run[t].uses # None
      <3>1. run[t].uses # None /\ run[t].uses \in Conn
        BY <1>1, <2>1 DEF Clients, Forms, Run
      <3>2. conn[run[t].uses].server = Of(t)
        BY <2>1, <3>1 DEF Clients, Belongs, Alive
      <3>3. QED
        BY <2>1, <3>1, <3>2 DEF Clients, OneConnection
    <2>3. run' = [run EXCEPT ![t] = [run[t] EXCEPT !.at = "prompts"]]
      BY <1>1, <1>8, <2>2 DEF Listed, Goes
    <2> DEFINE r == [run[t] EXCEPT !.at = "prompts"]
    <2>4. /\ r \in Run /\ r.server = Of(t) /\ r.at = "prompts" /\ r.uses = run[t].uses
          /\ r.conn = run[t].conn
      BY <1>3 DEF Place
    <2>5. \A s \in Server : tools'[s] => tools[s] \/ client[s] # None
      BY <2>1, <2>2 DEF TypeOK
    <2>6. run' = [run EXCEPT ![t] = r]
      BY <2>3
    <2> HIDE DEF r
    <2>7. Walks(t, r)
      BY <2>1, <2>4, <2>5, <2>6 DEF Walks, Connecting
    <2>8. QED
      BY <2>7
  <1>9. CASE ConnectFails(t)
    <2>1. /\ run[t].at \in {"handshake", "listing"}
          /\ UNCHANGED <<client, conn, refresh, act, tools>>
      BY <1>9 DEF ConnectFails, serverVars, connVars
    <2>2. PICK w \in Why : run' = [run EXCEPT ![t] = [run[t] EXCEPT !.at = "closing", !.why = w]]
      BY <1>9 DEF ConnectFails, GivesUp, Why
    <2> DEFINE r == [run[t] EXCEPT !.at = "closing", !.why = w]
    <2>3. /\ r \in Run /\ r.server = Of(t) /\ r.at = "closing" /\ r.uses = run[t].uses
          /\ r.conn = run[t].conn
      BY <1>4
    <2>4. run' = [run EXCEPT ![t] = r]
      BY <2>2
    <2> HIDE DEF r
    <2>5. Walks(t, r)
      BY <2>1, <2>3, <2>4 DEF Walks, Connecting
    <2>6. QED
      BY <2>5
  <1>10. CASE PromptsListed(t)
    <2> DEFINE r == [run[t] EXCEPT !.at = "announce"]
    <2>1. /\ run[t].at = "prompts" /\ run' = [run EXCEPT ![t] = r]
          /\ UNCHANGED <<client, conn, refresh, act, tools>>
      BY <1>10 DEF PromptsListed, Goes, connVars
    <2>2. /\ r \in Run /\ r.server = Of(t) /\ r.at = "announce" /\ r.uses = run[t].uses
          /\ r.conn = run[t].conn
      BY <1>3 DEF Place
    <2> HIDE DEF r
    <2>3. Walks(t, r)
      BY <2>1, <2>2 DEF Walks, Connecting
    <2>4. QED
      BY <2>3
  <1>11. CASE Announced(t)
    <2>1. /\ run[t].at = "announce"
          /\ UNCHANGED <<client, conn, refresh, act, tools>>
      BY <1>11 DEF Announced, serverVars, connVars
    <2>2. CASE client[Of(t)] = None
      <3>1. run' = [run EXCEPT ![t] = NoRun(Of(t))]
        BY <1>1, <1>11, <2>2 DEF Announced, Leaves
      <3>2. Walks(t, NoRun(Of(t)))
        BY <1>2, <2>1, <2>2, <3>1 DEF Walks, Connecting
      <3>3. QED
        BY <3>2
    <2>3. CASE client[Of(t)] # None
      <3> DEFINE r == [run[t] EXCEPT !.at = "connected", !.uses = client[Of(t)]]
      <3>1. run' = [run EXCEPT ![t] = r]
        BY <1>1, <1>11, <2>3 DEF Announced
      <3>2. /\ r \in Run /\ r.server = Of(t) /\ r.at = "connected" /\ r.uses = client[Of(t)]
            /\ r.conn = run[t].conn
        BY <1>5 DEF Place
      <3> HIDE DEF r
      <3>3. Walks(t, r)
        BY <2>1, <2>3, <3>1, <3>2 DEF Walks, Connecting
      <3>4. QED
        BY <3>3
    <2>4. QED
      BY <2>2, <2>3
  <1>12. CASE Ended(t)
    <2> DEFINE r == [run[t] EXCEPT !.at = "dropping"]
    <2>1. /\ run[t].at = "connected" /\ run' = [run EXCEPT ![t] = r]
          /\ UNCHANGED <<client, conn, refresh, act, tools>>
      BY <1>12 DEF Ended, Goes, serverVars, connVars
    <2>2. /\ r \in Run /\ r.server = Of(t) /\ r.at = "dropping" /\ r.uses = run[t].uses
          /\ r.conn = run[t].conn
      BY <1>3 DEF Place
    <2>3. run[t].uses # None /\ client[Of(t)] \in {None, run[t].uses}
      BY <2>1 DEF Clients, Forms, TaskHolds
    <2> HIDE DEF r
    <2>4. Walks(t, r)
      BY <2>1, <2>2, <2>3 DEF Walks, Connecting
    <2>5. QED
      BY <2>4
  <1>13. CASE Wake(t)
    <2> DEFINE r == [run[t] EXCEPT !.at = "start"]
    <2>1. /\ run[t].at = "backoff" /\ run' = [run EXCEPT ![t] = r]
          /\ UNCHANGED <<client, conn, refresh, act, tools>>
      BY <1>13 DEF Wake, Goes, connVars
    <2>2. /\ r \in Run /\ r.server = Of(t) /\ r.at = "start" /\ r.uses = run[t].uses
          /\ r.conn = run[t].conn
      BY <1>3 DEF Place
    <2> HIDE DEF r
    <2>3. Walks(t, r)
      BY <2>1, <2>2 DEF Walks, Connecting
    <2>4. QED
      BY <2>3
  <1>14. QED
    BY <1>6, <1>7, <1>8, <1>9, <1>10, <1>11, <1>12, <1>13

\* A connection is closed and the state of its server forgets it.
LEMMA CloseForgets ==
  ASSUME TypeOK, OneConnection, Belongs, NEW s \in Server, NEW c \in Conn,
         CloseConn(c), Forget(s), client[s] \in {None, c}
  PROVE  /\ \A r \in Server : client'[r] = (IF r = s THEN None ELSE client[r])
         /\ \A d \in Conn : conn'[d].server = conn[d].server
         /\ \A d \in Conn : conn'[d].up => conn[d].up
         /\ \A d \in Conn : refresh'[d] \in {None, refresh[d]}
         /\ OneConnection'
  <1>1. \A r \in Server : client'[r] = (IF r = s THEN None ELSE client[r])
    BY DEF Forget, TypeOK
  <1>2. /\ \A d \in Conn : conn'[d].server = conn[d].server
        /\ \A d \in Conn : conn'[d].up => conn[d].up /\ d # c
    BY DEF CloseConn, TypeOK
  <1>3. \A d \in Conn : refresh'[d] \in {None, refresh[d]}
    BY DEF CloseConn, TypeOK
  <1>4. OneConnection'
    <2> SUFFICES ASSUME NEW d \in Conn, conn'[d].up
                 PROVE  client'[conn'[d].server] = d
      BY DEF OneConnection, Up
    <2>1. conn[d].up /\ d # c /\ d # None /\ conn[d].server \in Server
      BY <1>2, NoneAssumption DEF TypeOK
    <2>2. client[conn[d].server] = d
      BY <2>1 DEF OneConnection, Up
    <2>3. QED
      BY <1>1, <1>2, <2>1, <2>2
  <1>5. QED
    BY <1>1, <1>2, <1>3, <1>4

\* The task closes the client it made or waited for, and sleeps or ends.
LEMMA RunCloses ==
  ASSUME TypeOK, Clients, NEW t \in Task, CloseFailed(t) \/ CloseEnded(t)
  PROVE  Clients'
  <1>1. /\ run[t] \in Run /\ Of(t) \in Server /\ run[t].server = Of(t)
        /\ NoRun(Of(t)).at = "done" /\ NoRun(Of(t)).uses = None
        /\ run[t].failures \in 0..(Retries - 1)
    BY DEF TypeOK, Run, Of, NoRun, NewRun
  <1>2. PICK c \in Conn : CloseConn(c) /\ Forget(Of(t)) /\ client[Of(t)] \in {None, c}
    <2>1. CASE CloseFailed(t)
      <3>1. run[t].at = "closing" /\ CloseConn(run[t].conn) /\ Forget(Of(t))
        BY <1>1, <2>1 DEF CloseFailed
      <3>2. run[t].conn \in Conn /\ client[Of(t)] \in {None, run[t].conn}
        BY <1>1, <3>1 DEF Clients, Forms, TaskHolds, Run, Connecting
      <3>3. QED
        BY <3>1, <3>2
    <2>2. CASE CloseEnded(t)
      <3>1. run[t].at = "dropping" /\ CloseConn(run[t].uses) /\ Forget(Of(t))
        BY <1>1, <2>2 DEF CloseEnded
      <3>2. run[t].uses \in Conn /\ client[Of(t)] \in {None, run[t].uses}
        BY <1>1, <3>1 DEF Clients, Forms, TaskHolds, Run
      <3>3. QED
        BY <3>1, <3>2
    <2>3. QED
      BY <2>1, <2>2
  <1>3. PICK r \in Run : /\ run' = [run EXCEPT ![t] = r] /\ r.server = Of(t)
                         /\ r.at \in {"done", "backoff"} /\ r.uses = None
    <2>1. CASE Leaves(t)
      <3>1. run' = [run EXCEPT ![t] = NoRun(Of(t))] /\ NoRun(Of(t)).server = Of(t)
            /\ NoRun(Of(t)) \in Run
        BY <1>1, <2>1, RunRecords DEF Leaves, NoRun, NewRun
      <3>2. QED
        BY <1>1, <3>1
    <2>2. CASE ~Leaves(t)
      <3>1. \E why \in Why, before \in 0..(Retries - 1) : Failed(t, why, before)
        <4>1. CASE CloseFailed(t)
          <5>1. Failed(t, "error", run[t].failures)
            BY <2>2, <4>1 DEF CloseFailed
          <5>2. QED
            BY <1>1, <5>1 DEF Why
        <4>2. CASE CloseEnded(t)
          <5>1. PICK before \in {0, run[t].failures} : Failed(t, "drop", before)
            BY <2>2, <4>2 DEF CloseEnded
          <5>2. before \in 0..(Retries - 1) /\ "drop" \in Why
            BY <1>1, RetriesAssumption DEF Why
          <5>3. QED
            BY <5>1, <5>2
        <4>3. QED
          BY <4>1, <4>2
      <3>2. QED
        BY <1>1, <3>1, FailedRecord
    <2>3. QED
      BY <2>1, <2>2
  <1>4. /\ \A s \in Server : client'[s] = (IF s = Of(t) THEN None ELSE client[s])
        /\ \A d \in Conn : conn'[d].server = conn[d].server
        /\ \A d \in Conn : conn'[d].up => conn[d].up
        /\ \A d \in Conn : refresh'[d] \in {None, refresh[d]}
        /\ OneConnection'
    BY <1>1, <1>2, CloseForgets DEF Clients
  <1>5. /\ run'[t] = r /\ \A u \in Task \ {t} : run'[u] = run[u]
        /\ act' = act
    BY <1>3 DEF TypeOK, CloseFailed, CloseEnded
  <1>6. \A u \in Task : Of(u) \in Server /\ run'[u].server = Of(u)
    BY <1>3, <1>5 DEF TypeOK, Run, Of
  <1>7. Forms'
    BY <1>3, <1>5 DEF Clients, Forms, Connecting
  <1>8. Fresh'
    BY <1>3, <1>4, <1>5, <1>6 DEF Clients, Fresh, Of
  <1>9. TaskHolds'
    BY <1>3, <1>4, <1>5, <1>6 DEF Clients, TaskHolds, Of, Connecting
  <1>10. StopHolds'
    <2> SUFFICES ASSUME NEW a \in Actor
                 PROVE  /\ act[a].at = "shutting" => client'[act[a].server] \in {None, act[a].conn}
                        /\ act[a].at = "cancelling" /\
                             client'[act[a].server] # None => ~conn'[client'[act[a].server]].up
      BY <1>5 DEF StopHolds, Up
    <2>1. act[a].server \in Server /\ client[act[a].server] \in Conn \cup {None}
      BY DEF TypeOK, Act
    <2>2. QED
      BY <1>4, <2>1 DEF Clients, StopHolds, Up
  <1>11. Belongs'
    <2>1. \A s \in Server : client'[s] # None => conn'[client'[s]].server = s
      BY <1>4 DEF Clients, Belongs, TypeOK
    <2>2. \A u \in Task : run'[u].at # "done" /\ run'[u].uses # None
            => conn'[run'[u].uses].server = run'[u].server
      <3> SUFFICES ASSUME NEW u \in Task, run'[u].at # "done", run'[u].uses # None
                   PROVE  conn'[run'[u].uses].server = run'[u].server
        OBVIOUS
      <3>1. run'[u] = run[u] /\ run[u].uses \in Conn /\ run[u].at # "done"
        BY <1>3, <1>5 DEF TypeOK, Run
      <3>2. conn[run[u].uses].server = run[u].server
        BY <3>1, NoneAssumption DEF Clients, Belongs, Alive, Of
      <3>3. QED
        BY <1>4, <3>1, <3>2
    <2>3. \A d \in Conn : refresh'[d] # None => conn'[refresh'[d]].server = conn'[d].server
      BY <1>4 DEF Clients, Belongs, TypeOK
    <2>4. QED
      BY <2>1, <2>2, <2>3 DEF Belongs, Alive, Of
  <1>12. Tidy'
    <2>1. \A s \in Server : tools'[s] = (IF s = Of(t) THEN FALSE ELSE tools[s])
      BY <1>2 DEF Forget, TypeOK
    <2>2. QED
      BY <1>4, <2>1 DEF Clients, Tidy
  <1>13. Kept'
    <2> SUFFICES ASSUME NEW s \in Server, client'[s] # None
                 PROVE  Running(s)' \/ \E a \in Actor : Stopping(a) /\ act[a].server = s
      BY <1>5 DEF Kept, Stopping
    <2>1. client[s] # None /\ s # Of(t)
      BY <1>4
    <2>2. Running(s) => Running(s)'
      BY <1>5, <2>1 DEF Running, Alive, Of
    <2>3. QED
      BY <2>1, <2>2 DEF Clients, Kept
  <1>14. QED
    BY <1>4, <1>7, <1>8, <1>9, <1>10, <1>11, <1>12, <1>13 DEF Clients

\* A task connects: the connection is one that nobody refers to, and the state
\* of its server had none.
LEMMA RunConnects ==
  ASSUME TypeOK, Hands, Clients, NEW t \in Task,
         Start(t), ~(closed \/ stopping[run[t].server])
  PROVE  Clients'
  <1>1. PICK c \in Conn :
          /\ ~Held(c)
          /\ conn' = [conn EXCEPT ![c] = [server |-> Of(t), up |-> TRUE]]
          /\ client' = [client EXCEPT ![Of(t)] = c]
          /\ run' = [run EXCEPT ![t].at = "handshake", ![t].conn = c]
    BY DEF Start, Of
  <1>2. /\ run[t].at = "start" /\ refresh' = refresh /\ act' = act /\ tools' = tools
    BY DEF Start
  <1>3. /\ run[t] \in Run /\ Of(t) \in Server /\ run[t].server = Of(t) /\ c # None
    BY NoneAssumption DEF TypeOK, Run, Of
  <1> DEFINE r == [run[t] EXCEPT !.at = "handshake", !.conn = c]
  <1>4. r \in Run /\ r.at = "handshake" /\ r.conn = c /\ r.server = Of(t) /\ r.uses = run[t].uses
    BY <1>3 DEF Run, Place
  <1>5. run' = [run EXCEPT ![t] = r]
    BY <1>1
  <1> HIDE DEF r
  <1>6. run'[t] = r /\ \A u \in Task \ {t} : run'[u] = run[u]
    BY <1>5 DEF TypeOK
  <1>7. \A u \in Task : Of(u) \in Server /\ run'[u].server = Of(u)
    BY <1>4, <1>6 DEF TypeOK, Run, Of
  <1>8. /\ \A s \in Server : client'[s] = (IF s = Of(t) THEN c ELSE client[s])
        /\ \A d \in Conn : d # c => conn'[d] = conn[d]
        /\ conn'[c].server = Of(t) /\ conn'[c].up
    BY <1>1, <1>3 DEF TypeOK
  <1>9. client[Of(t)] = None
    BY <1>2 DEF Clients, Fresh
  <1>10. /\ \A s \in Server : client[s] # c
         /\ \A d \in Conn : refresh[d] # c
         /\ refresh[c] = None
         /\ \A u \in Task : Alive(u) => run[u].uses # c
    BY <1>1 DEF Held
  <1>11. \A u \in Task \ {t} : Alive(u) => Of(u) # Of(t)
    BY <1>2, <1>3 DEF Hands, Alone, Alive
  <1>12. Forms'
    BY <1>2, <1>3, <1>4, <1>6 DEF Clients, Forms, Connecting
  <1>13. Fresh'
    BY <1>4, <1>6, <1>7, <1>8, <1>11 DEF Clients, Fresh, Alive, Of
  <1>14. TaskHolds'
    BY <1>4, <1>6, <1>7, <1>8, <1>11 DEF Clients, TaskHolds, Alive, Of, Connecting
  <1>15. StopHolds'
    <2> SUFFICES ASSUME NEW a \in Actor, Stopping(a)
                 PROVE  /\ act[a].at = "shutting" => client'[act[a].server] \in {None, act[a].conn}
                        /\ act[a].at = "cancelling" /\
                             client'[act[a].server] # None => ~conn'[client'[act[a].server]].up
      BY <1>2 DEF StopHolds, Up, Stopping
    <2>1. act[a].server # Of(t)
      BY <1>3 DEF Hands, Halting
    <2>2. act[a].server \in Server /\ client[act[a].server] \in Conn \cup {None}
      BY DEF TypeOK, Act
    <2>3. client'[act[a].server] = client[act[a].server] /\ client[act[a].server] # c
      BY <1>8, <1>10, <2>1, <2>2
    <2>4. QED
      BY <1>8, <2>2, <2>3 DEF Clients, StopHolds, Up
  <1>16. Belongs'
    <2>1. \A s \in Server : client'[s] # None => conn'[client'[s]].server = s
      BY <1>8, <1>10 DEF Clients, Belongs, TypeOK
    <2>2. \A u \in Task : run'[u].at # "done" /\ run'[u].uses # None
            => conn'[run'[u].uses].server = run'[u].server
      <3> SUFFICES ASSUME NEW u \in Task, run'[u].at # "done", run'[u].uses # None
                   PROVE  conn'[run'[u].uses].server = run'[u].server
        OBVIOUS
      <3>1. run'[u].uses = run[u].uses /\ run[u].uses \in Conn /\ run[u].at # "done"
        BY <1>2, <1>4, <1>6 DEF TypeOK, Run
      <3>2. conn[run[u].uses].server = Of(u) /\ run[u].uses # c
        BY <1>10, <3>1, NoneAssumption DEF Clients, Belongs, Alive
      <3>3. QED
        BY <1>7, <1>8, <3>1, <3>2
    <2>3. \A d \in Conn : refresh[d] # None => conn'[refresh[d]].server = conn'[d].server
      BY <1>8, <1>10 DEF Clients, Belongs, TypeOK
    <2>4. QED
      BY <1>2, <2>1, <2>2, <2>3 DEF Belongs, Alive, Of
  <1>17. Tidy'
    BY <1>2, <1>3, <1>8 DEF Clients, Tidy
  <1>18. Kept'
    <2> SUFFICES ASSUME NEW s \in Server, client'[s] # None
                 PROVE  Running(s)' \/ \E a \in Actor : Stopping(a) /\ act[a].server = s
      BY <1>2 DEF Kept, Stopping
    <2>1. CASE s = Of(t)
      BY <1>4, <1>6, <2>1 DEF Running, Alive
    <2>2. CASE s # Of(t)
      <3>1. client[s] # None
        BY <1>8, <2>2
      <3>2. Running(s) => Running(s)'
        BY <1>6, <2>2 DEF Running, Alive, Of
      <3>3. QED
        BY <3>1, <3>2 DEF Clients, Kept
    <2>3. QED
      BY <2>1, <2>2
  <1>19. OneConnection'
    <2> SUFFICES ASSUME NEW d \in Conn, conn'[d].up
                 PROVE  client'[conn'[d].server] = d
      BY DEF OneConnection, Up
    <2>1. CASE d = c
      BY <1>3, <1>8, <2>1
    <2>2. CASE d # c
      <3>1. conn[d].up /\ conn[d].server \in Server /\ d # None
        BY <1>8, <2>2, NoneAssumption DEF TypeOK
      <3>2. client[conn[d].server] = d
        BY <3>1 DEF Clients, OneConnection, Up
      <3>3. conn[d].server # Of(t)
        BY <1>9, <3>1, <3>2
      <3>4. QED
        BY <1>8, <2>2, <3>1, <3>2, <3>3
    <2>3. QED
      BY <2>1, <2>2
  <1>20. QED
    BY <1>12, <1>13, <1>14, <1>15, <1>16, <1>17, <1>18, <1>19 DEF Clients

\* No step of a task breaks the invariant.
LEMMA RunKeeps ==
  ASSUME McpInv, NEW t \in Task, RunStep(t)
  PROVE  McpInv'
  <1>1. TypeOK /\ Hands /\ Clients
    BY DEF McpInv
  <1>2. RunEffect(t) /\ Alive(t) /\ TypeOK'
    BY <1>1, RunSteps
  <1>3. PICK r \in Run : run' = [run EXCEPT ![t] = r] /\ r.server = run[t].server
    BY <1>2 DEF RunEffect
  <1>4. UNCHANGED <<closed, allowed, task, stopping, act>>
    BY <1>2 DEF RunEffect
  <1>5. /\ \A u \in Task : run'[u].server = run[u].server
        /\ \A u \in Task : run'[u].at # "done" => run[u].at # "done"
    BY <1>1, <1>2, <1>3 DEF TypeOK, Alive
  <1>6. Clients'
    <2>1. CASE Start(t) /\ ~(closed \/ stopping[run[t].server])
      BY <1>1, <2>1, RunConnects
    <2>2. CASE CloseFailed(t) \/ CloseEnded(t)
      BY <1>1, <2>2, RunCloses
    <2>3. CASE \/ Start(t) /\ (closed \/ stopping[run[t].server])
               \/ Greeted(t) \/ Listed(t) \/ ConnectFails(t) \/ PromptsListed(t) \/ Announced(t)
               \/ Ended(t) \/ Wake(t)
      <3>1. PICK w : Walks(t, w)
        BY <1>1, <2>3, RunWalks
      <3>2. QED
        BY <1>1, <1>2, <3>1, WalkKeeps
    <2>4. QED
      BY <2>1, <2>2, <2>3 DEF RunStep
  <1>7. \A s \in Server : client'[s] # client[s] => Running(s)
    <2>1. \A s \in Server : s # run[t].server => client'[s] = client[s]
      <3>1. CASE Start(t) /\ ~(closed \/ stopping[run[t].server])
        <4>1. \E c : client' = [client EXCEPT ![run[t].server] = c]
          BY <3>1 DEF Start
        <4>2. QED
          BY <1>1, <4>1 DEF TypeOK
      <3>2. CASE CloseFailed(t) \/ CloseEnded(t)
        <4>1. client' = [client EXCEPT ![run[t].server] = None]
          BY <3>2 DEF CloseFailed, CloseEnded, Forget
        <4>2. QED
          BY <1>1, <4>1 DEF TypeOK
      <3>3. CASE \/ Start(t) /\ (closed \/ stopping[run[t].server])
                 \/ Greeted(t) \/ Listed(t) \/ ConnectFails(t) \/ PromptsListed(t) \/ Announced(t)
                 \/ Ended(t) \/ Wake(t)
        <4>1. PICK w : Walks(t, w)
          BY <1>1, <3>3, RunWalks
        <4>2. QED
          BY <4>1 DEF Walks
      <3>4. QED
        BY <3>1, <3>2, <3>3 DEF RunStep
    <2>2. Running(run[t].server)
      BY <1>2 DEF Running
    <2>3. QED
      BY <2>1, <2>2
  <1>8. Hands'
    BY <1>1, <1>4, <1>5, <1>7, HandsKept
  <1>9. QED
    BY <1>2, <1>6, <1>8 DEF McpInv

\* Nor does what a server does.
LEMMA ServerKeeps ==
  ASSUME McpInv, NEW c \in Conn, Drops(c) \/ ToolsChange(c) \/ Refreshed(c)
  PROVE  McpInv'
  <1>1. TypeOK /\ Hands /\ Clients /\ c # None
    BY NoneAssumption DEF McpInv
  <1>2. UNCHANGED <<closed, listed, allowed, status, task, stopping, client, run, act>>
    BY DEF Drops, ToolsChange, Refreshed, serverVars, connVars
  <1>3. Hands'
    BY <1>1, <1>2, HandsKept
  <1>4. conn[c].server \in Server /\ conn[c] \in [server : Server, up : BOOLEAN]
    BY <1>1 DEF TypeOK
  <1>5. /\ TypeOK'
        /\ \A d \in Conn : conn'[d].server = conn[d].server
        /\ \A d \in Conn : conn'[d].up => conn[d].up
        /\ \A d \in Conn : refresh'[d] # None =>
             refresh'[d] \in {refresh[d], client[conn[d].server]}
        /\ \A s \in Server : tools'[s] => tools[s] \/ client[s] # None
    <2>1. CASE Drops(c)
      <3>1. /\ conn' \in [Conn -> [server : Server, up : BOOLEAN]]
            /\ \A d \in Conn : conn'[d].server = conn[d].server
            /\ \A d \in Conn : conn'[d].up => conn[d].up
        BY <1>1, <2>1 DEF Drops, TypeOK
      <3>2. refresh' = refresh /\ tools' = tools
        BY <2>1 DEF Drops, serverVars
      <3>3. QED
        BY <1>1, <1>2, <1>4, <3>1, <3>2 DEF TypeOK
    <2>2. CASE ToolsChange(c)
      <3>1. /\ refresh' = [refresh EXCEPT ![c] = client[conn[c].server]]
            /\ conn' = conn /\ tools' = tools
        BY <2>2 DEF ToolsChange, serverVars
      <3>2. QED
        BY <1>1, <1>2, <1>4, <3>1 DEF TypeOK
    <2>3. CASE Refreshed(c)
      <3>1. /\ refresh' = [refresh EXCEPT ![c] = None] /\ conn' = conn
            /\ refresh[c] # None
            /\ tools' = IF Up(refresh[c]) THEN [tools EXCEPT ![conn[c].server] = TRUE] ELSE tools
        BY <2>3 DEF Refreshed
      <3>2. Up(refresh[c]) => client[conn[c].server] # None
        <4>1. refresh[c] \in Conn /\ conn[refresh[c]].server = conn[c].server
          BY <1>1, <3>1 DEF TypeOK, Clients, Belongs
        <4>2. QED
          BY <1>1, <3>1, <4>1 DEF Clients, OneConnection
      <3>3. QED
        BY <1>1, <1>2, <1>4, <3>1, <3>2 DEF TypeOK
    <2>4. QED
      BY <2>1, <2>2, <2>3
  <1>6. Forms' /\ Fresh' /\ TaskHolds'
    BY <1>1, <1>2 DEF Clients, Forms, Fresh, TaskHolds, Of
  <1>7. StopHolds'
    <2> SUFFICES ASSUME NEW a \in Actor
                 PROVE  /\ act[a].at = "shutting" => client[act[a].server] \in {None, act[a].conn}
                        /\ act[a].at = "cancelling" /\
                             client[act[a].server] # None => ~conn'[client[act[a].server]].up
      BY <1>2 DEF StopHolds, Up
    <2>1. act[a].server \in Server /\ client[act[a].server] \in Conn \cup {None}
      BY <1>1 DEF TypeOK, Act
    <2>2. QED
      BY <1>1, <1>5, <2>1 DEF Clients, StopHolds, Up
  <1>8. Belongs'
    <2>1. \A s \in Server : client[s] # None => conn'[client[s]].server = s
      BY <1>1, <1>5 DEF Clients, Belongs, TypeOK
    <2>2. \A u \in Task : Alive(u) /\ run[u].uses # None => conn'[run[u].uses].server = Of(u)
      <3> SUFFICES ASSUME NEW u \in Task, Alive(u), run[u].uses # None
                   PROVE  conn'[run[u].uses].server = Of(u)
        OBVIOUS
      <3>1. run[u].uses \in Conn
        BY <1>1 DEF TypeOK, Run
      <3>2. QED
        BY <1>1, <1>5, <3>1 DEF Clients, Belongs
    <2>3. \A d \in Conn : refresh'[d] # None => conn'[refresh'[d]].server = conn'[d].server
      <3> SUFFICES ASSUME NEW d \in Conn, refresh'[d] # None
                   PROVE  conn'[refresh'[d]].server = conn'[d].server
        OBVIOUS
      <3>1. /\ conn[d].server \in Server /\ client[conn[d].server] \in Conn \cup {None}
            /\ refresh[d] \in Conn \cup {None}
        BY <1>1 DEF TypeOK
      <3>2. refresh'[d] \in Conn /\ conn[refresh'[d]].server = conn[d].server
        BY <1>1, <1>5, <3>1 DEF Clients, Belongs
      <3>3. QED
        BY <1>5, <3>2
    <2>4. QED
      BY <1>2, <2>1, <2>2, <2>3 DEF Belongs, Alive, Of
  <1>9. Tidy'
    BY <1>1, <1>2, <1>5 DEF Clients, Tidy
  <1>10. Kept'
    BY <1>1, <1>2 DEF Clients, Kept, Running, Alive, Of, Stopping
  <1>11. OneConnection'
    BY <1>1, <1>2, <1>5 DEF Clients, OneConnection, Up
  <1>12. QED
    BY <1>3, <1>5, <1>6, <1>7, <1>8, <1>9, <1>10, <1>11 DEF McpInv, Clients

-----------------------------------------------------------------------------
(* Steps of a stop.                                                        *)

\* The caller's record, as it will be, says that it awaits a client or a task.
Halts(b) == b.at \in {"shutting", "cancelling"}

\* A caller, or a branch of close, goes on with server s and is then as b says:
\* the state lets go of the task, and what runs of it is b's or somebody else's.
StopMove(a, s, b) ==
  /\ b \in Act /\ act' = [act EXCEPT ![a] = b] /\ b.server = s
  /\ closed' = closed
  /\ IF a \in Caller
     THEN /\ b.op # "close" /\ b.at \in {"shutting", "cancelling", "setting", "idle"}
          /\ \A c \in Caller \ {a} : AtWork(c) => act[c].server # s
     ELSE /\ s = a /\ closed /\ allowed' = allowed
          /\ b.at \in {"shutting", "cancelling", "ended"}
          /\ Halts(b) => b.op = "close"
          /\ Halts(b) => \A c \in Caller : act[c].at = "setting" => act[c].server # s
  /\ Stopping(a) => act[a].server = s
  /\ \A r \in Server : r # s => /\ task'[r] = task[r] /\ stopping'[r] = stopping[r]
                                /\ client'[r] = client[r] /\ tools'[r] = tools[r]
                                /\ (r \in allowed' <=> r \in allowed)
  /\ task'[s] = None
  /\ b.task # None => Of(b.task) = s
  /\ \A t \in Task : run'[t].at # "done" /\ (task[s] = t \/ (Stopping(a) /\ act[a].task = t))
       => Halts(b) /\ b.task = t
  /\ Halts(b) => closed \/ stopping'[s]
  /\ b.at # "setting" /\ stopping[s] => stopping'[s]
  /\ b.at = "setting" => ~closed /\ s \in allowed'
  /\ client'[s] \in {None, client[s]}
  /\ ~Halts(b) => client'[s] = None

\* The connections meanwhile: only the one of s may close, and its task only
\* unwinds.
StopConns(s, b) ==
  /\ \A t \in Task : \/ run'[t] = run[t]
                     \/ /\ Of(t) = s /\ b.at = "cancelling"
                        /\ run'[t].server = run[t].server
                        /\ run'[t].at # "done" => /\ run[t].at # "done"
                                                  /\ run'[t].conn = run[t].conn
                                                  /\ run'[t].uses = run[t].uses
                        /\ \/ run'[t].at = "done"
                           \/ run'[t].at \in {"stuck", "closing"} /\ run[t].at \in Connecting
                           \/ run'[t].at = "dropping" /\ run[t].at = "dropping"
  /\ \A d \in Conn : /\ conn'[d].server = conn[d].server
                     /\ conn'[d].up => conn[d].up
                     /\ refresh'[d] \in {None, refresh[d]}
  /\ client[s] # None /\ client'[s] = None => ~conn'[client[s]].up
  /\ tools'[s] => tools[s] /\ client'[s] # None
  /\ b.at = "shutting" => b.conn # None /\ client'[s] \in {None, b.conn}
  /\ b.at = "cancelling" => /\ b.task # None
                            /\ client'[s] # None => ~conn'[client'[s]].up

\* After such a step it is clear again who holds the server.
LEMMA StopHands ==
  ASSUME McpInv, NEW a \in Actor, NEW s \in Server, NEW b, StopMove(a, s, b), StopConns(s, b)
  PROVE  Hands'
  <1>1. TypeOK /\ Hands
    BY DEF McpInv
  <1>2. /\ act'[a] = b /\ \A x \in Actor \ {a} : act'[x] = act[x]
        /\ \A x \in Actor : act[x].server \in Server /\ act[x].task \in Task \cup {None}
        /\ b.task \in Task \cup {None}
    BY <1>1 DEF StopMove, TypeOK, Act
  <1>3. /\ \A t \in Task : run'[t].server = run[t].server
        /\ \A t \in Task : run'[t].at # "done" => run[t].at # "done"
        /\ \A t \in Task : run[t].server \in Server
        /\ \A r \in Server : task[r] \in Task \cup {None}
    BY <1>1 DEF StopConns, TypeOK, Run
  <1>4. /\ closed' = closed /\ b.server = s
        /\ \A r \in Server : task'[r] = (IF r = s THEN None ELSE task[r])
    BY DEF StopMove
  <1>5. Roles'
    <2> SUFFICES ASSUME NEW x \in Actor
                 PROVE  IF x \in Caller THEN act'[x].op # "close" /\ act'[x].at \notin {"closing", "ended"}
                        ELSE /\ act'[x].server = x /\ act'[x].at \notin {"away", "setting"}
                             /\ act'[x].at # "idle" => closed'
                             /\ act'[x].at \in {"shutting", "cancelling"} => act'[x].op = "close"
      BY DEF Roles, Stopping
    <2>1. CASE x = a
      BY <1>2, <1>4, <2>1 DEF StopMove, Halts
    <2>2. CASE x # a
      BY <1>1, <1>2, <1>4, <2>2 DEF Hands, Roles, Stopping
    <2>3. QED
      BY <2>1, <2>2
  <1>6. \A c \in Caller \ {a} : a \in Caller => (AtWork(c) => act[c].server # s)
    BY DEF StopMove
  <1>7. Turns'
    <2> SUFFICES ASSUME NEW x \in Caller, NEW y \in Caller, AtWork(x)', AtWork(y)',
                        act'[x].server = act'[y].server
                 PROVE  x = y
      BY DEF Turns
    <2>1. x \in Actor /\ y \in Actor
      BY DEF Actor
    <2>2. CASE x # a /\ y # a
      BY <1>1, <1>2, <2>1, <2>2 DEF Hands, Turns, AtWork, Stopping
    <2>3. CASE x = a /\ y # a
      BY <1>2, <1>4, <1>6, <2>1, <2>3 DEF AtWork, Stopping
    <2>4. CASE x # a /\ y = a
      BY <1>2, <1>4, <1>6, <2>1, <2>4 DEF AtWork, Stopping
    <2>5. QED
      BY <2>2, <2>3, <2>4
  <1>8. Named'
    <2>1. \A r \in Server : task'[r] # None => run'[task'[r]].server = r
      BY <1>1, <1>3, <1>4 DEF Hands, Named, Of
    <2>2. b.task # None => run[b.task].server = s
      BY DEF StopMove, Of
    <2>3. \A x \in Actor : act'[x].task # None => run'[act'[x].task].server = act'[x].server
      BY <1>1, <1>2, <1>3, <1>4, <2>2 DEF Hands, Named, Of
    <2>4. QED
      BY <2>1, <2>3 DEF Named, Of
  <1>9. Owned'
    <2> SUFFICES ASSUME NEW t \in Task, run'[t].at # "done"
                 PROVE  \/ task'[run[t].server] = t
                        \/ \E x \in Actor : act'[x].at \in {"shutting", "cancelling"} /\ act'[x].task = t
      BY <1>3 DEF Owned, Alive, Of, Stopping
    <2>1. CASE task[s] = t \/ (Stopping(a) /\ act[a].task = t)
      BY <1>2, <2>1 DEF StopMove, Halts
    <2>2. CASE ~(task[s] = t \/ (Stopping(a) /\ act[a].task = t))
      <3>1. task[run[t].server] = t \/ \E x \in Actor : Stopping(x) /\ act[x].task = t
        BY <1>1, <1>3 DEF Hands, Owned, Alive, Of
      <3>2. QED
        BY <1>2, <1>3, <1>4, <2>2, <3>1 DEF Stopping
    <2>3. QED
      BY <2>1, <2>2
  <1>10. Alone'
    BY <1>1, <1>3 DEF Hands, Alone, Alive, Of
  <1>11. \A x \in Actor : x \notin Caller /\ Stopping(x) => closed
    BY <1>1 DEF Hands, Roles, Stopping
  <1>12. Quiet'
    <2> SUFFICES ASSUME NEW x \in Actor, act'[x].at = "setting"
                 PROVE  /\ client'[act'[x].server] = None
                        /\ act'[x].server \in allowed'
                        /\ \A t \in Task : run'[t].at # "done" => run'[t].server # act'[x].server
                        /\ \A y \in Actor : act'[y].at \in {"shutting", "cancelling"}
                             => act'[y].server # act'[x].server
      BY DEF Quiet, Alive, Of, Stopping
    <2>1. x \in Caller
      BY <1>5 DEF Roles
    <2>2. CASE x = a
      <3>1. client'[s] = None /\ s \in allowed' /\ ~closed /\ ~Halts(b)
        BY <1>2, <2>2 DEF StopMove, Halts
      <3>2. \A y \in Actor : act'[y].at \in {"shutting", "cancelling"} => act'[y].server # s
        BY <1>2, <1>6, <1>11, <2>1, <2>2, <3>1 DEF AtWork, Stopping, Halts
      <3>3. \A t \in Task : run'[t].at # "done" => run'[t].server # s
        <4> SUFFICES ASSUME NEW t \in Task, run'[t].at # "done", run'[t].server = s
                     PROVE  FALSE
          OBVIOUS
        <4>1. task'[s] = None /\ t # None
          BY <1>4, NoneAssumption
        <4>2. PICK y \in Actor : act'[y].at \in {"shutting", "cancelling"} /\ act'[y].task = t
          BY <1>9, <4>1 DEF Owned, Alive, Of, Stopping
        <4>3. act'[y].server = s
          BY <1>8, <4>1, <4>2 DEF Named, Of
        <4>4. QED
          BY <3>2, <4>2, <4>3
      <3>4. QED
        BY <1>2, <1>4, <2>2, <3>1, <3>2, <3>3
    <2>3. CASE x # a
      <3>1. /\ act'[x] = act[x] /\ act[x].at = "setting"
            /\ client[act[x].server] = None /\ act[x].server \in allowed
            /\ \A t \in Task : run[t].at # "done" => run[t].server # act[x].server
            /\ \A y \in Actor : Stopping(y) => act[y].server # act[x].server
            /\ act[x].server \in Server
        BY <1>1, <1>2, <2>3 DEF Hands, Quiet, Alive, Of
      <3>2. CASE act[x].server = s
        <4>1. a \notin Caller
          BY <1>6, <2>1, <2>3, <3>1, <3>2 DEF AtWork
        <4>2. allowed' = allowed /\ ~Halts(b) /\ client'[s] \in {None, client[s]}
          BY <2>1, <3>1, <3>2, <4>1 DEF StopMove
        <4>3. \A y \in Actor : act'[y].at \in {"shutting", "cancelling"} => act'[y].server # s
          BY <1>2, <3>1, <3>2, <4>2 DEF Stopping, Halts
        <4>4. QED
          BY <1>3, <3>1, <3>2, <4>2, <4>3
      <3>3. CASE act[x].server # s
        <4>1. /\ client'[act[x].server] = client[act[x].server]
              /\ act[x].server \in allowed'
          BY <3>1, <3>3 DEF StopMove
        <4>2. \A y \in Actor : act'[y].at \in {"shutting", "cancelling"}
                => act'[y].server # act[x].server
          BY <1>2, <1>4, <3>1, <3>3 DEF Stopping
        <4>3. QED
          BY <1>3, <3>1, <4>1, <4>2
      <3>4. QED
        BY <3>2, <3>3
    <2>4. QED
      BY <2>2, <2>3
  <1>13. Taken'
    BY <1>1, <1>2, <1>4 DEF Hands, Taken, AtWork, Stopping
  <1>14. Halting'
    <2> SUFFICES ASSUME NEW x \in Actor, act'[x].at \in {"shutting", "cancelling"}
                 PROVE  closed \/ stopping'[act'[x].server]
      BY <1>4 DEF Halting, Stopping
    <2>1. CASE x = a
      BY <1>2, <1>4, <2>1 DEF StopMove, Halts
    <2>2. CASE x # a
      <3>1. /\ act'[x] = act[x] /\ Stopping(x) /\ act[x].server \in Server
            /\ closed \/ stopping[act[x].server]
        BY <1>1, <1>2, <2>2 DEF Hands, Halting, Stopping
      <3>2. CASE act[x].server # s \/ b.at # "setting"
        BY <3>1, <3>2 DEF StopMove
      <3>3. CASE act[x].server = s /\ b.at = "setting"
        <4>1. a \in Caller
          BY <3>3 DEF StopMove
        <4>2. x \notin Caller
          BY <1>6, <2>2, <3>1, <3>3, <4>1 DEF AtWork
        <4>3. QED
          BY <1>11, <3>1, <4>2
      <3>4. QED
        BY <3>2, <3>3
    <2>3. QED
      BY <2>1, <2>2
  <1>15. Permitted'
    <2> SUFFICES ASSUME NEW t \in Task, run'[t].at # "done"
                 PROVE  \/ run[t].server \in allowed'
                        \/ \E x \in Actor : /\ act'[x].at \in {"shutting", "cancelling"}
                                            /\ act'[x].server = run[t].server
      BY <1>3 DEF Permitted, Alive, Of, Stopping
    <2>1. CASE run[t].server = s
      <3>1. task'[s] = None /\ t # None
        BY <1>4, NoneAssumption
      <3>2. PICK y \in Actor : act'[y].at \in {"shutting", "cancelling"} /\ act'[y].task = t
        BY <1>3, <1>9, <2>1, <3>1 DEF Owned, Alive, Of, Stopping
      <3>3. act'[y].server = s
        BY <1>3, <1>8, <2>1, <3>1, <3>2 DEF Named, Of
      <3>4. QED
        BY <2>1, <3>2, <3>3
    <2>2. CASE run[t].server # s
      <3>1. run[t].server \in allowed <=> run[t].server \in allowed'
        BY <1>3, <2>2 DEF StopMove
      <3>2. run[t].server \in allowed \/ \E x \in Actor : Stopping(x) /\ act[x].server = run[t].server
        BY <1>1, <1>3 DEF Hands, Permitted, Alive, Of
      <3>3. Stopping(a) => act[a].server # run[t].server
        BY <2>2 DEF StopMove
      <3>4. QED
        BY <1>2, <3>1, <3>2, <3>3 DEF Stopping
    <2>3. QED
      BY <2>1, <2>2
  <1>16. QED
    BY <1>5, <1>7, <1>8, <1>9, <1>10, <1>12, <1>13, <1>14, <1>15 DEF Hands

\* And who holds its connection.
LEMMA StopClients ==
  ASSUME McpInv, NEW a \in Actor, NEW s \in Server, NEW b, StopMove(a, s, b), StopConns(s, b)
  PROVE  Clients'
  <1>1. TypeOK /\ Clients
    BY DEF McpInv
  <1>2. /\ act'[a] = b /\ \A x \in Actor \ {a} : act'[x] = act[x]
        /\ \A x \in Actor : act[x].server \in Server
        /\ b.server = s
    BY <1>1 DEF StopMove, TypeOK, Act
  <1>3. /\ \A t \in Task : run'[t].server = run[t].server /\ run[t].server \in Server
        /\ \A t \in Task : run[t].uses \in Conn \cup {None}
        /\ \A t \in Task : run'[t].at # "done" =>
             run[t].at # "done" /\ run'[t].conn = run[t].conn /\ run'[t].uses = run[t].uses
    BY <1>1 DEF StopConns, TypeOK, Run
  <1>4. \A t \in Task :
          /\ run'[t].at \in Connecting => run[t].at \in Connecting
          /\ run'[t].at \in {"start", "backoff", "listing", "connected"} => run[t].at = run'[t].at
          /\ run'[t].at = "dropping" => run[t].at = "dropping"
    BY DEF StopConns, Connecting
  <1>5. /\ \A r \in Server : client'[r] \in {None, client[r]}
        /\ \A r \in Server : r # s => client'[r] = client[r] /\ tools'[r] = tools[r]
        /\ \A r \in Server : client[r] \in Conn \cup {None}
    BY <1>1 DEF StopMove, TypeOK
  <1>6. \A d \in Conn : /\ conn'[d].server = conn[d].server
                        /\ conn'[d].up => conn[d].up
                        /\ refresh'[d] \in {None, refresh[d]}
    BY DEF StopConns
  <1>7. Forms'
    <2>1. \A t \in Task : run'[t].at \in Connecting => run'[t].conn # None
      BY <1>1, <1>3, <1>4 DEF Clients, Forms, Connecting
    <2>2. \A t \in Task : run'[t].at \in {"listing", "connected", "dropping"} => run'[t].uses # None
      BY <1>1, <1>3, <1>4 DEF Clients, Forms
    <2>3. \A x \in Actor : /\ act'[x].at = "shutting" => act'[x].conn # None
                           /\ act'[x].at = "cancelling" => act'[x].task # None
      BY <1>1, <1>2 DEF Clients, Forms, StopConns
    <2>4. QED
      BY <2>1, <2>2, <2>3 DEF Forms
  <1>8. Fresh'
    BY <1>1, <1>3, <1>4, <1>5 DEF Clients, Fresh, Of
  <1>9. TaskHolds'
    <2> SUFFICES ASSUME NEW t \in Task
                 PROVE  /\ run'[t].at \in Connecting => client'[run[t].server] \in {None, run'[t].conn}
                        /\ run'[t].at \in {"connected", "dropping"} =>
                             client'[run[t].server] \in {None, run'[t].uses}
      BY <1>3 DEF TaskHolds, Of
    <2>1. client'[run[t].server] \in {None, client[run[t].server]}
      BY <1>3, <1>5
    <2>2. /\ run[t].at \in Connecting => client[run[t].server] \in {None, run[t].conn}
          /\ run[t].at \in {"connected", "dropping"} => client[run[t].server] \in {None, run[t].uses}
      BY <1>1 DEF Clients, TaskHolds, Of
    <2>3. QED
      BY <1>3, <1>4, <2>1, <2>2 DEF Connecting
  <1>10. StopHolds'
    <2> SUFFICES ASSUME NEW x \in Actor
                 PROVE  /\ act'[x].at = "shutting" => client'[act'[x].server] \in {None, act'[x].conn}
                        /\ act'[x].at = "cancelling" /\
                             client'[act'[x].server] # None => ~conn'[client'[act'[x].server]].up
      BY DEF StopHolds, Up
    <2>1. CASE x = a
      BY <1>2, <2>1 DEF StopConns
    <2>2. CASE x # a
      BY <1>1, <1>2, <1>5, <1>6, <2>2 DEF Clients, StopHolds, Up
    <2>3. QED
      BY <2>1, <2>2
  <1>11. Belongs'
    <2>1. \A r \in Server : client'[r] # None => conn'[client'[r]].server = r
      BY <1>1, <1>5, <1>6 DEF Clients, Belongs
    <2>2. \A t \in Task : run'[t].at # "done" /\ run'[t].uses # None
            => conn'[run'[t].uses].server = run'[t].server
      BY <1>1, <1>3, <1>6 DEF Clients, Belongs, Alive, Of
    <2>3. \A d \in Conn : refresh'[d] # None => conn'[refresh'[d]].server = conn'[d].server
      BY <1>1, <1>6 DEF Clients, Belongs, TypeOK
    <2>4. QED
      BY <2>1, <2>2, <2>3 DEF Belongs, Alive, Of
  <1>12. Tidy'
    <2>1. tools'[s] => client'[s] # None
      BY DEF StopConns
    <2>2. QED
      BY <1>1, <1>5, <2>1 DEF Clients, Tidy
  <1>13. Kept'
    <2> SUFFICES ASSUME NEW r \in Server, client'[r] # None
                 PROVE  \/ \E t \in Task : run'[t].at # "done" /\ run'[t].server = r
                        \/ \E x \in Actor : /\ act'[x].at \in {"shutting", "cancelling"}
                                            /\ act'[x].server = r
      BY DEF Kept, Running, Alive, Stopping
    <2>1. CASE r = s
      BY <1>2, <2>1 DEF StopMove, Halts
    <2>2. CASE r # s
      <3>1. Running(r) \/ \E x \in Actor : Stopping(x) /\ act[x].server = r
        BY <1>1, <1>5, <2>2 DEF Clients, Kept
      <3>2. Stopping(a) => act[a].server # r
        BY <2>2 DEF StopMove
      <3>3. \A t \in Task : run[t].server = r => run'[t] = run[t]
        BY <2>2 DEF StopConns, Of
      <3>4. QED
        BY <1>2, <3>1, <3>2, <3>3 DEF Running, Alive, Stopping
    <2>3. QED
      BY <2>1, <2>2
  <1>14. OneConnection'
    <2> SUFFICES ASSUME NEW d \in Conn, conn'[d].up
                 PROVE  client'[conn'[d].server] = d
      BY DEF OneConnection, Up
    <2>1. conn[d].up /\ d # None /\ conn[d].server \in Server
      BY <1>1, <1>6, NoneAssumption DEF TypeOK
    <2>2. client[conn[d].server] = d
      BY <1>1, <2>1 DEF Clients, OneConnection, Up
    <2>3. conn[d].server = s => client'[s] # None
      BY <2>1, <2>2 DEF StopConns
    <2>4. QED
      BY <1>5, <1>6, <2>1, <2>2, <2>3
  <1>15. QED
    BY <1>7, <1>8, <1>9, <1>10, <1>11, <1>12, <1>13, <1>14 DEF Clients

\* What every step of a stop has in common: a is the one caller at work on s, or
\* the branch of close that has it, and it alone may have held the task.
OnServer(a, s, op) ==
  /\ closed' = closed /\ allowed' \in SUBSET Server
  /\ \A r \in Server \ {s} : r \in allowed' <=> r \in allowed
  /\ IF a \in Caller
     THEN op # "close" /\ \A c \in Caller \ {a} : AtWork(c) => act[c].server # s
     ELSE s = a /\ closed /\ op = "close" /\ allowed' = allowed
  /\ Stopping(a) => act[a].server = s
  /\ \A r \in Server : task'[r] = IF r = s THEN None ELSE task[r]
  /\ task' \in [Server -> Task \cup {None}]

\* The connections of s may close meanwhile, and none opens.
Shrinks(s) ==
  /\ conn' \in [Conn -> [server : Server, up : BOOLEAN]]
  /\ refresh' \in [Conn -> Conn \cup {None}]
  /\ \A d \in Conn : /\ conn'[d].server = conn[d].server
                     /\ conn'[d].up => conn[d].up
                     /\ refresh'[d] \in {None, refresh[d]}

\* A stop that ends, when no task of it runs and its client is closed.
LEMMA FinishMoves ==
  ASSUME McpInv, NEW a \in Actor, NEW s \in Server, NEW op \in Op,
         NEW halted \in [Server -> BOOLEAN], OnServer(a, s, op), Shrinks(s),
         FinishStop(a, s, op, halted), run' = run,
         \A r \in Server \ {s} : halted[r] = stopping[r],
         stopping[s] => halted[s],
         \A t \in Task : Alive(t) => task[s] # t /\ ~(Stopping(a) /\ act[a].task = t),
         client[s] # None => ~conn'[client[s]].up
  PROVE  TypeOK' /\ \E b : StopMove(a, s, b) /\ StopConns(s, b)
  <1>1. TypeOK /\ allowed' \in SUBSET Server
    BY DEF McpInv, OnServer
  <1>2. /\ listed' \subseteq Server /\ status' \in [Server -> Status]
        /\ client' = [client EXCEPT ![s] = None] /\ tools' = [tools EXCEPT ![s] = FALSE]
        /\ client' \in [Server -> Conn \cup {None}] /\ tools' \in [Server -> BOOLEAN]
        /\ stopping' \in [Server -> BOOLEAN] /\ act' \in [Actor -> Act]
    BY <1>1, FinishEffect
  <1>3. PICK b \in Act :
          /\ act' = [act EXCEPT ![a] = b]
          /\ b.server = s /\ b.task = None /\ b.conn = None
          /\ b.op = "reconnect"
          /\ \/ /\ b.at = IF op = "close" THEN "ended" ELSE "idle"
                /\ stopping' = halted
             \/ /\ b.at = "setting" /\ op \in {"reconnect", "allow", "forbid"}
                /\ ~closed /\ s \in allowed'
                /\ stopping' = [halted EXCEPT ![s] = FALSE]
    BY <1>1, FinishEffect
  <1>4. TypeOK'
    BY <1>1, <1>2 DEF OnServer, Shrinks, TypeOK
  <1>5. \A r \in Server : r # s => /\ client'[r] = client[r] /\ tools'[r] = tools[r]
                                   /\ stopping'[r] = stopping[r]
    BY <1>1, <1>2, <1>3 DEF TypeOK
  <1>6. client'[s] = None /\ ~tools'[s]
    BY <1>1, <1>2 DEF TypeOK
  <1>7. ~Halts(b) /\ b.at # "shutting" /\ b.at # "cancelling"
    BY <1>3 DEF Halts
  <1>8. /\ b.at # "setting" /\ stopping[s] => stopping'[s]
        /\ b.at = "setting" => ~closed /\ s \in allowed'
    BY <1>3
  <1>9. IF a \in Caller
        THEN /\ b.op # "close" /\ b.at \in {"shutting", "cancelling", "setting", "idle"}
             /\ \A c \in Caller \ {a} : AtWork(c) => act[c].server # s
        ELSE /\ s = a /\ closed /\ allowed' = allowed
             /\ b.at \in {"shutting", "cancelling", "ended"}
    BY <1>3 DEF OnServer
  <1>10. \A t \in Task : run'[t].at # "done" /\ (task[s] = t \/ (Stopping(a) /\ act[a].task = t))
           => FALSE
    BY DEF Alive
  <1>11. StopMove(a, s, b)
    BY <1>3, <1>5, <1>6, <1>7, <1>8, <1>9, <1>10 DEF StopMove, OnServer
  <1>12. StopConns(s, b)
    BY <1>6, <1>7 DEF StopConns, Shrinks
  <1>13. QED
    BY <1>4, <1>11, <1>12

\* A stop that tells the task to stop.
LEMMA CancelMoves ==
  ASSUME McpInv, NEW a \in Actor, NEW s \in Server, NEW op \in Op, NEW t \in Task,
         NEW tries \in 0..Attempts, OnServer(a, s, op), Shrinks(s),
         CancelTask(a, s, op, t, tries), Of(t) = s,
         UNCHANGED <<listed, status, client, tools>>,
         stopping' \in [Server -> BOOLEAN],
         \A r \in Server \ {s} : stopping'[r] = stopping[r],
         closed \/ stopping'[s], stopping[s] => stopping'[s],
         \A u \in Task : (task[s] = u \/ (Stopping(a) /\ act[a].task = u)) => u = t,
         \A c \in Caller : act[c].at = "setting" => act[c].server # s,
         client[s] # None => ~conn'[client[s]].up
  PROVE  TypeOK' /\ \E b : StopMove(a, s, b) /\ StopConns(s, b)
  <1>1. TypeOK /\ Tidy
    BY DEF McpInv, Clients
  <1>2. /\ run' \in [Task -> Run] /\ act' \in [Actor -> Act]
        /\ \E r \in Cancelled(run[t]) : run' = [run EXCEPT ![t] = r]
    BY <1>1, CancelEffect
  <1>3. PICK b \in Act : /\ act' = [act EXCEPT ![a] = b]
                         /\ b.at = "cancelling" /\ b.op = op /\ b.server = s
                         /\ b.task = t /\ b.conn = None
    BY <1>1, CancelEffect
  <1>4. PICK r \in Cancelled(run[t]) : run' = [run EXCEPT ![t] = r]
    BY <1>2
  <1>5. TypeOK'
    BY <1>1, <1>2 DEF OnServer, Shrinks, TypeOK
  <1>6. /\ r \in Run /\ r.server = run[t].server
        /\ r.at # "done" => /\ run[t].at # "done"
                            /\ r.conn = run[t].conn /\ r.uses = run[t].uses
        /\ \/ r.at = "done"
           \/ r.at = "stuck" /\ run[t].at = "handshake"
           \/ r.at = "closing" /\ run[t].at \in {"handshake", "stuck", "listing", "prompts", "closing"}
           \/ r.at = "dropping" /\ run[t].at = "dropping"
    BY <1>1, CancelledRecord
  <1>7. t # None /\ Halts(b)
    BY <1>3, NoneAssumption DEF Halts
  <1>8. IF a \in Caller
        THEN /\ b.op # "close" /\ b.at \in {"shutting", "cancelling", "setting", "idle"}
             /\ \A c \in Caller \ {a} : AtWork(c) => act[c].server # s
        ELSE /\ s = a /\ closed /\ allowed' = allowed
             /\ b.at \in {"shutting", "cancelling", "ended"}
             /\ b.op = "close"
    BY <1>3 DEF OnServer
  <1>9. client[s] \in Conn \cup {None}
    BY <1>1 DEF TypeOK
  <1>10. StopMove(a, s, b)
    BY <1>3, <1>7, <1>8, <1>9 DEF StopMove, OnServer
  <1>11. \A u \in Task : \/ run'[u] = run[u]
                         \/ /\ Of(u) = s
                            /\ run'[u].server = run[u].server
                            /\ run'[u].at # "done" => /\ run[u].at # "done"
                                                      /\ run'[u].conn = run[u].conn
                                                      /\ run'[u].uses = run[u].uses
                            /\ \/ run'[u].at = "done"
                               \/ run'[u].at \in {"stuck", "closing"} /\ run[u].at \in Connecting
                               \/ run'[u].at = "dropping" /\ run[u].at = "dropping"
    <2> SUFFICES ASSUME NEW u \in Task, u = t
                 PROVE  /\ run'[u] = r /\ Of(u) = s
                        /\ r.server = run[u].server
                        /\ r.at # "done" => /\ run[u].at # "done"
                                            /\ r.conn = run[u].conn
                                            /\ r.uses = run[u].uses
                        /\ \/ r.at = "done"
                           \/ r.at \in {"stuck", "closing"} /\ run[u].at \in Connecting
                           \/ r.at = "dropping" /\ run[u].at = "dropping"
      <3>1. \A u \in Task : u # t => run'[u] = run[u]
        BY <1>1, <1>4 DEF TypeOK
      <3>2. QED
        BY <3>1
    <2>1. run'[t] = r
      BY <1>1, <1>4 DEF TypeOK
    <2>2. QED
      BY <1>6, <2>1 DEF Connecting
  <1>12. tools[s] => client[s] # None
    BY <1>1 DEF Tidy
  <1>13. StopConns(s, b)
    BY <1>3, <1>7, <1>11, <1>12 DEF StopConns, Shrinks
  <1>14. QED
    BY <1>5, <1>10, <1>13

\* With the invariant back, whichever way a stop goes on.
LEMMA MovesKeep ==
  ASSUME McpInv, NEW a \in Actor, NEW s \in Server, TypeOK',
         \E b : StopMove(a, s, b) /\ StopConns(s, b)
  PROVE  McpInv'
  <1>1. PICK b : StopMove(a, s, b) /\ StopConns(s, b)
    OBVIOUS
  <1>2. Hands'
    BY <1>1, StopHands
  <1>3. Clients'
    BY <1>1, StopClients
  <1>4. QED
    BY <1>2, <1>3 DEF McpInv

\* The head of a stop: the state lets go of client and task in one step, and
\* the caller, who was at nothing, has them both.
LEMMA StopKeeps ==
  ASSUME McpInv, NEW a \in Actor, NEW s \in Server, NEW op \in Op,
         OnServer(a, s, op), ~AtWork(a), Stop(a, s, op)
  PROVE  McpInv'
  <1>1. TypeOK /\ Hands /\ Clients
    BY DEF McpInv
  <1> DEFINE halted == [stopping EXCEPT ![s] = TRUE]
  <1>2. /\ halted \in [Server -> BOOLEAN] /\ halted[s]
        /\ \A r \in Server \ {s} : halted[r] = stopping[r]
    BY <1>1 DEF TypeOK
  <1> HIDE DEF halted
  <1>3. Shrinks(s)
    <2>1. conn' = conn /\ refresh' = refresh
      BY DEF Stop, connVars
    <2>2. QED
      BY <1>1, <2>1 DEF Shrinks, TypeOK
  <1>4. ~Stopping(a)
    BY DEF AtWork
  <1>5. /\ client[s] \in Conn \cup {None} /\ task[s] \in Task \cup {None}
        /\ task[s] # None => Of(task[s]) = s
        /\ task[s] # None => \A c \in Actor : AtWork(c) => act[c].server # s
    BY <1>1 DEF TypeOK, Hands, Named, Taken
  <1>6. CASE client[s] # None
    <2> DEFINE b == [Idle(s) EXCEPT !.at = "shutting", !.op = op, !.task = task[s], !.conn = client[s]]
    <2>1. /\ act' = [act EXCEPT ![a] = b] /\ stopping' = halted
          /\ UNCHANGED <<listed, status, client, tools, run, conn, refresh>>
      BY <1>6 DEF Stop, halted, connVars
    <2>2. /\ b \in Act /\ b.at = "shutting" /\ b.op = op /\ b.server = s
          /\ b.task = task[s] /\ b.conn = client[s]
      <3>1. task[s] \in Task \cup {None} /\ client[s] \in Conn \cup {None} /\ 0 \in 0..Attempts
        BY <1>5, AttemptsAssumption
      <3>2. b \in Act
        BY <3>1 DEF Idle, Act, At
      <3>3. b.at = "shutting" /\ b.op = op /\ b.server = s
        BY DEF Idle
      <3>4. b.task = task[s] /\ b.conn = client[s]
        BY DEF Idle
      <3>5. QED
        BY <3>2, <3>3, <3>4
    <2> HIDE DEF b
    <2>3. TypeOK'
      BY <1>1, <1>2, <2>1, <2>2 DEF OnServer, TypeOK
    <2>4. \A c \in Caller : act[c].at = "setting" => act[c].server # s
      BY <1>1, <1>6 DEF Hands, Quiet, Actor
    <2>5. IF a \in Caller
          THEN /\ b.op # "close" /\ b.at \in {"shutting", "cancelling", "setting", "idle"}
               /\ \A c \in Caller \ {a} : AtWork(c) => act[c].server # s
          ELSE /\ s = a /\ closed /\ allowed' = allowed
               /\ b.at \in {"shutting", "cancelling", "ended"}
               /\ b.op = "close"
      BY <2>2 DEF OnServer
    <2>6. StopMove(a, s, b)
      BY <1>2, <1>4, <1>5, <2>1, <2>2, <2>4, <2>5 DEF StopMove, OnServer, Halts
    <2>7. StopConns(s, b)
      BY <1>3, <1>6, <2>1, <2>2 DEF StopConns, Shrinks
    <2>8. QED
      BY <2>3, <2>6, <2>7, MovesKeep
  <1>7. CASE client[s] = None /\ task[s] # None /\ Alive(task[s])
    <2>1. /\ CancelTask(a, s, op, task[s], 1) /\ stopping' = halted
          /\ UNCHANGED <<listed, status, client, tools>>
      BY <1>7 DEF Stop, halted
    <2>2. 1 \in 0..Attempts
      BY AttemptsAssumption
    <2>3. task[s] \in Task
      BY <1>5, <1>7
    <2>4. \A c \in Caller : act[c].at = "setting" => act[c].server # s
      BY <1>5, <1>7 DEF AtWork, Actor
    <2>5. TypeOK' /\ \E b : StopMove(a, s, b) /\ StopConns(s, b)
      BY <1>2, <1>3, <1>4, <1>5, <1>7, <2>1, <2>2, <2>3, <2>4, CancelMoves
    <2>6. QED
      BY <2>5, MovesKeep
  <1>8. CASE client[s] = None /\ ~(task[s] # None /\ Alive(task[s]))
    <2>1. FinishStop(a, s, op, halted) /\ run' = run
      BY <1>8 DEF Stop, halted
    <2>2. \A t \in Task : Alive(t) => task[s] # t /\ ~(Stopping(a) /\ act[a].task = t)
      BY <1>4, <1>8, NoneAssumption
    <2>3. TypeOK' /\ \E b : StopMove(a, s, b) /\ StopConns(s, b)
      BY <1>2, <1>3, <1>8, <2>1, <2>2, FinishMoves
    <2>4. QED
      BY <2>3, MovesKeep
  <1>9. QED
    BY <1>6, <1>7, <1>8

\* Who is stopping a server, as its next step finds it.
LEMMA StoppingFacts ==
  ASSUME McpInv, NEW a \in Actor, Stopping(a), closed' = closed,
         UNCHANGED <<allowed, task>>
  PROVE  /\ act[a].server \in Server /\ act[a].op \in Op
         /\ act[a].task \in Task \cup {None} /\ act[a].conn \in Conn \cup {None}
         /\ act[a].tries \in 0..Attempts
         /\ OnServer(a, act[a].server, act[a].op)
         /\ act[a].task # None => Of(act[a].task) = act[a].server
         /\ task[act[a].server] = None
         /\ closed \/ stopping[act[a].server]
         /\ \A c \in Caller : act[c].at = "setting" => act[c].server # act[a].server
  <1>1. TypeOK /\ Hands
    BY DEF McpInv
  <1>2. /\ act[a].server \in Server /\ act[a].op \in Op
        /\ act[a].task \in Task \cup {None} /\ act[a].conn \in Conn \cup {None}
        /\ act[a].tries \in 0..Attempts
    BY <1>1 DEF TypeOK, Act
  <1>3. task[act[a].server] = None /\ AtWork(a) /\ (closed \/ stopping[act[a].server])
    BY <1>1 DEF Hands, Taken, Halting, AtWork
  <1>4. act[a].task # None => Of(act[a].task) = act[a].server
    BY <1>1 DEF Hands, Named
  <1>5. \A c \in Caller : act[c].at = "setting" => act[c].server # act[a].server
    BY <1>1 DEF Hands, Quiet, Actor
  <1>6. IF a \in Caller
        THEN /\ act[a].op # "close"
             /\ \A c \in Caller \ {a} : AtWork(c) => act[c].server # act[a].server
        ELSE act[a].server = a /\ closed /\ act[a].op = "close"
    <2>1. CASE a \in Caller
      BY <1>1, <1>3, <2>1 DEF Hands, Roles, Turns, Actor
    <2>2. CASE a \notin Caller
      BY <1>1, <2>2 DEF Hands, Roles, Stopping
    <2>3. QED
      BY <2>1, <2>2
  <1>7. OnServer(a, act[a].server, act[a].op)
    BY <1>1, <1>3, <1>6 DEF OnServer, TypeOK
  <1>8. QED
    BY <1>2, <1>3, <1>4, <1>5, <1>7

\* The rest of a stop, step by step.
LEMMA StepsKeep ==
  ASSUME McpInv, NEW a \in Actor, Shut(a) \/ CancelAgain(a) \/ TaskGone(a)
  PROVE  McpInv'
  <1>1. TypeOK /\ Clients
    BY DEF McpInv
  <1>2. Stopping(a) /\ UNCHANGED <<closed, allowed, task>>
    BY DEF Shut, CancelAgain, TaskGone, Stopping, serverVars
  <1> DEFINE s == act[a].server
             t == act[a].task
             op == act[a].op
  <1>3. /\ s \in Server /\ op \in Op
        /\ t \in Task \cup {None} /\ act[a].conn \in Conn \cup {None}
        /\ act[a].tries \in 0..Attempts
        /\ OnServer(a, s, op)
    BY <1>2, StoppingFacts
  <1>4. /\ t # None => Of(t) = s
        /\ task[s] = None
        /\ closed \/ stopping[s]
        /\ \A c \in Caller : act[c].at = "setting" => act[c].server # s
    BY <1>2, StoppingFacts
  <1>5. /\ stopping \in [Server -> BOOLEAN] /\ client[s] \in Conn \cup {None}
        /\ 1 \in 0..Attempts
    BY <1>1, <1>3, AttemptsAssumption DEF TypeOK
  <1>6. \A u \in Task : (task[s] = u \/ (Stopping(a) /\ act[a].task = u)) => u = t
    BY <1>4, NoneAssumption
  <1>7. CASE Shut(a)
    <2>1. act[a].at = "shutting" /\ CloseConn(act[a].conn)
      BY <1>7 DEF Shut
    <2>2. act[a].conn # None /\ client[s] \in {None, act[a].conn}
      BY <1>1, <2>1 DEF Clients, Forms, StopHolds
    <2>3. act[a].conn \in Conn
      BY <1>3, <2>2
    <2>4. /\ Shrinks(s)
          /\ ~conn'[act[a].conn].up
      <3>1. /\ conn \in [Conn -> [server : Server, up : BOOLEAN]]
            /\ refresh \in [Conn -> Conn \cup {None}]
        BY <1>1 DEF TypeOK
      <3>2. PICK c \in Conn : c = act[a].conn
        BY <2>3
      <3>3. /\ conn' = [conn EXCEPT ![c].up = FALSE]
            /\ refresh' = [refresh EXCEPT ![c] = None]
        BY <2>1, <3>2 DEF CloseConn
      <3>4. /\ conn' \in [Conn -> [server : Server, up : BOOLEAN]] /\ ~conn'[c].up
            /\ \A d \in Conn : /\ conn'[d].server = conn[d].server
                               /\ conn'[d].up => conn[d].up
        BY <3>1, <3>3
      <3>5. /\ refresh' \in [Conn -> Conn \cup {None}]
            /\ \A d \in Conn : refresh'[d] \in {None, refresh[d]}
        BY <3>1, <3>3
      <3>6. QED
        BY <3>2, <3>4, <3>5 DEF Shrinks
    <2>5. client[s] # None => ~conn'[client[s]].up
      BY <2>2, <2>4
    <2>6. CASE t # None /\ Alive(t)
      <3>1. /\ CancelTask(a, s, op, t, 1)
            /\ UNCHANGED <<listed, status, client, stopping, tools>>
        BY <1>7, <2>6 DEF Shut
      <3>2. t \in Task /\ Of(t) = s
        BY <1>3, <1>4, <2>6
      <3> HIDE DEF s, t, op
      <3>3. TypeOK' /\ \E b : StopMove(a, s, b) /\ StopConns(s, b)
        BY <1>3, <1>4, <1>5, <1>6, <2>4, <2>5, <3>1, <3>2, CancelMoves
      <3>4. QED
        BY <1>3, <3>3, MovesKeep
    <2>7. CASE ~(t # None /\ Alive(t))
      <3>1. FinishStop(a, s, op, stopping) /\ run' = run
        BY <1>7, <2>7 DEF Shut
      <3>2. \A u \in Task : Alive(u) => task[s] # u /\ ~(Stopping(a) /\ act[a].task = u)
        BY <1>6, <2>7, NoneAssumption
      <3> HIDE DEF s, t, op
      <3>3. TypeOK' /\ \E b : StopMove(a, s, b) /\ StopConns(s, b)
        BY <1>3, <1>5, <2>4, <2>5, <3>1, <3>2, FinishMoves
      <3>4. QED
        BY <1>3, <3>3, MovesKeep
    <2>8. QED
      BY <2>6, <2>7
  <1>8. CASE CancelAgain(a) \/ TaskGone(a)
    <2>1. act[a].at = "cancelling" /\ UNCHANGED <<conn, refresh>>
      BY <1>8 DEF CancelAgain, TaskGone, connVars
    <2>2. /\ Shrinks(s)
          /\ client[s] # None => ~conn'[client[s]].up
      BY <1>1, <1>3, <2>1 DEF Shrinks, TypeOK, Clients, StopHolds, Up
    <2>3. t \in Task
      BY <1>1, <1>3, <2>1 DEF Clients, Forms
    <2>4. CASE CancelAgain(a)
      <3>1. /\ CancelTask(a, s, op, t, act[a].tries + 1) /\ act[a].tries < Attempts
            /\ UNCHANGED <<listed, status, client, stopping, tools>>
        BY <2>4 DEF CancelAgain, serverVars
      <3>2. act[a].tries + 1 \in 0..Attempts
        BY <1>3, <3>1, AttemptsAssumption
      <3>3. Of(t) = s
        BY <1>4, <2>3, NoneAssumption
      <3> HIDE DEF s, t, op
      <3>4. TypeOK' /\ \E b : StopMove(a, s, b) /\ StopConns(s, b)
        BY <1>3, <1>4, <1>5, <1>6, <2>2, <2>3, <3>1, <3>2, <3>3, CancelMoves
      <3>5. QED
        BY <1>3, <3>4, MovesKeep
    <2>5. CASE TaskGone(a)
      <3>1. FinishStop(a, s, op, stopping) /\ run' = run /\ ~Alive(t)
        BY <2>5 DEF TaskGone
      <3>2. \A u \in Task : Alive(u) => task[s] # u /\ ~(Stopping(a) /\ act[a].task = u)
        BY <1>6, <3>1
      <3> HIDE DEF s, t, op
      <3>3. TypeOK' /\ \E b : StopMove(a, s, b) /\ StopConns(s, b)
        BY <1>3, <1>5, <2>2, <3>1, <3>2, FinishMoves
      <3>4. QED
        BY <1>3, <3>3, MovesKeep
    <2>6. QED
      BY <1>8, <2>4, <2>5
  <1>9. QED
    BY <1>7, <1>8

\* The new task finds its server free: no client, no task, nobody at work on it.
LEMMA CreateKeeps ==
  ASSUME McpInv, NEW a \in Actor, Create(a)
  PROVE  McpInv'
  <1>1. TypeOK /\ Hands /\ Clients
    BY DEF McpInv
  <1> DEFINE s == act[a].server
             r == NewRun(s)
             b == Idle(s)
  <1>2. PICK t \in Task :
          /\ Free(t) /\ task' = [task EXCEPT ![s] = t]
          /\ run' = [run EXCEPT ![t] = r]
    BY DEF Create
  <1>3. /\ act[a].at = "setting" /\ act' = [act EXCEPT ![a] = b]
        /\ UNCHANGED <<closed, listed, allowed, status, client, stopping, tools, conn, refresh>>
    BY DEF Create, connVars
  <1>4. s \in Server
    BY <1>1 DEF TypeOK, Act
  <1>5. /\ r \in Run /\ r.at = "start" /\ r.server = s /\ r.conn = None /\ r.uses = None
    BY <1>4, RetriesAssumption DEF Run, NewRun, Place, Why
  <1>6. /\ b \in Act /\ b.at = "idle" /\ b.op = "reconnect" /\ b.server = s
        /\ b.task = None /\ b.conn = None
    BY <1>4, AttemptsAssumption DEF Idle, Act, At, Op
  <1>7. a \in Caller
    BY <1>1, <1>3 DEF Hands, Roles
  <1>8. /\ client[s] = None /\ s \in allowed
        /\ \A u \in Task : run[u].at # "done" => run[u].server # s
        /\ \A x \in Actor : act[x].at \in {"shutting", "cancelling"} => act[x].server # s
    BY <1>1, <1>3 DEF Hands, Quiet, Alive, Of, Stopping
  <1>9. /\ run[t].at = "done"
        /\ \A q \in Server : task[q] # t
        /\ \A x \in Actor : act[x].task # t
    BY <1>2 DEF Free, Alive
  <1> HIDE DEF s, r, b
  <1>10. /\ act'[a] = b /\ \A x \in Actor \ {a} : act'[x] = act[x]
         /\ run'[t] = r /\ \A u \in Task \ {t} : run'[u] = run[u]
         /\ task'[s] = t /\ \A q \in Server \ {s} : task'[q] = task[q]
    BY <1>1, <1>2, <1>3, <1>4 DEF TypeOK
  <1>11. TypeOK'
    BY <1>1, <1>2, <1>3, <1>4, <1>5, <1>6 DEF TypeOK
  <1>12. /\ act[a].server = s /\ t # None
         /\ \A x \in Actor : act[x].server \in Server /\ act[x].task \in Task \cup {None}
         /\ \A q \in Server : task[q] \in Task \cup {None}
         /\ \A u \in Task : run[u].server \in Server
    BY <1>1, NoneAssumption DEF s, TypeOK, Act, Run
  <1>13. Roles'
    BY <1>1, <1>3, <1>6, <1>7, <1>10 DEF Hands, Roles, Stopping
  <1>14. Turns'
    BY <1>1, <1>6, <1>10 DEF Hands, Turns, AtWork, Stopping, Actor
  <1>15. Named'
    <2>1. \A q \in Server : task'[q] # None => run'[task'[q]].server = q
      BY <1>1, <1>5, <1>9, <1>10, <1>12 DEF Hands, Named, Of
    <2>2. \A x \in Actor : act'[x].task # None => run'[act'[x].task].server = act'[x].server
      BY <1>1, <1>6, <1>9, <1>10, <1>12 DEF Hands, Named, Of
    <2>3. QED
      BY <2>1, <2>2 DEF Named, Of
  <1>16. Owned'
    <2> SUFFICES ASSUME NEW u \in Task, run'[u].at # "done"
                 PROVE  \/ task'[run'[u].server] = u
                        \/ \E x \in Actor : act'[x].at \in {"shutting", "cancelling"} /\ act'[x].task = u
      BY DEF Owned, Alive, Of, Stopping
    <2>1. CASE u = t
      BY <1>5, <1>10, <2>1
    <2>2. CASE u # t
      <3>1. run'[u] = run[u] /\ run[u].server # s /\ run[u].server \in Server
        BY <1>8, <1>10, <1>12, <2>2
      <3>2. \/ task[run[u].server] = u
            \/ \E x \in Actor : act[x].at \in {"shutting", "cancelling"} /\ act[x].task = u
        BY <1>1, <2>2, <3>1 DEF Hands, Owned, Alive, Of, Stopping
      <3>3. QED
        BY <1>3, <1>10, <3>1, <3>2
    <2>3. QED
      BY <2>1, <2>2
  <1>17. Alone'
    BY <1>1, <1>5, <1>8, <1>10 DEF Hands, Alone, Alive, Of
  <1>18. \A x \in Actor \ {a} : act[x].at = "setting" => act[x].server # s
    <2> SUFFICES ASSUME NEW x \in Actor \ {a}, act[x].at = "setting", act[x].server = s
                 PROVE  FALSE
      OBVIOUS
    <2>1. x \in Caller
      BY <1>1 DEF Hands, Roles
    <2>2. QED
      BY <1>1, <1>3, <1>7, <1>12, <2>1 DEF Hands, Turns, AtWork
  <1>19. Quiet'
    <2> SUFFICES ASSUME NEW x \in Actor, act'[x].at = "setting"
                 PROVE  /\ client[act'[x].server] = None
                        /\ act'[x].server \in allowed
                        /\ \A u \in Task : run'[u].at # "done" => run'[u].server # act'[x].server
                        /\ \A y \in Actor : act'[y].at \in {"shutting", "cancelling"}
                             => act'[y].server # act'[x].server
      BY <1>3 DEF Quiet, Alive, Of, Stopping
    <2>1. x # a /\ act'[x] = act[x]
      BY <1>6, <1>10
    <2>2. /\ client[act[x].server] = None
          /\ act[x].server \in allowed
          /\ \A u \in Task : run[u].at # "done" => run[u].server # act[x].server
          /\ \A y \in Actor : act[y].at \in {"shutting", "cancelling"}
               => act[y].server # act[x].server
      BY <1>1, <2>1 DEF Hands, Quiet, Alive, Of, Stopping
    <2>3. act[x].server # s
      BY <1>18, <2>1
    <2>4. \A u \in Task : run'[u].at # "done" => run'[u].server # act[x].server
      BY <1>5, <1>10, <2>2, <2>3
    <2>5. \A y \in Actor : act'[y].at \in {"shutting", "cancelling"} => act'[y].server # act[x].server
      BY <1>6, <1>10, <2>2
    <2>6. QED
      BY <2>1, <2>2, <2>4, <2>5
  <1>20. Taken'
    <2> SUFFICES ASSUME NEW x \in Actor, AtWork(x)'
                 PROVE  task'[act'[x].server] = None
      BY DEF Taken
    <2>1. x # a /\ act'[x] = act[x] /\ AtWork(x)
      BY <1>6, <1>10 DEF AtWork, Stopping
    <2>2. act[x].server # s
      BY <1>8, <1>18, <2>1 DEF AtWork, Stopping
    <2>3. QED
      BY <1>1, <1>10, <1>12, <2>1, <2>2 DEF Hands, Taken
  <1>21. Halting'
    BY <1>1, <1>3, <1>6, <1>10 DEF Hands, Halting, Stopping
  <1>22. Permitted'
    <2> SUFFICES ASSUME NEW u \in Task, run'[u].at # "done"
                 PROVE  \/ run'[u].server \in allowed
                        \/ \E x \in Actor : /\ act'[x].at \in {"shutting", "cancelling"}
                                            /\ act'[x].server = run'[u].server
      BY <1>3 DEF Permitted, Alive, Of, Stopping
    <2>1. CASE u = t
      BY <1>5, <1>8, <1>10, <2>1
    <2>2. CASE u # t
      BY <1>1, <1>3, <1>10, <2>2 DEF Hands, Permitted, Alive, Of, Stopping
    <2>3. QED
      BY <2>1, <2>2
  <1>23. Hands'
    BY <1>13, <1>14, <1>15, <1>16, <1>17, <1>19, <1>20, <1>21, <1>22 DEF Hands
  <1>24. Forms' /\ Fresh' /\ TaskHolds'
    BY <1>1, <1>3, <1>5, <1>6, <1>8, <1>10 DEF Clients, Forms, Fresh, TaskHolds, Of, Connecting
  <1>25. StopHolds' /\ Tidy' /\ OneConnection'
    BY <1>1, <1>3, <1>6, <1>10 DEF Clients, StopHolds, Tidy, OneConnection, Up
  <1>26. Belongs'
    BY <1>1, <1>3, <1>5, <1>9, <1>10 DEF Clients, Belongs, Alive, Of
  <1>27. Kept'
    <2> SUFFICES ASSUME NEW q \in Server, client[q] # None
                 PROVE  \/ \E u \in Task : run'[u].at # "done" /\ run'[u].server = q
                        \/ \E x \in Actor : /\ act'[x].at \in {"shutting", "cancelling"}
                                            /\ act'[x].server = q
      BY <1>3 DEF Kept, Running, Alive, Stopping
    <2>1. \/ \E u \in Task : run[u].at # "done" /\ run[u].server = q
          \/ \E x \in Actor : act[x].at \in {"shutting", "cancelling"} /\ act[x].server = q
      BY <1>1 DEF Clients, Kept, Running, Alive, Stopping
    <2>2. QED
      BY <1>3, <1>9, <1>10, <2>1
  <1>28. QED
    BY <1>11, <1>23, <1>24, <1>25, <1>26, <1>27 DEF McpInv, Clients

-----------------------------------------------------------------------------
(* Steps of the callers.                                                   *)

\* A step of somebody who neither is at work on a server nor begins to be.
LEMMA IdleKeeps ==
  ASSUME McpInv, TypeOK', Roles', closed => closed',
         UNCHANGED <<allowed, task, stopping, client, tools, conn, refresh, run>>,
         \A x \in Actor : \/ act'[x] = act[x]
                          \/ /\ ~AtWork(x) /\ act'[x].task = None
                             /\ act'[x].at \notin {"shutting", "cancelling", "setting"}
  PROVE  McpInv'
  <1>1. TypeOK /\ Hands /\ Clients
    BY DEF McpInv
  <1>2. \A x \in Actor : /\ act[x].at \in {"shutting", "cancelling", "setting"} => act'[x] = act[x]
                         /\ act'[x].at \in {"shutting", "cancelling", "setting"} => act'[x] = act[x]
                         /\ act'[x].task # None => act'[x] = act[x]
    BY DEF AtWork, Stopping
  <1>3. Turns' /\ Taken'
    BY <1>1, <1>2 DEF Hands, Turns, Taken, AtWork, Stopping, Actor
  <1>4. Named'
    BY <1>1, <1>2 DEF Hands, Named, Of
  <1>5. Owned'
    BY <1>1, <1>2 DEF Hands, Owned, Alive, Of, Stopping
  <1>6. Alone'
    BY <1>1 DEF Hands, Alone, Alive, Of
  <1>7. Quiet'
    BY <1>1, <1>2 DEF Hands, Quiet, Alive, Of, Stopping
  <1>8. Halting'
    BY <1>1, <1>2 DEF Hands, Halting, Stopping
  <1>9. Permitted'
    BY <1>1, <1>2 DEF Hands, Permitted, Alive, Of, Stopping
  <1>10. Forms'
    BY <1>1, <1>2 DEF Clients, Forms
  <1>11. StopHolds'
    BY <1>1, <1>2 DEF Clients, StopHolds, Up
  <1>12. Fresh' /\ TaskHolds' /\ Belongs' /\ Tidy' /\ OneConnection'
    BY <1>1 DEF Clients, Fresh, TaskHolds, Belongs, Tidy, OneConnection, Of, Alive, Up
  <1>13. Kept'
    BY <1>1, <1>2 DEF Clients, Kept, Running, Alive, Stopping
  <1>14. QED
    BY <1>3, <1>4, <1>5, <1>6, <1>7, <1>8, <1>9, <1>10, <1>11, <1>12, <1>13
       DEF McpInv, Hands, Clients

\* A tool call, a sign-in and the return from either.
LEMMA AwayKeeps ==
  ASSUME McpInv, NEW a \in Caller,
         Back(a) \/ \E s \in Server : Call(a, s) \/ SignIn(a, s)
  PROVE  McpInv'
  <1>1. TypeOK /\ Roles /\ a \in Actor
    BY DEF McpInv, Hands, Actor
  <1>2. /\ ~AtWork(a) /\ act[a].server \in Server
        /\ UNCHANGED <<closed, listed, allowed, task, stopping, client, tools, conn, refresh, run>>
    BY <1>1 DEF Back, Call, SignIn, AtWork, Stopping, TypeOK, Act, serverVars, connVars
  <1>3. status' \in [Server -> Status]
    BY <1>1, <1>2 DEF Back, Call, SignIn, TypeOK, Status, serverVars
  <1>4. \E b \in Act : /\ act' = [act EXCEPT ![a] = b]
                       /\ b.at \in {"idle", "away"} /\ b.task = None /\ b.op # "close"
    <2>1. CASE Back(a)
      <3> DEFINE b == Idle(act[a].server)
      <3>1. act' = [act EXCEPT ![a] = b]
        BY <2>1 DEF Back
      <3>2. /\ b \in Act /\ b.at = "idle" /\ b.task = None /\ b.op = "reconnect"
        BY <1>2, AttemptsAssumption DEF Idle, Act, At, Op
      <3> HIDE DEF b
      <3>3. QED
        BY <3>1, <3>2
    <2>2. CASE \E s \in Server : Call(a, s)
      <3>1. PICK s \in Server : Call(a, s)
        BY <2>2
      <3> DEFINE b == [Idle(s) EXCEPT !.at = "away", !.op = "call"]
      <3>2. /\ b \in Act /\ b.at = "away" /\ b.task = None /\ b.op = "call"
        <4>1. 0 \in 0..Attempts
          BY AttemptsAssumption
        <4>2. b \in Act
          BY <4>1 DEF Idle, Act, At, Op
        <4>3. b.at = "away" /\ b.task = None /\ b.op = "call"
          BY DEF Idle
        <4>4. QED
          BY <4>2, <4>3
      <3>3. act' = [act EXCEPT ![a] = b]
        BY <3>1 DEF Call
      <3> HIDE DEF b
      <3>4. QED
        BY <3>2, <3>3
    <2>3. CASE \E s \in Server : SignIn(a, s)
      <3>1. PICK s \in Server : SignIn(a, s)
        BY <2>3
      <3> DEFINE b == [Idle(s) EXCEPT !.at = "away"]
      <3>2. /\ b \in Act /\ b.at = "away" /\ b.task = None /\ b.op = "reconnect"
        BY AttemptsAssumption DEF Idle, Act, At, Op
      <3>3. act' = [act EXCEPT ![a] = b]
        BY <3>1 DEF SignIn
      <3> HIDE DEF b
      <3>4. QED
        BY <3>2, <3>3
    <2>4. QED
      BY <2>1, <2>2, <2>3
  <1>5. PICK b \in Act : /\ act' = [act EXCEPT ![a] = b]
                         /\ b.at \in {"idle", "away"} /\ b.task = None /\ b.op # "close"
    BY <1>4
  <1>6. TypeOK'
    BY <1>1, <1>2, <1>3, <1>5 DEF TypeOK
  <1>7. act'[a] = b /\ \A x \in Actor \ {a} : act'[x] = act[x]
    BY <1>1, <1>5 DEF TypeOK
  <1>8. Roles'
    BY <1>1, <1>2, <1>5, <1>7 DEF Roles, Stopping
  <1>9. QED
    BY <1>2, <1>5, <1>6, <1>7, <1>8, IdleKeeps

\* Closing the session: the branches of close begin.
LEMMA CloseKeeps ==
  ASSUME McpInv, Close
  PROVE  McpInv'
  <1>1. TypeOK /\ Roles /\ ~closed
    BY DEF McpInv, Hands, Close
  <1>2. /\ UNCHANGED <<listed, allowed, status, task, stopping, client, tools, conn, refresh, run>>
        /\ closed' = TRUE
    BY DEF Close, serverVars, connVars
  <1>3. ASSUME NEW x \in Actor
        PROVE  \/ x \in Caller /\ act'[x] = act[x]
               \/ /\ x \notin Caller /\ x \in Server /\ act'[x] \in Act
                  /\ act'[x].at \in {"closing", "ended"}
                  /\ act'[x].task = None /\ act'[x].server = x
    <2> DEFINE p == IF x \in listed THEN "closing" ELSE "ended"
    <2>1. act'[x] = IF x \in Caller THEN act[x] ELSE [Idle(x) EXCEPT !.at = p]
      BY DEF Close
    <2>2. CASE x \in Caller
      BY <2>1, <2>2
    <2>3. CASE x \notin Caller
      <3>1. x \in Server /\ p \in {"closing", "ended"}
        BY <2>3 DEF Actor
      <3> HIDE DEF p
      <3>2. act'[x] = [Idle(x) EXCEPT !.at = p]
        BY <2>1, <2>3
      <3>3. /\ act'[x] \in Act /\ act'[x].at = p
            /\ act'[x].task = None /\ act'[x].server = x
        BY <3>1, <3>2, AttemptsAssumption DEF Idle, Act, At, Op
      <3>4. QED
        BY <2>3, <3>1, <3>3
    <2>4. QED
      BY <2>2, <2>3
  <1>4. act' \in [Actor -> Act]
    <2>1. \A x \in Actor : act'[x] \in Act
      BY <1>1, <1>3 DEF TypeOK
    <2>2. act' = [x \in Actor |-> act'[x]]
      BY DEF Close
    <2>3. QED
      BY <2>1, <2>2
  <1>5. TypeOK'
    BY <1>1, <1>2, <1>4 DEF TypeOK
  <1>6. Roles'
    BY <1>1, <1>2, <1>3 DEF Roles, Stopping
  <1>7. \A x \in Actor : x \notin Caller => ~AtWork(x)
    BY <1>1 DEF Roles, AtWork, Stopping
  <1>8. \A x \in Actor : \/ act'[x] = act[x]
                         \/ /\ ~AtWork(x) /\ act'[x].task = None
                            /\ act'[x].at \notin {"shutting", "cancelling", "setting"}
    BY <1>3, <1>7
  <1>9. QED
    BY <1>2, <1>5, <1>6, <1>8, IdleKeeps

\* A caller that stops a server is alone with it, whatever it stops it for.
LEMMA AloneWith ==
  ASSUME McpInv, OneAtATime, NEW a \in Caller, NEW s \in Server, NEW op \in Op,
         act[a].at \in {"idle", "away"}, Undisturbed(a, s), op # "close",
         closed' = closed, allowed' \in SUBSET Server,
         \A r \in Server \ {s} : r \in allowed' <=> r \in allowed,
         Stop(a, s, op)
  PROVE  McpInv'
  <1>1. TypeOK /\ a \in Actor
    BY DEF McpInv, Actor
  <1>2. task' = [task EXCEPT ![s] = None]
    BY DEF Stop
  <1>3. /\ \A r \in Server : task'[r] = IF r = s THEN None ELSE task[r]
        /\ task' \in [Server -> Task \cup {None}]
    BY <1>1, <1>2 DEF TypeOK
  <1>4. ~AtWork(a) /\ ~Stopping(a)
    BY DEF AtWork, Stopping
  <1>5. \A c \in Caller \ {a} : AtWork(c) => act[c].server # s
    BY DEF Undisturbed, AtWork, Stopping
  <1>6. OnServer(a, s, op)
    BY <1>3, <1>4, <1>5 DEF OnServer
  <1>7. QED
    BY <1>1, <1>4, <1>6, StopKeeps

\* The operations of the panel and of the bridge.
LEMMA AskKeeps ==
  ASSUME McpInv, OneAtATime, NEW a \in Caller, NEW s \in Server,
         Reconnect(a, s) \/ Allow(a, s) \/ Forbid(a, s) \/ Remove(a, s)
  PROVE  McpInv'
  <1>1. TypeOK /\ allowed \subseteq Server
    BY DEF McpInv, TypeOK
  <1>2. act[a].at \in {"idle", "away"} /\ Undisturbed(a, s) /\ closed' = closed
    BY DEF Reconnect, Allow, Forbid, Remove, Asks
  <1>3. /\ allowed' \in SUBSET Server
        /\ \A r \in Server \ {s} : r \in allowed' <=> r \in allowed
    BY <1>1 DEF Reconnect, Allow, Forbid, Remove
  <1>4. \E op \in Op : op # "close" /\ Stop(a, s, op)
    BY DEF Reconnect, Allow, Forbid, Remove, Op
  <1>5. QED
    BY <1>2, <1>3, <1>4, AloneWith

\* A call that is answered 401, a sign-in that succeeds.
LEMMA SettleKeeps ==
  ASSUME McpInv, OneAtATime, NEW a \in Caller, Settle(a)
  PROVE  McpInv'
  <1>1. TypeOK /\ Roles /\ a \in Actor
    BY DEF McpInv, Hands, Actor
  <1>2. act[a].server \in Server /\ act[a].op \in Op /\ act[a].op # "close"
    BY <1>1 DEF TypeOK, Act, Roles
  <1>3. /\ act[a].at \in {"idle", "away"} /\ Undisturbed(a, act[a].server)
        /\ UNCHANGED <<closed, allowed>> /\ Stop(a, act[a].server, act[a].op)
    BY DEF Settle
  <1>4. allowed' \in SUBSET Server /\ \A r \in Server : r \in allowed' <=> r \in allowed
    BY <1>1, <1>3 DEF TypeOK
  <1>5. QED
    BY <1>2, <1>3, <1>4, AloneWith

\* A branch of close, which asks nobody for leave: whoever is at work on the
\* server has taken its task, and one about to create another has no client.
LEMMA BranchKeeps ==
  ASSUME McpInv, NEW s \in Server, CloseServer(s)
  PROVE  McpInv'
  <1>1. TypeOK /\ Roles /\ s \in Actor /\ s \notin Caller
    BY ActorAssumption DEF McpInv, Hands, Actor
  <1>2. /\ act[s].at = "closing" /\ UNCHANGED <<closed, allowed>> /\ Stop(s, s, "close")
    BY DEF CloseServer
  <1>3. closed /\ ~AtWork(s) /\ ~Stopping(s)
    BY <1>1, <1>2 DEF Roles, AtWork, Stopping
  <1>4. task' = [task EXCEPT ![s] = None]
    BY <1>2 DEF Stop
  <1>5. OnServer(s, s, "close")
    BY <1>1, <1>2, <1>3, <1>4 DEF OnServer, TypeOK
  <1>6. "close" \in Op
    BY DEF Op
  <1>7. QED
    BY <1>1, <1>2, <1>3, <1>5, <1>6, StopKeeps

-----------------------------------------------------------------------------
(* The theorems.                                                           *)

\* The invariant holds when the session has started its servers.
LEMMA McpInit == Init => McpInv
  <1> SUFFICES ASSUME Init
               PROVE  McpInv
    OBVIOUS
  <1>1. PICK q \in Server :
          /\ conn = [c \in Conn |-> [server |-> q, up |-> FALSE]]
          /\ run = [t \in Task |-> IF \E r \in Server : task[r] = t
                                   THEN NewRun(CHOOSE r \in Server : task[r] = t)
                                   ELSE NoRun(q)]
          /\ act = [a \in Actor |-> Idle(IF a \in Server THEN a ELSE q)]
    BY DEF Init
  <1>2. /\ closed = FALSE /\ listed = Server /\ allowed \in SUBSET Server
        /\ status = [s \in Server |-> IF s \in allowed THEN "connecting" ELSE "off"]
        /\ client = [s \in Server |-> None]
        /\ task \in [Server -> Task \cup {None}]
        /\ \A s \in Server : task[s] # None <=> s \in allowed
        /\ \A s, r \in Server : task[s] = task[r] /\ task[s] # None => s = r
        /\ stopping = [s \in Server |-> FALSE]
        /\ tools = [s \in Server |-> FALSE]
        /\ refresh = [c \in Conn |-> None]
    BY DEF Init
  <1>3. \A s \in Server : /\ NewRun(s) \in Run /\ NewRun(s).at = "start" /\ NewRun(s).server = s
                          /\ NewRun(s).uses = None /\ NewRun(s).conn = None
    BY RetriesAssumption DEF NewRun, Run, Place, Why
  <1>4. NoRun(q) \in Run /\ NoRun(q).at = "done" /\ NoRun(q).server = q /\ NoRun(q).uses = None
    BY <1>3 DEF NoRun, Run, Place, NewRun
  <1>5. \A s \in Server : /\ Idle(s) \in Act /\ Idle(s).at = "idle" /\ Idle(s).op = "reconnect"
                          /\ Idle(s).server = s /\ Idle(s).task = None /\ Idle(s).conn = None
    BY AttemptsAssumption DEF Idle, Act, At, Op
  <1>6. \A a \in Actor : /\ act[a] \in Act /\ act[a].at = "idle" /\ act[a].op = "reconnect"
                         /\ act[a].task = None /\ act[a].conn = None
                         /\ a \in Server => act[a].server = a
    BY <1>1, <1>5
  <1>7. ASSUME NEW t \in Task
        PROVE  /\ run[t] \in Run /\ run[t].at \in {"start", "done"} /\ run[t].uses = None
               /\ run[t].at # "done" => task[run[t].server] = t
               /\ \A s \in Server : task[s] = t => run[t].server = s
    <2>1. CASE \E r \in Server : task[r] = t
      <3>1. PICK x \in Server : x = (CHOOSE r \in Server : task[r] = t) /\ task[x] = t
        BY <2>1
      <3>2. run[t] = NewRun(x)
        BY <1>1, <2>1, <3>1
      <3>3. t # None
        BY NoneAssumption
      <3>4. \A s \in Server : task[s] = t => x = s
        BY <1>2, <3>1, <3>3
      <3>5. QED
        BY <1>3, <3>1, <3>2, <3>4
    <2>2. CASE ~\E r \in Server : task[r] = t
      <3>1. run[t] = NoRun(q)
        BY <1>1, <2>2
      <3>2. QED
        BY <1>4, <2>2, <3>1
    <2>3. QED
      BY <2>1, <2>2
  <1>8. TypeOK
    <2>1. status \in [Server -> Status]
      BY <1>2 DEF Status
    <2>2. conn \in [Conn -> [server : Server, up : BOOLEAN]]
      BY <1>1
    <2>3. run \in [Task -> Run]
      BY <1>1, <1>7
    <2>4. act \in [Actor -> Act]
      BY <1>1, <1>6
    <2>5. QED
      BY <1>2, <2>1, <2>2, <2>3, <2>4 DEF TypeOK
  <1>9. \A a \in Actor : ~Stopping(a) /\ ~AtWork(a) /\ act[a].at = "idle"
    BY <1>6 DEF Stopping, AtWork
  <1>10. Roles
    BY <1>6, <1>9 DEF Roles, Actor
  <1>11. Turns /\ Quiet /\ Taken /\ Halting
    BY <1>9 DEF Turns, Quiet, Taken, Halting, Actor
  <1>12. Named
    BY <1>2, <1>6, <1>7 DEF Named, Of
  <1>13. Owned /\ Alone
    BY <1>7 DEF Owned, Alone, Alive, Of
  <1>14. Permitted
    <2> SUFFICES ASSUME NEW t \in Task, run[t].at # "done"
                 PROVE  run[t].server \in allowed
      BY DEF Permitted, Alive, Of
    <2>1. task[run[t].server] = t /\ run[t].server \in Server /\ t # None
      BY <1>7, <1>8, NoneAssumption DEF TypeOK, Run
    <2>2. QED
      BY <1>2, <2>1
  <1>15. Forms
    BY <1>6, <1>7 DEF Forms, Connecting
  <1>16. Fresh /\ TaskHolds
    BY <1>2, <1>7, <1>8 DEF Fresh, TaskHolds, Of, Connecting, TypeOK, Run
  <1>17. StopHolds
    BY <1>6 DEF StopHolds
  <1>18. Belongs
    BY <1>2, <1>7 DEF Belongs
  <1>19. Tidy /\ Kept /\ OneConnection
    BY <1>1, <1>2 DEF Tidy, Kept, OneConnection, Up
  <1>20. QED
    BY <1>8, <1>10, <1>11, <1>12, <1>13, <1>14, <1>15, <1>16, <1>17, <1>18, <1>19
       DEF McpInv, Hands, Clients

\* Every step keeps the invariant, when a server is stopped for one caller at a
\* time.
LEMMA McpNext ==
  ASSUME McpInv, OneAtATime, [Next]_vars
  PROVE  McpInv'
  <1>1. CASE \E t \in Task : RunStep(t)
    BY <1>1, RunKeeps
  <1>2. CASE \E c \in Conn : Drops(c) \/ ToolsChange(c) \/ Refreshed(c)
    BY <1>2, ServerKeeps
  <1>3. CASE \E a \in Actor : StopStep(a)
    BY <1>3, StepsKeep, CreateKeeps DEF StopStep
  <1>4. CASE \E a \in Caller, s \in Server :
               \/ Reconnect(a, s) \/ Allow(a, s) \/ Forbid(a, s) \/ Remove(a, s)
               \/ Call(a, s) \/ SignIn(a, s)
    BY <1>4, AskKeeps, AwayKeeps
  <1>5. CASE \E a \in Caller : Back(a) \/ Settle(a)
    BY <1>5, AwayKeeps, SettleKeeps
  <1>6. CASE Close
    BY <1>6, CloseKeeps
  <1>7. CASE \E s \in Server : CloseServer(s)
    BY <1>7, BranchKeeps
  <1>8. CASE UNCHANGED vars
    <2>1. UNCHANGED <<closed, listed, allowed, status, client, task, stopping, tools,
                      conn, refresh, run, act>>
      BY <1>8 DEF vars, serverVars, connVars
    <2>2. TypeOK' /\ Roles'
      BY <2>1 DEF McpInv, Hands, TypeOK, Roles, Stopping
    <2>3. QED
      BY <2>1, <2>2, IdleKeeps
  <1>9. QED
    BY <1>1, <1>2, <1>3, <1>4, <1>5, <1>6, <1>7, <1>8 DEF Next

\* The invariant itself: the types, who holds a server, who holds a connection.
THEOREM McpInvariant ==
  ASSUME OneAtATime
  PROVE  Spec => []McpInv
  <1>1. McpInv /\ [Next]_vars => McpInv'
    BY McpNext
  <1>2. QED
    BY <1>1, McpInit, PTL DEF Spec

\* Every variable keeps its type; no count passes its limit.
THEOREM McpTypes ==
  ASSUME OneAtATime
  PROVE  Spec => []TypeOK
  <1>1. McpInv => TypeOK
    BY DEF McpInv
  <1>2. QED
    BY <1>1, McpInvariant, PTL

\* A connection that is up is the client of its server's state, so a server has
\* one at most and a stop finds it (ServerState.client, _stop), when a server is
\* stopped for one caller at a time.
THEOREM McpOneConnection ==
  ASSUME OneAtATime
  PROVE  Spec => []OneConnection
  <1>1. McpInv => OneConnection
    BY DEF McpInv, Clients
  <1>2. QED
    BY <1>1, McpInvariant, PTL

\* However the task of a server ended, no client and no tool of it is left once
\* nobody is at work on it (_run, _connect, _stop), when a server is stopped for
\* one caller at a time: the bridge answers its requests side by side and does
\* not see to that.
THEOREM McpStoppedIsClean ==
  ASSUME OneAtATime
  PROVE  Spec => []StoppedIsClean
  <1>1. McpInv => StoppedIsClean
    <2> SUFFICES ASSUME McpInv, NEW s \in Server, ~Running(s), ~InHand(s)
                 PROVE  client[s] = None /\ ~tools[s]
      BY DEF StoppedIsClean
    <2>1. \A a \in Actor : ~(Stopping(a) /\ act[a].server = s)
      BY DEF InHand, Stopping
    <2>2. client[s] = None
      BY <2>1 DEF McpInv, Clients, Kept
    <2>3. QED
      BY <2>2 DEF McpInv, Clients, Tidy
  <1>2. QED
    BY <1>1, McpInvariant, PTL

\* A server that is switched off or not approved has neither a task nor a
\* connection once the call that switched it off has returned (set_enabled,
\* approve, _schedule), when a server is stopped for one caller at a time: with
\* two at once, which the bridge allows, the first may start what the second
\* switched off.
THEOREM McpOnlyAllowed ==
  ASSUME OneAtATime
  PROVE  Spec => []OnlyAllowed
  <1>1. McpInv => OnlyAllowed
    <2> SUFFICES ASSUME McpInv, NEW s \in Server, s \notin allowed, ~InHand(s)
                 PROVE  ~Running(s) /\ \A c \in Conn : Up(c) => conn[c].server # s
      BY DEF OnlyAllowed
    <2>1. \A a \in Actor : ~(Stopping(a) /\ act[a].server = s)
      BY DEF InHand, Stopping
    <2>2. ~Running(s)
      BY <2>1 DEF McpInv, Hands, Permitted, Running, Of
    <2>3. client[s] = None
      BY <2>1, <2>2 DEF McpInv, Clients, Kept
    <2>4. ASSUME NEW c \in Conn, Up(c), conn[c].server = s
          PROVE  FALSE
      BY <2>3, <2>4, NoneAssumption DEF McpInv, Clients, OneConnection
    <2>5. QED
      BY <2>2, <2>4
  <1>2. QED
    BY <1>1, McpInvariant, PTL
=============================================================================
