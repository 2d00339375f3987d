----------------------------- MODULE McpManager -----------------------------
(***************************************************************************)
(* The MCP servers of a session (mcp/manager.py, McpManager, over the      *)
(* connections of mcp/client.py, McpClient).                               *)
(*                                                                         *)
(* Each declared server has a task (`_run`) that connects, keeps the       *)
(* connection and tries again a few times.  The panel, the bridge and a    *)
(* tool call that is refused stop that task (`_stop`) and start another    *)
(* (`_schedule`); closing the session stops them all.  Stopping awaits the *)
(* connection's end and the task's, so the task, other callers and the     *)
(* server itself go on in between.                                         *)
(*                                                                         *)
(* One step is the code between two awaits.  A caller that saves the       *)
(* settings does not suspend there (bootstrap.py, _persist_mcp).           *)
(***************************************************************************)
EXTENDS Naturals

CONSTANTS
  Server,       \* the servers declared
  Caller,       \* the coroutines that manage servers or call their tools
  Task,         \* identities of _run tasks, used again when one has ended
  Conn,         \* identities of McpClients, used again when nobody holds one
  None,         \* nobody
  Retries,      \* _RETRIES
  Attempts,     \* _STOP_ATTEMPTS
  OneAtATime    \* a server is stopped for one caller at a time

ASSUME RetriesAssumption == Retries \in Nat \ {0}
ASSUME AttemptsAssumption == Attempts \in Nat \ {0}
ASSUME OneAtATimeAssumption == OneAtATime \in BOOLEAN
ASSUME NoneAssumption == None \notin Task \cup Conn \cup Server
ASSUME ActorAssumption == Caller \cap Server = {}

VARIABLES
  closed,       \* _closed
  listed,       \* the names in _servers
  allowed,      \* servers enabled (the user's own) or approved (the workspace's)
  status,       \* ServerState.status
  client,       \* ServerState.client
  task,         \* ServerState.task
  stopping,     \* ServerState.stopping
  tools,        \* the server's tools are in the registry
  conn,         \* conn[c]: whose connection it is, and whether it is up
  refresh,      \* refresh[c]: the client whose tools c's notice worker lists
  run,          \* run[t]: where _run is
  act           \* act[a]: where a caller is; close() has one branch per server

serverVars == <<listed, allowed, status, client, task, stopping, tools>>
connVars == <<conn, refresh>>
vars == <<closed, serverVars, connVars, run, act>>

Status == {"off", "connecting", "connected", "failed", "needs_auth"}
\* The awaits of _run and _connect.
Place == {"start", "handshake", "stuck", "listing", "prompts", "announce",
          "connected", "closing", "dropping", "backoff", "done"}
\* Why _connect or the connection failed.
Why == {"error", "auth", "cancel", "drop"}
Op == {"reconnect", "allow", "forbid", "remove", "call", "close"}
At == {"idle", "away", "closing", "shutting", "cancelling", "setting", "ended"}
Actor == Caller \cup Server

Run == [at : Place, server : Server, conn : Conn \cup {None}, uses : Conn \cup {None},
        failures : 0..(Retries - 1), why : Why]
Act == [at : At, op : Op, server : Server, task : Task \cup {None},
        conn : Conn \cup {None}, tries : 0..Attempts]

TypeOK ==
  /\ closed \in BOOLEAN
  /\ listed \subseteq Server
  /\ allowed \subseteq Server
  /\ status \in [Server -> Status]
  /\ client \in [Server -> Conn \cup {None}]
  /\ task \in [Server -> Task \cup {None}]
  /\ stopping \in [Server -> BOOLEAN]
  /\ tools \in [Server -> BOOLEAN]
  /\ conn \in [Conn -> [server : Server, up : BOOLEAN]]
  /\ refresh \in [Conn -> Conn \cup {None}]
  /\ run \in [Task -> Run]
  /\ act \in [Actor -> Act]

Up(c) == conn[c].up
Alive(t) == run[t].at # "done"
Held(c) ==
  \/ Up(c)
  \/ \E s \in Server : client[s] = c
  \/ refresh[c] # None \/ \E d \in Conn : refresh[d] = c
  \/ \E t \in Task : Alive(t) /\ c \in {run[t].conn, run[t].uses}
  \/ \E a \in Actor : act[a].conn = c
Free(t) ==
  /\ ~Alive(t)
  /\ \A s \in Server : task[s] # t
  /\ \A a \in Actor : act[a].task # t

NewRun(s) == [at |-> "start", server |-> s, conn |-> None, uses |-> None,
              failures |-> 0, why |-> "error"]
NoRun(s) == [NewRun(s) EXCEPT !.at = "done"]
Idle(s) == [at |-> "idle", op |-> "reconnect", server |-> s, task |-> None,
            conn |-> None, tries |-> 0]

\* After start(): every server that may run has its task.
Init ==
  /\ closed = FALSE
  /\ listed = Server
  /\ allowed \in SUBSET Server
  /\ status = [s \in Server |-> IF s \in allowed THEN "connecting" ELSE "off"]
  /\ client = [s \in Server |-> None]
  /\ task \in [Server -> Task \cup {None}]
  /\ \A s \in Server : task[s] # None <=> s \in allowed
  /\ \A s, r \in Server : task[s] = task[r] /\ task[s] # None => s = r
  /\ stopping = [s \in Server |-> FALSE]
  /\ tools = [s \in Server |-> FALSE]
  /\ \E s \in Server :
       /\ conn = [c \in Conn |-> [server |-> s, up |-> FALSE]]
       /\ run = [t \in Task |-> IF \E r \in Server : task[r] = t
                                THEN NewRun(CHOOSE r \in Server : task[r] = t)
                                ELSE NoRun(s)]
       /\ act = [a \in Actor |-> Idle(IF a \in Server THEN a ELSE s)]
  /\ refresh = [c \in Conn |-> None]

-----------------------------------------------------------------------------
(* The task of a server.                                                   *)

\* McpClient.close, when its transport has ended: _finish fails what waits on
\* the connection, and the notice worker is cancelled.
CloseConn(c) ==
  /\ conn' = [conn EXCEPT ![c].up = FALSE]
  /\ refresh' = [refresh EXCEPT ![c] = None]

\* Defect: the client is forgotten and its tools stay registered.
ForgetClient(s) ==
  /\ client' = [client EXCEPT ![s] = None]
  /\ UNCHANGED tools

\* The tools leave the registry (_unregister) and the client is forgotten.
Forget(s) ==
  /\ tools' = [tools EXCEPT ![s] = FALSE]
  /\ client' = [client EXCEPT ![s] = None]

Goes(t, at) == run' = [run EXCEPT ![t].at = at]
Leaves(t) == run' = [run EXCEPT ![t] = NoRun(run[t].server)]
GivesUp(t, why) == run' = [run EXCEPT ![t].at = "closing", ![t].why = why]

\* The head of _run's loop and, if it goes on, _connect up to its first await.
Start(t) ==
  LET s == run[t].server IN
  /\ run[t].at = "start"
  /\ \/ /\ closed \/ stopping[s]
        /\ Leaves(t)
        /\ UNCHANGED <<closed, serverVars, connVars, act>>
     \/ /\ ~closed /\ ~stopping[s]
        /\ \E c \in Conn : ~Held(c)
        /\ LET c == CHOOSE c \in Conn : ~Held(c) IN
             /\ conn' = [conn EXCEPT ![c] = [server |-> s, up |-> TRUE]]
             /\ client' = [client EXCEPT ![s] = c]
             /\ run' = [run EXCEPT ![t].at = "handshake", ![t].conn = c]
        /\ UNCHANGED <<closed, listed, allowed, status, task, stopping, tools, refresh, act>>

\* The server answers initialize: _load_tools asks whatever client the state names.
Greeted(t) ==
  LET u == client[run[t].server] IN
  /\ run[t].at = "handshake" /\ Up(run[t].conn)
  /\ IF u = None THEN GivesUp(t, "error")
     ELSE run' = [run EXCEPT ![t].at = "listing", ![t].uses = u]
  /\ UNCHANGED <<closed, serverVars, connVars, act>>

\* The tools are listed and registered; _load_prompts asks the state's client.
Listed(t) ==
  LET s == run[t].server IN
  /\ run[t].at = "listing" /\ Up(run[t].uses)
  /\ tools' = [tools EXCEPT ![s] = TRUE]
  /\ IF client[s] = None THEN GivesUp(t, "error") ELSE Goes(t, "prompts")
  /\ UNCHANGED <<closed, listed, allowed, status, client, task, stopping, connVars, act>>

\* No answer in time, an error, a connection that ended, or a 401.
ConnectFails(t) ==
  /\ run[t].at \in {"handshake", "listing"}
  /\ \/ GivesUp(t, "error")
     \/ Up(run[t].conn) /\ GivesUp(t, "auth")
  /\ UNCHANGED <<closed, serverVars, connVars, act>>

\* The prompts are listed, or could not be, which is let pass.
PromptsListed(t) ==
  /\ run[t].at = "prompts"
  /\ status' = [status EXCEPT ![run[t].server] = "connected"]
  /\ Goes(t, "announce")
  /\ UNCHANGED <<closed, listed, allowed, client, task, stopping, tools, connVars, act>>

\* The status is told; _run asserts that there is a client and waits for its end.
Announced(t) ==
  LET u == client[run[t].server] IN
  /\ run[t].at = "announce"
  /\ IF u = None THEN Leaves(t)
     ELSE run' = [run EXCEPT ![t].at = "connected", ![t].uses = u]
  /\ UNCHANGED <<closed, serverVars, connVars, act>>

\* Defect: the failure that should be the last is slept on.
FailedOnceMore(t, why, before) ==
  /\ status' = [status EXCEPT ![run[t].server] = "failed"]
  /\ run' = [run EXCEPT ![t] = IF before + 1 > Retries THEN NoRun(@.server)
                               ELSE [NewRun(@.server) EXCEPT !.at = "backoff", !.why = why,
                                                             !.failures = before + 1]]

\* One failure more: the status says so, and _run sleeps or gives up.  That the
\* status is told is an await of its own in the code, next to the one before.
Failed(t, why, before) ==
  /\ status' = [status EXCEPT ![run[t].server] = "failed"]
  /\ run' = [run EXCEPT ![t] = IF before + 1 >= Retries THEN NoRun(@.server)
                               ELSE [NewRun(@.server) EXCEPT !.at = "backoff", !.why = why,
                                                             !.failures = before + 1]]

\* _connect failed: its client is closed, then _run hears of the failure.
CloseFailed(t) ==
  LET s == run[t].server IN
  /\ run[t].at = "closing"
  /\ CloseConn(run[t].conn)
  /\ Forget(s)
  /\ CASE run[t].why = "error" -> Failed(t, "error", run[t].failures)
       [] run[t].why = "auth" -> /\ status' = [status EXCEPT ![s] = "needs_auth"]
                                 /\ Leaves(t)
       [] OTHER -> Leaves(t) /\ UNCHANGED status
  /\ UNCHANGED <<closed, listed, allowed, task, stopping, act>>

\* wait_closed returns: the client is closed from this side as well.
Ended(t) ==
  /\ run[t].at = "connected" /\ ~Up(run[t].uses)
  /\ Goes(t, "dropping")
  /\ UNCHANGED <<closed, serverVars, connVars, act>>

\* A connection that lasted (_STABLE_S) makes this the first failure again.
CloseEnded(t) ==
  LET s == run[t].server IN
  /\ run[t].at = "dropping"
  /\ CloseConn(run[t].uses)
  /\ Forget(s)
  /\ IF closed \/ stopping[s]
     THEN Leaves(t) /\ UNCHANGED status
     ELSE \E before \in {0, run[t].failures} : Failed(t, "drop", before)
  /\ UNCHANGED <<closed, listed, allowed, task, stopping, act>>

\* The sleep before the next try is over.
Wake(t) ==
  LET s == run[t].server IN
  /\ run[t].at = "backoff"
  /\ status' = IF run[t].why # "drop" /\ (closed \/ stopping[s]) THEN status
               ELSE [status EXCEPT ![s] = "connecting"]
  /\ Goes(t, "start")
  /\ UNCHANGED <<closed, listed, allowed, client, task, stopping, tools, connVars, act>>

-----------------------------------------------------------------------------
(* What the server does.                                                   *)

\* The process exits, the stream ends: _on_transport_closed.
Drops(c) ==
  /\ Up(c)
  /\ conn' = [conn EXCEPT ![c].up = FALSE]
  /\ UNCHANGED <<closed, serverVars, refresh, run, act>>

\* tools/list_changed: the notice worker lists the tools of the state's client.
ToolsChange(c) ==
  LET s == conn[c].server IN
  /\ Up(c) /\ refresh[c] = None /\ client[s] # None
  /\ refresh' = [refresh EXCEPT ![c] = client[s]]
  /\ UNCHANGED <<closed, serverVars, conn, run, act>>

Refreshed(c) ==
  /\ refresh[c] # None
  /\ tools' = IF Up(refresh[c]) THEN [tools EXCEPT ![conn[c].server] = TRUE] ELSE tools
  /\ refresh' = [refresh EXCEPT ![c] = None]
  /\ UNCHANGED <<closed, listed, allowed, status, client, task, stopping, conn, run, act>>

-----------------------------------------------------------------------------
(* Stopping a server, and starting it again.                               *)

\* What a cancellation makes of a task, up to its next await.  A spawn may sit
\* in asyncio's own cleanup until the second one; the end of a transport's own
\* tasks is awaited with every exception suppressed, the cancellation too.
Cancelled(r) ==
  CASE r.at = "handshake" -> {[r EXCEPT !.at = "closing", !.why = "cancel"],
                              [r EXCEPT !.at = "stuck"]}
    [] r.at \in {"stuck", "listing", "prompts"} ->
         {[r EXCEPT !.at = "closing", !.why = "cancel"]}
    [] r.at \in {"closing", "dropping"} -> {NoRun(r.server), r}
    [] OTHER -> {NoRun(r.server)}

\* _schedule, up to the await that tells of the new status.
Schedule(a, s, halted) ==
  IF closed \/ s \notin allowed'
  THEN /\ status' = [status EXCEPT ![s] = "off"]
       /\ stopping' = halted
       /\ act' = [act EXCEPT ![a] = Idle(s)]
  ELSE /\ status' = [status EXCEPT ![s] = "connecting"]
       /\ stopping' = [halted EXCEPT ![s] = FALSE]
       /\ act' = [act EXCEPT ![a] = [Idle(s) EXCEPT !.at = "setting"]]

\* The end of _stop, and what its caller does next.
FinishStop(a, s, op, halted) ==
  /\ Forget(s)
  /\ listed' = IF op = "remove" THEN listed \ {s} ELSE listed
  /\ IF op \in {"reconnect", "allow", "forbid"} THEN Schedule(a, s, halted)
     ELSE /\ stopping' = halted
          /\ status' = IF op = "call" THEN [status EXCEPT ![s] = "needs_auth"] ELSE status
          /\ act' = [act EXCEPT ![a] = [Idle(s) EXCEPT !.at = IF op = "close" THEN "ended"
                                                              ELSE "idle"]]

\* The task is told to stop, the first time or again.
CancelTask(a, s, op, t, tries) ==
  /\ \E r \in Cancelled(run[t]) : run' = [run EXCEPT ![t] = r]
  /\ act' = [act EXCEPT ![a] = [Idle(s) EXCEPT !.at = "cancelling", !.op = op,
                                               !.task = t, !.tries = tries]]

\* _stop, up to its first await: the client's end, the task's, or none.
Stop(a, s, op) ==
  LET halted == [stopping EXCEPT ![s] = TRUE] IN
  /\ task' = [task EXCEPT ![s] = None]
  /\ \/ /\ client[s] # None
        /\ act' = [act EXCEPT ![a] = [Idle(s) EXCEPT !.at = "shutting", !.op = op,
                                                     !.task = task[s], !.conn = client[s]]]
        /\ stopping' = halted
        /\ UNCHANGED <<listed, status, client, tools, run>>
     \/ /\ client[s] = None /\ task[s] # None /\ Alive(task[s])
        /\ CancelTask(a, s, op, task[s], 1)
        /\ stopping' = halted
        /\ UNCHANGED <<listed, status, client, tools>>
     \/ /\ client[s] = None /\ ~(task[s] # None /\ Alive(task[s]))
        /\ FinishStop(a, s, op, halted)
        /\ UNCHANGED run
  /\ UNCHANGED connVars

\* Defect: the task is left to notice by itself that its client has closed.
ShutClient(a) ==
  /\ act[a].at = "shutting"
  /\ UNCHANGED <<closed, allowed, task, run>>
  /\ CloseConn(act[a].conn)
  /\ FinishStop(a, act[a].server, act[a].op, stopping)

\* The client has closed: the task is cancelled, unless it has ended by then.
Shut(a) ==
  LET s == act[a].server  t == act[a].task IN
  /\ act[a].at = "shutting"
  /\ UNCHANGED <<closed, allowed, task>>
  /\ CloseConn(act[a].conn)
  /\ \/ /\ t # None /\ Alive(t)
        /\ CancelTask(a, s, act[a].op, t, 1)
        /\ UNCHANGED <<listed, status, client, stopping, tools>>
     \/ /\ ~(t # None /\ Alive(t))
        /\ FinishStop(a, s, act[a].op, stopping)
        /\ UNCHANGED run

\* Defect: one cancellation, and a wait for the task however long that takes.
CancelOnce(a) == act[a].at = "ended" /\ UNCHANGED vars

\* The grace (_STOP_GRACE_S) is over; closing a client that is closed takes less.
\* The code gives up after _STOP_ATTEMPTS and leaves the task behind; here it is
\* waited for, so that CloseReturns does not hold by giving up.
CancelAgain(a) ==
  LET t == act[a].task IN
  /\ act[a].at = "cancelling" /\ act[a].tries < Attempts
  /\ \/ run[t].at \in {"stuck", "backoff"}
     \/ run[t].at = "closing" /\ Up(run[t].conn)
  /\ CancelTask(a, act[a].server, act[a].op, t, act[a].tries + 1)
  /\ UNCHANGED <<closed, serverVars, connVars>>

TaskGone(a) ==
  /\ act[a].at = "cancelling" /\ ~Alive(act[a].task)
  /\ UNCHANGED <<closed, allowed, task, connVars, run>>
  /\ FinishStop(a, act[a].server, act[a].op, stopping)

\* _schedule creates the task.
Create(a) ==
  LET s == act[a].server IN
  /\ act[a].at = "setting"
  /\ \E t \in Task : Free(t)
  /\ LET t == CHOOSE t \in Task : Free(t) IN
       /\ task' = [task EXCEPT ![s] = t]
       /\ run' = [run EXCEPT ![t] = NewRun(s)]
  /\ act' = [act EXCEPT ![a] = Idle(s)]
  /\ UNCHANGED <<closed, listed, allowed, status, client, stopping, tools, connVars>>

-----------------------------------------------------------------------------
(* The callers.                                                            *)

\* The environment of the passing run: one caller at a time stops a server.
Undisturbed(a, s) ==
  OneAtATime => \A b \in Caller \ {a} : act[b].server = s => act[b].at \in {"idle", "away"}

Asks(a, s) == act[a].at = "idle" /\ s \in listed /\ Undisturbed(a, s)

\* reconnect and sign_out.
Reconnect(a, s) ==
  /\ Asks(a, s)
  /\ UNCHANGED <<closed, allowed>>
  /\ Stop(a, s, "reconnect")

\* approve, and set_enabled(True).
Allow(a, s) ==
  /\ Asks(a, s)
  /\ allowed' = allowed \cup {s}
  /\ Stop(a, s, "allow")
  /\ UNCHANGED closed

\* Defect: a server that is still connecting is switched off but not stopped.
ForbidConnected(a, s) ==
  /\ Asks(a, s)
  /\ allowed' = allowed \ {s}
  /\ \/ status[s] # "connecting" /\ Stop(a, s, "forbid")
     \/ /\ status[s] = "connecting"
        /\ UNCHANGED <<listed, status, client, task, stopping, tools, connVars, run, act>>
  /\ UNCHANGED closed

\* set_enabled(False).
Forbid(a, s) ==
  /\ Asks(a, s)
  /\ allowed' = allowed \ {s}
  /\ Stop(a, s, "forbid")
  /\ UNCHANGED closed

Remove(a, s) ==
  /\ Asks(a, s)
  /\ UNCHANGED <<closed, allowed>>
  /\ Stop(a, s, "remove")

\* call_tool: a tool of a connected server is called.
Call(a, s) ==
  /\ act[a].at = "idle" /\ s \in listed
  /\ client[s] # None /\ Up(client[s])
  /\ act' = [act EXCEPT ![a] = [Idle(s) EXCEPT !.at = "away", !.op = "call"]]
  /\ UNCHANGED <<closed, serverVars, connVars, run>>

\* sign_in, until the browser has come back with a token or without.
SignIn(a, s) ==
  /\ act[a].at = "idle" /\ s \in listed
  /\ status' = [status EXCEPT ![s] = "needs_auth"]
  /\ act' = [act EXCEPT ![a] = [Idle(s) EXCEPT !.at = "away"]]
  /\ UNCHANGED <<closed, listed, allowed, client, task, stopping, tools, connVars, run>>

\* The call ends, with a result or an error; the sign-in fails.
Back(a) ==
  LET s == act[a].server IN
  /\ act[a].at = "away"
  /\ status' = IF act[a].op = "call" THEN status ELSE [status EXCEPT ![s] = "needs_auth"]
  /\ act' = [act EXCEPT ![a] = Idle(s)]
  /\ UNCHANGED <<closed, listed, allowed, client, task, stopping, tools, connVars, run>>

\* The call is answered 401, or the sign-in succeeds: whatever connection the
\* server has by now is stopped.
Settle(a) ==
  LET s == act[a].server IN
  /\ act[a].at = "away" /\ Undisturbed(a, s)
  /\ act[a].op = "call" \/ s \in listed
  /\ UNCHANGED <<closed, allowed>>
  /\ Stop(a, s, act[a].op)

\* close: nothing starts any more, and each server is stopped, side by side.
Close ==
  /\ ~closed
  /\ closed' = TRUE
  /\ act' = [a \in Actor |-> IF a \in Caller THEN act[a]
                             ELSE [Idle(a) EXCEPT !.at = IF a \in listed THEN "closing" ELSE "ended"]]
  /\ UNCHANGED <<serverVars, connVars, run>>

CloseServer(s) ==
  /\ act[s].at = "closing"
  /\ UNCHANGED <<closed, allowed>>
  /\ Stop(s, s, "close")

-----------------------------------------------------------------------------

RunStep(t) ==
  \/ Start(t) \/ Greeted(t) \/ Listed(t) \/ ConnectFails(t) \/ PromptsListed(t)
  \/ Announced(t) \/ CloseFailed(t) \/ Ended(t) \/ CloseEnded(t) \/ Wake(t)

StopStep(a) == Shut(a) \/ CancelAgain(a) \/ TaskGone(a) \/ Create(a)

Next ==
  \/ \E t \in Task : RunStep(t)
  \/ \E c \in Conn : Drops(c) \/ ToolsChange(c) \/ Refreshed(c)
  \/ \E a \in Actor : StopStep(a)
  \/ \E a \in Caller, s \in Server :
       Reconnect(a, s) \/ Allow(a, s) \/ Forbid(a, s) \/ Remove(a, s)
       \/ Call(a, s) \/ SignIn(a, s)
  \/ \E a \in Caller : Back(a) \/ Settle(a)
  \/ Close
  \/ \E s \in Server : CloseServer(s)

\* The event loop runs what can run, every request has a timeout, a close of a
\* transport is bounded and the grace of a stop elapses; nobody has to ask for
\* anything, and a server need not answer.
Fairness ==
  /\ \A t \in Task : WF_vars(RunStep(t))
  /\ \A a \in Actor : WF_vars(StopStep(a))
  /\ \A s \in Server : WF_vars(CloseServer(s))

Spec == Init /\ [][Next]_vars
FairSpec == Spec /\ Fairness

-----------------------------------------------------------------------------
(* Properties.                                                             *)

\* A server has one connection at most, and its state names it: a connection
\* that no state names is one that no stop can reach.
OneConnection == \A c \in Conn : Up(c) => client[conn[c].server] = c

InHand(s) == \E a \in Actor : act[a].server = s /\ act[a].at \notin {"idle", "away", "ended"}
Running(s) == \E t \in Task : Alive(t) /\ run[t].server = s

\* When the task of a server has ended, however it did, and nobody is at work
\* on the server, neither a client nor a tool of it is left.
StoppedIsClean ==
  \A s \in Server : ~Running(s) /\ ~InHand(s) => client[s] = None /\ ~tools[s]

\* A server that is switched off or not approved is not connected to, nor about
\* to be, once the call that switched it off has returned.
OnlyAllowed ==
  \A s \in Server : s \notin allowed /\ ~InHand(s) =>
    /\ ~Running(s)
    /\ \A c \in Conn : Up(c) => conn[c].server # s

\* "Stop every server": when close has returned, no connection is up.
CloseStops ==
  (\A s \in Server : act[s].at = "ended") => \A c \in Conn : ~Up(c)

\* close returns, whatever the servers and their tasks are in the middle of, and
\* the tasks end.
CloseReturns ==
  closed ~> /\ \A s \in Server : act[s].at = "ended"
            /\ \A t \in Task : ~Alive(t)
=============================================================================
