# A TLA+ model of Code-AI

Code-AI is a coding agent for the terminal, written in Python on one asyncio
event loop. This directory holds TLA+ modules of the parts of it that are
concurrent and hard to test, the TLC runs that check them, and TLAPS proofs of
the results that matter most. Everything is translated from the source under
`src/`; `PROJECT.json` names, for each definition, the lines it stands for.

## Inventory

The Python package is `src/src/code_ai`. Its parts, what each keeps, what it does, and
what would make it wrong:

| Part | State | Operations | Interacts with | Hard behaviour | Correct when |
| --- | --- | --- | --- | --- | --- |
| Event bus (`events/bus.py`) | sequence, lock, delivering task, nested events, subscribers | emit, subscribe, unsubscribe | every other part (callbacks) | re-entrant emits, failing handlers, cancellation in a delivery, the cap | in order, nothing lost in silence, emits return |
| Sub-agents (`core/subagents`) | a circuit per profile, a semaphore per batch | dispatch, allows, record_success, record_failure, retry | the turn loop calls it, it runs child agents and emits events | parallel calls ending in any order, cancellation, silence, cooldowns | slots balance, circuits trip and recover, dispatch returns |
| Task board (`app/board.py`, `core/board`) | lanes, tasks, sub-tasks, the file | apply, plan, play, stop, reload | front ends edit it, the runner changes it | edits against a run, planners against a run, crashes | what a run holds is let alone, and let go of in the end |
| Board runner (`app/board_runner.py`) | slots, the stop, finished events, outcomes | plan, run, stop | changes the board, hires agents | dependencies, stop at any await, verification and fixes | order of dependencies, done is complete, a run ends |
| Graph flows (`core/graph`, `app/graph_runner.py`) | a stack of steps per call, the node in hand, values by node and pin, budgets | run, stop, one handler per kind of node | agents, a judge's model, the user; tells the editor | loops in calls, returns out of loops, ceilings, a stop against an answer | the order of the graph, no light left on, it ends |
| Turn loop (`core/orchestration.py`) | the turn, the calls of the last reply, the queue of typed messages | run_turn, batches of tool calls, approvals | providers, tools, planner, bus, conversation | parallel reads, retries, a stop at any await, exceptions in a round | every call has its result, a stop ends the turn |
| Planning and goals (`core/planning`, `core/goal`) | plan steps, evidence, budgets | record, complete, evaluate | turn loop | steps completed on stale evidence | no step done without its evidence, loops bounded |
| Approvals (`core/approval.py`, `bridge/approval.py`) | pending futures by call id | request, resolve, close | turn loop, IDE client | superseding, late answers | every request gets one answer |
| Bridge server (`bridge/server.py`) | the turn, queued messages | requests over stdio | application service | requests during a turn | one turn at a time |
| MCP (`mcp`) | per server: task, connection, status, tools, whether it is stopping | connect, reconnect, approve, switch on and off, remove, sign in, call, close | servers outside, the panel and the bridge, the tool registry | a stop against a connection being made, a task that ignores its cancellation, connections that drop, two callers of one server | one connection per server, nothing of a stopped one left, close stops every server |
| Code index (`index`) | chunks, file states | refresh, search | file system, SQLite | edits during a refresh | no stale chunk for good |
| Context (`context`) | the messages of the conversation, usage | append, compress | turn loop | cuts between a call and its result | results stay with their calls, nothing said is lost |
| Application service (`app/service.py`, `session.py`) | messages that wait, the turn lock, the handles of the turn | submit, promote, stop | all | messages during, between and after turns | nothing the user wrote is lost or said twice |
| Providers, tools, sandbox, config, util, ui, cli, interop | adaptors | I/O | outside world | I/O failure | not candidates, but for `util/fileio.py` |

`vscode-extension`, `intellij-plugin`, `desktop-avatar` (Rust), packaging,
scripts and tests are other programs or support. The list of hazards, each at its
line and with the properties that would catch it, is in `PROJECT.json`.

## Modules

### EventBus (`events/bus.py`)

One step is the code between two awaits: asyncio does not interrupt it. A
delivery awaits inside each handler; there other tasks run, the handler
emits, and the delivering task can be cancelled.

| Code | Model |
| --- | --- |
| `_sequence`, `_lock`, `_delivering`, `_nested`, `_subscribers` | `seq`, `queue` and `holder`, `holder`, `nested`, `subscribers` |
| `emit` up to the lock; with the lock | `Request`; `Acquire` |
| `emit` in the delivering task | `HandlerEmits` |
| `_deliver`: a call, its end, the failure report | `CallSubscriber`, `HandlerReturns`, `HandlerFails`, `ReportFailure` |
| the loop over `_nested`, the end, the `finally` | `DeliverNested`, `EmitReturns`, `Release` |
| cancellation in a handler, and in the wait for the lock | `CancelDelivery`, `CancelWaiter` |

`got`, `due`, `sent`, `lost`, `ordinary` and `latest` are what an observer has seen; no guard
reads them. The order in which one delivery calls its subscribers is left open, so the results
hold for any order of subscription. A handler emits for itself: it does not
wait for another task that emits (no handler of the program does).

Properties: nothing of a delivery is left behind when the lock is free
(`NothingLeftBehind`); every number given out was delivered, waits, or was
given up for a named reason, and a subscriber misses nothing delivered while it
was subscribed (`NothingVanishes`); events arrive in order, the bus's own
failure reports aside (`OrdinaryInOrder`); every emit gets its turn and returns
(`EmitCompletes`).

### SubagentDispatch (`core/subagents/coordinator.py`, `resilience.py`)

A batch of requests, one coroutine each; the breaker outlives the batch.

| Code | Model |
| --- | --- |
| `CircuitBreaker.allows`, `record_success`, `record_failure` | `Allows` and `Admitting`, `RecordSuccess`, `RecordFailure` |
| `dispatch` begins; `gather` is over | `Dispatch`; `Return` |
| `_guarded`, `_dispatch_one` up to the child's turn | `Refuse`, `Start` |
| `_run`, `_report_from_turn`, `Pulse.watch` | the outcome in `BackOff` and `Finish` |
| `RetryPolicy.until` | `Retried`, `BackOff`, `Retry` |
| `_emit_terminal`, the end of `async with semaphore` | `Report` |
| the parent's cancel event; the clock | `Cancel`; `Tick` |

One batch runs at a time: `dispatch_agent` is the only caller and its tool calls
run one after another. The depth guard refuses everything and changes nothing, so it is
left out. The counter of failures is compared with the threshold only, so it
stops there; the age of an open circuit stops at the cooldown. The clock
moves while the coordinator waits for its children (`Settled`): admissions and announcements
are instants next to a cooldown of seconds. The branch of `allows` that admits a probe
when none is in flight is written down and never taken, which is what `HalfOpenIsProbed` says.

Properties: slots balance (`SlotsBalanced`); a half-open circuit has its probe in
flight (`HalfOpenIsProbed`) and is settled by it (`ProbeResolves`); a circuit is
closed exactly while fewer than the threshold of calls in a row ended otherwise than completed
(`TripsAtThreshold`); every dispatch returns (`DispatchReturns`).

### BoardRun (`app/board.py`, `app/board_runner.py`, `core/board`)

The board, the run, the planner jobs, the user and the crash in one module: they
share the board with no lock between them, so none can be checked without
the others.

| Code | Model |
| --- | --- |
| a task, its lane, sub-tasks and criteria | `board[t]` |
| `BoardService._runner`, `BoardRunner._cancel`; `_plan_runners` | `run`; `jobs` |
| `_run_task`, `_work_task`, `_run_whole`, `_verify` | `work[t]`, and the actions of `TaskStep` and `TaskAgentEnds` |
| `run_one`, `_run_sub` | `piece[t][s]`, and the actions of `PieceStep` and `PieceAgentEnds` |
| `BoardRunner._slots` | `slots` |
| `_finished`, `_outcome` | `work[t].at = "ended"`, `work[t].outcome` |
| `plan`, `play`, `stop`, `run`, `_run_job`, `_plan_job` | `Plan`, `Play`, `Stop`, `RunBegins`, `RunReturns`, `PlanBegins`, `PlanLands`, `PlanReturns` |
| `apply` with its operations | `MoveTask`, `RemoveTask`, `SetCriteria`, `AddSubtask`, `RemoveSubtask`, `TickSubtask` (all through `Edit`, the busy rule) |
| the death of the process and `Board.repair` | `Crash` |

`mutate` changes the board at once and then announces it, which is an await: a
coroutine that is `leaving` has changed the board and not yet told those who wait
for it. An agent's turn is an outcome: completed, failed (a timeout is one way
to fail) or cancelled. The semaphore serves its waiters in any order, which
includes the order of the code. A check asks about the criteria its prompt names: `asked` says whether
that is all of them, which a planner or an edit may change while the prompt waits for its slot or the
reviewer works. Dependencies are constants, those of a removed task
dropped when the dependent begins to wait, as the code does. Left out: checklists (they act
like criteria), attachments, custom lanes, the order of cards, exceptions of the
runner's own code, a save that fails; `close` has, after the reload, the effect of `Crash`.

Properties: a task nobody may edit is in somebody's hands (`BusyIsHeld`); slots
balance (`SlotsBalanced`); no agent works ahead of a dependency (`DependenciesFirst`);
done means all sub-tasks done (`DoneIsComplete`) and every criterion the task has by then passed
(`DoneIsChecked`); a stopped
run completes nothing more (`StopFreezesDone`); without planners nothing a run
holds is edited (`HeldNotEdited`); a run ends (`RunEnds`), a stopped one also when its
agents would not have answered (`StopEnds`).

### TaskLife

What the board promises of its tasks: a task is free, and the user may change it, or held by a run, and only
the run moves it on, in a known order, and lets it go. Statuses and holders are all it has; no sub-tasks,
no agents, no waiting. `BoardRun` implements it as long as no planner is at work: `KeepsTaskLife` is
`Life!Spec` with `status` mapped to the statuses of the board (a card that was removed is absent), `held` to the
tasks whose coroutine the run has, and `stopping` to its stop.

### TurnLoop and Session (`core/orchestration.py`, `context`, `app/service.py`)

`TurnLoop` is one turn and the conversation it is held in; `Session` extends it with what the user's
messages go through before and between turns.

| Code | Model |
| --- | --- |
| `ConversationState.messages`, `_TurnState`, the calls of a reply, `_queued_user_messages` | `conv`, `turn`, `batch`, `queue` |
| `_followups`, waiters of `_turn_lock`, the stop between its announcement and its flag | `followups`, `line`, `stopping` |
| `run_turn` up to the loop, its `except` clauses | `Prepare`, `End` |
| `_run_model_loop`: the head, `ensure_capacity`, the reply | `StopAtTop`, `LimitAtTop`, `Ask`; `Fit`; `Calls`, `Answers`, `Correct`, `Unsupported` |
| `_run_model_step`, `_retry_after_failure`, a stop while it streams | `ModelFails`, `Again`, `GivesUp`; `StopAtModel` |
| `_execute_tool_batch`, `_execute_call`, `_guarded_execute` | `Start`, `ToolEnds`, `StopInBatch`, `Record`, `NextRound` |
| `_authorize_call`, `_await_decision` | `UserDecides`, `Withdraw` |
| `_run_until_answered`, `_answer_dangling_calls` | `Break`, `AnsweredDangling` |
| `_compress_in_place` | `Split`, `Folded` |
| `submit_user_message`, `_run_turn`, `answer_followup_now`, `cancel_current_turn` | `Submit`, `StartTurn`, `TurnReturns`, `Promote`, `PressStop` and `StopLands` |

Of a message only its role is kept, which of the user's messages it holds, and which calls it makes or
answers. A compaction happens or not, whatever the token count; what a summary holds counts as
said. A call is named by the turn, the step and the place that made it. The guard of a tool is its outcome; that
it ends a tool that does not end is in the fairness, and that it may raise what nobody expects is in
`Break`. Notes that travel on a tool result change nothing here. Of the limits, the one on steps
is counted and the others (time, calls, rounds without progress) may be met at any time. What was queued joins the
conversation in one step (`Ask`): the code announces each message before the next, and nobody reads
the conversation meanwhile. A compaction that folds and still does not fit breaks the step without its fold, and a summary that
grew too long is not folded again on its own, which would put another summary in its place. An image a tool shows is left out.

Properties: what was typed is in exactly one place at any time (`EachOnce`); no compaction
separates a result from its call (`ResultsFollowCalls`); when the model is asked again, every call this
turn made has exactly one result, also after a round that broke (`RoundsClosed`; across turns this is
the violation below); a stop ends its turn, whoever it was waiting for (`StopEndsTurn`); what was
typed is heard, or dropped by a stop (`Heard`).

### Flow and FlowOrder (`core/graph/runtime.py`, `app/graph_runner.py`)

| Code | Model |
| --- | --- |
| `GraphProgram` after `compile_graph` | `graph`, an element of `Program` that is `Wired` |
| the `stack` of each active `_walk_from`, and `_calls` | `frames` |
| the node inside `_execute`; its executor: running, back, cancelled and not yet ended | `hand`; `reply` |
| a `_loop_head` that awaits `_pull`, past its `_checkpoint` | `pulling` |
| `_Stop`, `_Return`; `_cancel`; `_executed` | `raised`; `cancel`; `executed` |
| `_outputs` of a call's node | `handed`: from which Return they are |
| `graph.node.started`, `completed`, `failed`, `graph.decision`, `graph.loop.iteration` | `events.lit`, `events.log` |
| `_checkpoint`, `_execute`, `_sequence_step`; `_loop_head` up to its `_pull` and after it | `Checkpoint`, `Begin`, `Branch`; `Pull`, `Lap` |
| the kinds of `_dispatch` | `Pass`, `Opens`, `Ends`, `Returns`, `Calls`, `Take` |
| `_run_decision` in mode `bool`, which is not raced | `Decides` |
| `_race`; its `finally`, up to `gather` and after it | `Raced`, `Settled`, `AnswerCounts`; `LetGo`, `Take` |
| the end of `_run_call`; the `except` clauses of `_execute`; the end of `run` | `CallDone`; `Unwinds`; `RunOver` |
| `run_agent`, `judge`, `ask_user`; `request_stop` and the gateway's `close` | `Reply`; `Stop` |

The interpreter is a loop over stacks. `FlowOrder` says the same thing as a call tree: the flow from a node is
the node and then the flow from what it leads to. It reads
the log the editor was given and says whether the walk could have come this way (`FollowsGraph`). The reading is a
recursive function on the positions of the log, `FlowOf`: for each of them, where each part of the program (a node, the branches of a
sequence that are left, the laps of a loop) would go on, by what the later positions say. It is no part of the code but the
reference the walk is held to. Conditions, counts and verdicts may
go either way; a ceiling of time may be met at any checkpoint. An exception of a node that runs no executor is
left out (it unwinds like a failed agent), and so is the cancellation of the whole task when the program
closes: that one leaves nodes lit, and there is nobody to see them.

A stop is looked at in two places only: at the head of the walk, and in `_race`. A loop head and a decision that reads a
value are past the one and never in the other while they await `_pull`, so a stop that lands there lets one lap or one
branch through; `StopWins` says that it is one, that nothing starts after it, and that everything else is cut off.

Properties: no node is left lit when the run is over (`NothingSpins`); the results of a call are those of
this run of it (`CallsAreFresh`); order (`FollowsGraph`); after a stop no node starts and no answer is taken
(`StopWins`); a stop ends the run, unless an executor that was cancelled for it never ends (`StopEnds`); without a stop
the run ends too, unless it waits for an executor that never comes back (`EndsOrWaits`).

### McpManager (`mcp/manager.py`, `mcp/client.py`)

| Code | Model |
| --- | --- |
| `ServerState`; `_servers`, `_closed`; enabled or approved | `status`, `client`, `task`, `stopping`, `tools`; `listed`, `closed`; `allowed` |
| an `McpClient`: open or closed; its notice worker | `conn[c].up`; `refresh[c]` |
| `_run` and `_connect` of a task, one place for each await | `run[t].at`, `Start`, `Greeted`, `Listed`, `PromptsListed`, `Announced`, `ConnectFails`, `CloseFailed`, `Ended`, `CloseEnded`, `Wake` |
| `_unregister` and `state.client = None` | `Forget` |
| `_stop` up to its first await, after each of them, its end | `Stop`, `Shut`, `CancelTask` and `CancelAgain`, `FinishStop` and `TaskGone` |
| `_schedule` before and after the status is told | `Schedule`, `Create` |
| `reconnect` and `sign_out`, `approve` and `set_enabled`, `remove` | `Reconnect`, `Allow`, `Forbid`, `Remove` |
| `call_tool`; `sign_in`; how they come back | `Call`; `SignIn`; `Back`, `Settle` |
| `close` and the branches of its `gather` | `Close`, `CloseServer` |
| the server's process, its stream, its `list_changed` | `Drops`, `ToolsChange`, `Refreshed` |

A caller is where it is inside `_stop` or `_schedule`; closing the session has one branch per server, named
after it. A connection is closed for good when its client's `close` is through; the server may have dropped it
before. Identities of tasks and connections are used again once nobody refers to them, and an action that
needs a new one waits if there is none. A cancelled task unwinds at its await: in the handshake it may first be stuck in
the cleanup of a spawn (`stuck`), which a second cancellation frees; where a transport is being closed the
cancellation may be swallowed, because `close` awaits its pumps with every exception suppressed. A client is
looked up again after each await (`_load_tools`, `_load_prompts`, `_run`), and may be none or another by then.

`OneAtATime` is an assumption about the callers: two of them do not restart or stop the same server at once.
The bridge does not see to it, since it answers these requests side by side; `mcp_close` is what becomes of it then.
The end of the session may come at any moment in either.

Left out: `upsert` and a second `start()`, which put another state under the same name, the table of pending
requests (an answer, an error and a timeout are choices), the transports, groups of tools.

Properties: a connection that is up is the one its server's state names, so that a stop can reach it
(`OneConnection`); when a server's task has ended and nobody is at work on the server, neither client nor tools
are left (`StoppedIsClean`); a server that was switched off is neither connected nor about to be
(`OnlyAllowed`); `close` returns, and every task ends, whatever they were in the middle of
(`CloseReturns`).

## Runs

| Run | Shows | Bounds |
| --- | --- | --- |
| `bus` | the five properties of the bus | 2 emitters, 2 subscribers, 3 events, 1 nested event per emit: an emit waits behind another, a nested event meets the cap, a failure report meets a nested event |
| `dispatch` | the six properties of the dispatch | 2 profiles and an unknown one, all batches of up to 3 requests and one of 4, 2 slots, 2 attempts, threshold 2: refusals, retries, waiting for a slot, trips and probes |
| `board_run` | the safety of a run, and that it implements `TaskLife` | 2 tasks, one waiting for the other, 2 sub-tasks, 2 slots, 2 Plays, 2 edits, a crash; one board with a criterion on a task with sub-tasks, one with a whole task that has a criterion and was stopped |
| `board_plan` | a planner at work before, next to and after a run; termination | 2 tasks, one of them a draft, 1 sub-task, 1 slot for which everybody competes, 2 requests, an edit, a crash |
| `session` | the six properties of a session | 2 messages, turns of 2 steps, batches of a read and a claim, a write and a question, two reads; 1 retry, 3 messages kept by a compaction, 1 stop |
| `flow` | the seven properties of a flow | 3 graphs of 11 nodes, 18 nodes executed, 3 laps: a loop around a call around a decision around a return; wires that run back into a loop and a decision, which reads a value in one graph and asks a judge in two; a call in every lap of a loop in a call |
| `mcp` | the five properties of the MCP manager | 1 server, 2 callers, 2 tasks, 2 connections, 2 failures, 2 cancellations: a restart while the last task unwinds, a tool call refused on an older connection, a close in the middle of each |
| `bus_order`, `dispatch_probe`, `board_held`, `session_requests`, `mcp_close` | a violation each, see below | the smallest instance that shows it |

The bounds are on how often the user acts and the process dies, on tasks,
requests and events, never on what the program does with them. Two tasks, two sub-tasks and two slots are the
smallest numbers at which somebody waits for somebody else and for a slot at the
same time. Plays are bounded, so the board may stop: its runs do not ask for
freedom from deadlock; nor do `session`, whose messages are bounded, `flow`, whose run ends, and `mcp`, whose session is closed.
`bus` and `dispatch` do. The three graphs of `flow` were chosen so that every kind of node is left by every
one of its pins, every ceiling is met, and a walk is cut short at every depth; a fourth would repeat
them. Servers share only the flag `closed`, which is why `mcp` has one; it takes two tasks and two
connections to have an old one unwind next to a new one. In `session` a compaction keeps 3 messages where the code keeps 8: a batch of two calls and
its results has to fall on both sides of the cut. No symmetry is used, since most runs check
temporal properties.

Fairness. The event loop runs what can run (weak fairness of each coroutine's
steps: `Scheduled`, `Fairness`). A child's turn ends: it answers, fails, or falls silent and is cut
short by `Pulse.watch` (`AgentsEnd`, and `Ends` in the dispatch); a child that
stays busy for ever is outside this assumption. `StopEnds` assumes less: agents end only once the run is
stopped (`StopSpec`), because `_hire` cancels them and does not wait for those that do not obey. `RunEnds` states
`AgentsEnd` as its premise. Handlers of the bus are assumed to end. In a session tools end (`_guarded_execute`
sees to it) and a stream says something or is given up; that the model, strongly, and the user, weakly, answer
is the premise of `Heard` alone, and `StopEndsTurn` does without. The model has to be strongly fair, since a
model that cannot be reached is waited for, and asked again, without a count. A compaction (`Fit`) ends because its request for
a summary ends, at the provider's own timeout: `context/compression.py:512` looks at no stop and sets no limit, so
`StopEndsTurn` rests on that timeout. A flow assumes the interpreter's own
steps and nothing of agents, judges and users, nor that one that was cancelled ends: `_race` awaits it
without a limit, which is why `StopEnds` and `EndsOrWaits` name that wait. The MCP manager assumes that every request has a timeout, that closing a
transport is bounded and that the grace of a stop elapses, and nothing of servers and callers. Nobody is assumed to emit, edit, play, type, stop, cancel
or crash.

## What disagrees with the documents

* `bus_order`: the failure report of the bus is numbered after the events the
  handlers emitted and delivered before them, against the order promised in the comment of `emit`.
* `dispatch_probe`: a call admitted before the circuit opened can end while the
  probe is in flight; it reopens the circuit and a second probe follows, against
  "admits exactly one probe". It takes a batch with more requests than slots.
* `board_held`: a planner chosen next to a Play of the same task lands in the middle of the
  run and makes the task editable, against "a run holds it, and nothing may edit it".
* `session_requests`: a turn that ends inside a batch, by a stop or because a claim of completion was accepted before
  the last call, leaves calls without results in the conversation, and the next turn sends them, against
  "a shape strict providers refuse". `_answer_dangling_calls` repairs the one path on which an exception broke the round.
* `mcp_close`: `_stop` empties the state before its first await. A server that is being reconnected and is then removed is
  found empty by the second `_stop`, taken off the list, and started by the first caller; it connects, and
  `close`, which says "Stop every server", stops those on the list.

Met while reading, and shown by no run, because they are about parts the modules leave out or
are no more than a wish of a comment:

* A graph run is said to hold the session's turn slot (`app/service.py:750`), but `submit_user_message` does not
  look at `graph_run_active`: a message during a graph run starts a turn.
* `cancel_current_turn` looks at `_current_cancel`, announces the stop, which is an await, and then uses it: if the turn
  ended in between it is `None` there, and if another began that one is stopped (`StopLands`).
* A turn that ends with an exception leaves `_queued_user_messages` and `_followups` as they are: they wait for the
  end of the next turn somebody starts (the premise `turn.end = "raised"` of `Heard`).
* A stop that lands after the model's last words ends nothing any more, and what was queued goes on.
* The caption of a tool's image (`core/orchestration.py:2645`) is a user message between the results of one batch. The
  model leaves it out, and `ResultsFollowCalls` holds without it only: with it the results after the caption no
  longer follow their call, and a compaction may cut there, since it moves its cut past results alone.
* `_race` says "never past a stop request" (`core/graph/runtime.py:878`), but its `finally` awaits the executor it
  cancelled, for as long as that one takes (904).
* `_stop` gives up on a task after a number of cancellations (`_STOP_ATTEMPTS`, `mcp/manager.py:296`) and leaves it behind. The
  model waits for the task instead, so that `CloseReturns` has to show that the task does end.
* Calls the user cancelled count as failures and can open the circuit of a profile that never failed
  (`core/subagents/coordinator.py:268`), where the documents speak of a role that keeps failing.
* A task no agent picked up is failed when the one it depends on was stopped (`app/board_runner.py:221`), where the
  comment at 627 has it wait again.
* A tool call refused with a 401 on an older connection stops the one the server has by then
  (`mcp/manager.py:468`).
* The write of a request is not under the request's timeout (`mcp/client.py:182`), nor is the notice of its cancellation.
* `_guarded_execute` asks a task it has just cancelled for its exception before the cancellation has
  arrived, which raises `InvalidStateError`; the round is broken and retried (`Break`).

## Proofs

`EventBusProofs`, `SubagentProofs`, `BoardProofs`, `BoardSafetyProofs`, `BoardLifeProofs`, `FlowProofs`, `McpProofs` and
`SessionProofs` hold for every value of the constants that meets the named assumptions of the modules (limits are positive, `None` is nobody, batches
are sequences of known or unknown types, the boards a session loads are what `Board.repair` leaves, graphs are wired as `compile_graph` lets them be).

* `EventBusProofs!TypeCorrect`, `LeavesNothing`: by induction on the steps; the second needs
  only the types.
* `EventBusProofs!NoneVanishes`: the property is inductive given that nothing is left behind; the cases that
  matter are the end of an emit, where what is still nested must be past the cap, and the next delivery, which
  finds nobody left to call.
* `EventBusProofs!InOrder`: no subscriber is given an event older than one it had. The invariant
  behind it: the numbers in `nested` increase and lie above the event being delivered; the event
  being delivered lies above what its remaining subscribers last had, unless it is the bus's own report;
  nothing lies above `seq`. That a delivery clears `nested` when it ends is what carries the
  invariant from one emit to the next.
* `SubagentProofs!TypeCorrect`, `SlotsNeverLeak`: proved together, because that a slot given back
  does not pass the limit follows from the balance, and the balance counts a finite set, which
  follows from the types.
* `SubagentProofs!ProbeNeverLost`, `TripsExactly`: the invariant adds to the two properties that
  the breaker's own counter of failures, as far as the threshold, is the streak an observer counts,
  for every profile and also after a failed probe, which the code does not count.

* `BoardProofs!NobodyStuckBusy`: the invariant `BoardInv` adds to `BusyIsHeld` the types and
  `Owned`: a coroutine that is not off belongs to the run that is working, and a sub-task's
  coroutine at work to a task that waits for its sub-tasks. `Owned` is what shows that marking a card
  running, from inside a sub-task, marks a task that is held, and that a run that begins or returns
  leaves no coroutine behind. Each step of a coroutine is first shown to be one of a few moves (`Moves`,
  `PieceMoves`), and the invariant is then proved of the moves.
* `BoardSafetyProofs!SlotsNeverLeak`, `TypeCorrect`: each step changes the slots as it changes the
  hold of its own coroutine (`SlotEffect`); the balance follows, and from it that `slots` stays below its limit.
* `BoardSafetyProofs!StoppedCompletesNothing`, `NoneSlipsThrough`: from `BoardInv` and the moves.
* `BoardSafetyProofs!DependenciesComeFirst`: the invariant says that what a waiting task no longer
  waits for is done or gone, and that a task that is gone stays gone. It holds for every graph of dependencies.
* `BoardLifeProofs!NothingHeldIsEdited`, `DoneTasksAreComplete`, `BoardKeepsTaskLife`: under `Job = {}`, no planners. The
  assumption is needed: a planner gives a task back while a run works on it, which the run `board_held`
  shows. The guard of an edit reads only the status of the card, so the properties rest on what the status says
  of the run: the invariant `LifeInv` adds to `BoardInv` that every task a run holds is busy or gone (`HeldIsBusy`), that a
  check says so (`CheckIsSaid`), that a task past its sub-tasks has all of them done (`PastIsComplete`), that a sub-task's
  coroutine that went well is done on the board (`PiecesTell`), and that none went well before it was worked on (`NotYetOk`).
  That nothing held is edited is what keeps `PastIsComplete` through the edits, and it follows from
  `HeldIsBusy`. For the refinement, every step of a coroutine is first shown to do one of four things to its
  task's status (`StatusGoes`: it stays, a check begins, work or a fix begins, the run lets it go), and every step then maps to a
  step of `TaskLife` or to a stutter: the first slot of a queued task to `MoveOn`, an outcome to `LetGo`, the begin of a run
  to `Take`, Play and the end of a run to `Return`.

* `FlowProofs!FlowTyped`, `NoLightStaysOn`, `ResultsAreTheCalls`: one invariant, `FlowInv`. Besides the types it says that
  every walk but the outermost belongs to a call (`Walks`), that a node in hand was the last to start and that
  nothing is on its way out meanwhile (`InHand`), that the lit nodes are those in hand or around it (`LitIsOpen`), that
  a run that is over has no walk left (`OverIsEmpty`), and that no result was handed on in the future
  (`HandedBefore`). A call may be made again while its results of the last lap are in the table, so freshness
  needs the log: after the Return a call's results came from, the call was not begun again.
* `FlowProofs!StopIsFinal`: from the types, the guards of each action, and that a loop head reads only while no node is
  in hand (`PullsAlone`), so that no more than one thing is past its check when the stop comes. With no node in hand
  the walks unwind or that loop head goes on (`StopWithNothingInHand`); with one in hand, an answer that is already there
  loses, and only a decision that was reading tells its branch (`StopWithNodeInHand`).
* `FlowProofs!WalkFollowsGraph`: the loop over stacks goes where the call tree goes, for every graph, any depth of calls and any log. Three
  parts. First, `FlowOf` is what its recursive definition says (`FlowReads`): a table exists for the last k positions, for every k, since each
  position reads only later ones; the induction is over a set of numbers (`Counting`), which the provers can instantiate,
  not over a predicate. Second, what is on the stacks is given a meaning: where each position leads when the steps of one walk are taken
  in turn (`Leads`), and when the walks around it go on after their calls (`Nest`). Third, the invariant `Tracks`: for *every* log
  that goes on from what was told so far, the reading from the start of the graph arrives where the stacks lead from here. It must speak of all
  the logs to come because the call tree is read from its root while the walk only knows its stacks; a step tells at most one event more,
  so that there are fewer of those logs, and moves the stacks by one rule of the call tree. `FollowsGraph` is the case of the
  log that ends here. With it goes `EndIsLast`: a run completed by an End has that End as its last event.
* `McpProofs!McpTypes`, `McpOneConnection`, `McpStoppedIsClean`, `McpOnlyAllowed`: one invariant, `McpInv`, under the
  assumption `OneAtATime`: a server is stopped or restarted for one caller at a time. The bridge answers these requests side by
  side (`bridge/server.py:747`) and does not see to it, so the last three of these theorems say nothing of two callers of one server; the
  run `mcp_close` shows what goes wrong then. None of the properties is
  inductive: whether a server may connect depends on who has its task. `Hands` says who that is: the server's state, or the one caller that
  took it from there to stop it (`Owned`, `Taken`, `Turns`), and then the task may not connect again (`Halting`); who is about to
  create a task finds nobody there (`Quiet`). `Clients` says who will close a
  connection: the task that made it or waits for it, or the caller that stops it, and it is the state's client or the state has
  none (`TaskHolds`, `StopHolds`, `Fresh`); so nothing up is ever out of reach (`Kept`). The branches of close are not
  held back by `OneAtATime`: that they get past a caller that is about to create a task is part of the proof.

* `SessionProofs!TypeCorrect`: the turn, the batch and the conversation keep their types; the case that needs
  lemmas is the compaction, which cuts and joins sequences (`Window`, `FoldedElements`).
* `SessionProofs!ResultsAlwaysFollow`, `RoundsAlwaysClosed`: one invariant, `RoundInv`. That a result follows its call is not
  inductive, since a result is written long after its call; what makes it so is where the batch under way stands: its first
  results are written down, in order, at the very end of the conversation and right behind the message that made the
  calls (`BatchOpen`, `Noted`), and every other message of the turn that made calls has all of its results behind it
  (`OthersFull`). Calls are named by the turn that made them, and no turn names calls of a later one
  (`CallsNamed`), so a new round cannot be mistaken for an old one. A compaction cuts before a message that is no
  result (`Window`), so it takes a round whole or leaves it whole; a broken round is closed by `AnsweredDangling`, which
  adds to the results there are just those that are missing.
* `SessionProofs!KeptInOnePlace`: the property counts places, and a count is not what a step preserves. The invariant `KeptOnce` names the
  place: what was typed lies at one place and nowhere else, what was not typed nowhere. Each step but
  one is then shown to be a move (`Moves`) of messages from one place to another: the turn's text or a whole queue to the
  end of the conversation, the older messages into a summary, a message that waited to the queue, what is left of a queue into
  the text of a turn, a place in line or among what was dropped. Typing a message lays it in one spot and moves no other.

Every safety invariant and action property of the runs is proved. Only model-checked: all liveness (`EmitCompletes`, `DispatchReturns`, `ProbeResolves`, `RunEnds`, `StopEnds`, `StopEndsTurn`,
`Heard`, `EndsOrWaits`, `CloseReturns`), which is out of the prover's reach, as are ENABLED, induction over data and
recursive operators.

## Plan

The plan of the first version is done as far as it led to control that is concurrent or hard to
test: the bus, the dispatch, the board with its abstract life of a task, the session with its turns, the
graph interpreter, the MCP manager. The modules are arranged so that one can be extended without the others: `Session` knows of a tool,
an agent and a graph run only that they end.

## Not modelled

* Planning, goals and policy are called between the awaits of a turn and decide on the text of arguments, paths and
  outputs; their verdicts are choices of `TurnLoop`.
* The operations of `core/board/ops.py` that do not touch a status, a lane's role or sub-tasks, and the batch
  they come in: one step, on a copy, of sequential code. Attachments and their sweep.
* The compiler and the editing operations of graphs: sequential transformations of a document.
* The pending table of `bridge/approval.py` and of `mcp/client.py`, the bridge, the MCP protocol and its sign-in, the code index: their
  partners are outside (an editor, servers, SQLite), and what the turn loop sees of them is an answer or a failure.
* Providers, single tools, sandbox, memory and reflection, configuration, utilities, user
  interfaces and plug-ins: I/O, prompts or presentation. Most of the package's lines are of this kind, which
  is why the modules stand for a small part of its lines.
