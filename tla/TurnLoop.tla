------------------------------ MODULE TurnLoop ------------------------------
(***************************************************************************)
(* One turn of the agent (core/orchestration.py, AgentOrchestrator.run_turn *)
(* and what it calls) and the conversation it is held in                    *)
(* (context/conversation.py, context/compression.py).                       *)
(*                                                                         *)
(* A turn asks the model, runs the tool calls of its reply, writes their    *)
(* results down and asks again, until the model answers in prose, the task  *)
(* is accepted as complete, a limit is reached, something cannot be retried *)
(* or the user stops it.  A stop only raises a flag, which the turn looks at *)
(* between its steps.  What one step writes is an element of `conv`: of a   *)
(* text only who said it is kept, and which of the user's messages it holds. *)
(***************************************************************************)
EXTENDS Naturals, Sequences, FiniteSets

CONSTANTS
  MaxMessages,  \* bound of the model: how many messages the user types
  Batches,      \* the batches of tool calls a model may ask for
  MaxSteps,     \* budgets.max_model_steps
  MaxFailures,  \* _MAX_FAILED_ATTEMPTS
  RecentKept    \* _RECENT_TURNS_KEPT

\* read: read-only, run side by side with the others of its batch; write: not;
\* complete: the claim that ends the task; ask: the question that ends the turn.
CallKind == {"read", "write", "complete", "ask"}

\* The user's messages, numbered in the order they are typed.
Message == 1..MaxMessages

ASSUME LoopAssumption ==
  /\ MaxMessages \in Nat
  /\ Batches \subseteq Seq(CallKind) \ {<<>>}
  /\ MaxSteps \in Nat \ {0} /\ MaxFailures \in Nat /\ RecentKept \in Nat \ {0}

VARIABLES
  conv,   \* ConversationState.messages, the system prompt left out
  turn,   \* the turn under way: _TurnState and where its coroutine is
  batch,  \* the calls of the reply it is working on
  queue   \* _queued_user_messages

loopVars == <<conv, turn, batch, queue>>

\* A call is named by the turn and the step that made it and its place in the batch.
CallId == Nat \X Nat \X Nat
Item == [role : {"user", "assistant", "tool", "summary", "carried"},
         said : SUBSET Message, calls : SUBSET CallId]

\* backoff: before the same request; restart: before the step is begun again.
Point == {"off", "accepted", "top", "fit", "model", "backoff", "restart", "batch", "landing",
          "done"}
Ending == {"none", "answered", "completed", "cancelled", "failed", "raised"}
Turn == [no : Nat, at : Point, text : SUBSET Message, step : Nat, failures : 0..MaxFailures,
         cancel : BOOLEAN, end : Ending]
Call == [kind : CallKind, at : {"todo", "asking", "running", "ok", "error"}, noted : BOOLEAN]

NoTurn(no) == [no |-> no, at |-> "off", text |-> {}, step |-> 0, failures |-> 0,
               cancel |-> FALSE, end |-> "none"]
NewTurn(text) == [NoTurn(turn.no + 1) EXCEPT !.at = "accepted", !.text = text]

Running == turn.at \notin {"off", "done"}

LoopTypeOK ==
  /\ conv \in Seq(Item) /\ turn \in Turn /\ batch \in Seq(Call) /\ queue \in Seq(Message)

LoopInit == conv = <<>> /\ turn = NoTurn(0) /\ batch = <<>> /\ queue = <<>>

Writes(role, said, calls) == [role |-> role, said |-> said, calls |-> calls]
Note == Writes("user", {}, {})
Prose == Writes("assistant", {}, {})
Result(id) == Writes("tool", {}, {id})

GoTo(point) == turn' = [turn EXCEPT !.at = point]
End(how) == turn' = [turn EXCEPT !.at = "done", !.end = how] /\ batch' = <<>>

-----------------------------------------------------------------------------
(* Compaction: the older messages become one summary.                      *)

OldLen(c) == IF Len(c) > RecentKept THEN Len(c) - RecentKept ELSE 0

\* Defect: the window may start on a result whose call is summarised away.
SplitAnywhere(c) == OldLen(c)
\* The recent messages are kept verbatim, but not the results at their head.
Split(c) ==
  OldLen(c) + Cardinality({i \in OldLen(c) + 1..Len(c) :
                             \A j \in OldLen(c) + 1..i : c[j].role = "tool"})

SaidIn(c) == UNION {c[i].said : i \in 1..Len(c)}
FromUser(c, roles) == \E i \in 1..Len(c) : c[i].role \in roles

Foldable(c) ==
  Len(c) >= RecentKept /\ \E i \in 1..Split(c) : c[i].role \notin {"summary", "carried"}

\* _compress_in_place; the user's last request is said again if the window
\* holds no word of the user.
Folded(c) ==
  LET older == SubSeq(c, 1, Split(c))
      recent == SubSeq(c, Split(c) + 1, Len(c))
      carried == /\ ~FromUser(recent, {"user", "summary", "carried"})
                 /\ FromUser(older, {"user", "carried"})
  IN <<Writes("summary", SaidIn(older), {})>>
       \o (IF carried THEN <<Writes("carried", {}, {})>> ELSE <<>>) \o recent

-----------------------------------------------------------------------------
(* The loop around the model.                                              *)

\* run_turn, until the loop: the text joins the conversation.
Prepare ==
  /\ turn.at = "accepted"
  /\ conv' = Append(conv, Writes("user", turn.text, {}))
  /\ turn' = [turn EXCEPT !.at = "top", !.text = {}]
  /\ UNCHANGED <<batch, queue>>

StopAtTop ==
  /\ turn.at = "top" /\ turn.cancel /\ turn.step < MaxSteps
  /\ End("cancelled")
  /\ UNCHANGED <<conv, queue>>

\* _wind_down: the tool phase is over, one more request without tools.
WindDown ==
  /\ conv' = Append(conv, Note)
  /\ turn' = [turn EXCEPT !.at = "landing"] /\ batch' = <<>>

\* The turn's time is over, or its steps are used up: the last round of the
\* loop does not come back to its head.
LimitAtTop ==
  /\ turn.at = "top" /\ (turn.cancel => turn.step = MaxSteps)
  /\ WindDown
  /\ UNCHANGED queue

\* Defect: a queued message is read and stays queued.
DeliveredStillQueued == queue' = queue
Delivered == queue' = <<>>

\* The head of the loop: what was queued joins the conversation.  The code
\* announces each message before the next one joins; whoever runs meanwhile
\* can queue another or ask for a stop, and both wait for the next look.
Ask ==
  /\ turn.at = "top" /\ ~turn.cancel /\ turn.step < MaxSteps
  /\ conv' = conv \o [i \in 1..Len(queue) |-> Writes("user", {queue[i]}, {})]
  /\ Delivered
  /\ turn' = [turn EXCEPT !.at = "fit", !.step = @ + 1]
  /\ UNCHANGED batch

\* ensure_capacity: the conversation is made to fit, if it has to be.  One that
\* does not fit breaks the step (Break), here without the fold it was tried with.
Fit ==
  /\ turn.at = "fit" /\ GoTo("model")
  /\ conv' = conv \/ (Foldable(conv) /\ conv' = Folded(conv))
  /\ UNCHANGED <<batch, queue>>

\* Noticed when the next piece of the reply arrives.
StopAtModel ==
  /\ turn.at \in {"model", "landing", "backoff", "restart"} /\ turn.cancel
  /\ End("cancelled")
  /\ UNCHANGED <<conv, queue>>

\* A reply without calls: perhaps without text either.
Answers ==
  /\ turn.at \in {"model", "landing"}
  /\ conv' \in {conv, Append(conv, Prose)}
  /\ End("answered")
  /\ UNCHANGED queue

\* Defect: the count of failures is looked at too late.
CorrectOnceMore ==
  /\ turn.at = "model" /\ turn.failures <= MaxFailures
  /\ conv' = Append(conv, Note)
  /\ turn' = [turn EXCEPT !.at = "top", !.failures = @ + 1]
  /\ UNCHANGED <<batch, queue>>

\* A call printed as text, one cut off, a reply that is all thought: the model
\* is told, and the step is done again.
Correct ==
  /\ turn.at = "model" /\ turn.failures < MaxFailures
  /\ conv' \in {Append(conv, Note), conv \o <<Prose, Note>>}
  /\ turn' = [turn EXCEPT !.at = "top", !.failures = @ + 1]
  /\ UNCHANGED <<batch, queue>>

\* The request fails and is sent again; a model that cannot be reached is
\* waited for without a count.
ModelFails ==
  /\ turn.at = "model"
  /\ \/ turn.failures < MaxFailures /\ turn' = [turn EXCEPT !.at = "backoff", !.failures = @ + 1]
     \/ GoTo("backoff")
  /\ UNCHANGED <<conv, batch, queue>>

\* The endpoint has no parser for calls: the step is begun again without.
Unsupported == turn.at = "model" /\ GoTo("top") /\ UNCHANGED <<conv, batch, queue>>

\* Out of retries, or unreachable for too long, with nothing streamed.
GivesUp ==
  /\ turn.at = "model"
  /\ End("failed")
  /\ UNCHANGED <<conv, queue>>

Again ==
  /\ \/ turn.at = "backoff" /\ ~turn.cancel /\ GoTo("model")
     \/ turn.at = "restart" /\ ~turn.cancel /\ GoTo("top")
  /\ UNCHANGED <<conv, batch, queue>>

Id(i) == <<turn.no, turn.step, i>>

\* Calls: the budget of calls is looked at before they are written down.
Calls ==
  /\ turn.at = "model"
  /\ \/ /\ \E kinds \in Batches :
             /\ batch' = [i \in 1..Len(kinds) |-> [kind |-> kinds[i], at |-> "todo", noted |-> FALSE]]
             /\ conv' = Append(conv, Writes("assistant", {}, {Id(i) : i \in 1..Len(kinds)}))
        /\ turn' = [turn EXCEPT !.at = "batch", !.failures = 0]
     \/ WindDown
  /\ UNCHANGED queue

-----------------------------------------------------------------------------
(* The calls of one reply.                                                 *)

Index == 1..Len(batch)
Ended(i) == batch[i].at \in {"ok", "error"}
Becomes(i, at) == batch' = [batch EXCEPT ![i].at = at]
AtCall(i, at) == turn.at = "batch" /\ batch[i].at = at

\* The reads start together; the others come one by one, after the reads.
Due(i) ==
  /\ AtCall(i, "todo")
  /\ batch[i].kind # "read" =>
       \A j \in Index : j # i /\ (batch[j].kind = "read" \/ j < i) => Ended(j)

\* A call starts, needs the user's word first, or is refused.
Start(i) ==
  /\ Due(i) /\ (batch[i].kind # "read" => ~turn.cancel)
  /\ \E at \in {"running", "asking", "error"} : Becomes(i, at)
  /\ UNCHANGED <<conv, turn, queue>>

UserDecides(i) ==
  /\ AtCall(i, "asking")
  /\ \E at \in {"running", "error"} : Becomes(i, at)
  /\ UNCHANGED <<conv, turn, queue>>

\* Defect: a question waits for its answer also when its turn is stopped.
WithdrawNever(i) == AtCall(i, "asking") /\ FALSE /\ UNCHANGED <<conv, turn, batch, queue>>
\* _await_decision: the question is withdrawn the moment the turn is stopped.
Withdraw(i) ==
  /\ AtCall(i, "asking") /\ turn.cancel
  /\ Becomes(i, "error")
  /\ UNCHANGED <<conv, turn, queue>>

ToolEnds(i) ==
  /\ AtCall(i, "running")
  /\ \E at \in {"ok", "error"} : Becomes(i, at)
  /\ UNCHANGED <<conv, turn, queue>>

\* The next call is not begun, or one that runs hears of the stop.  What the
\* others did is not written down.
StopInBatch ==
  /\ turn.cancel /\ \E i \in Index : AtCall(i, "running") \/ (Due(i) /\ batch[i].kind # "read")
  /\ End("cancelled")
  /\ UNCHANGED <<conv, queue>>

\* The calls of the last reply that have no result yet.
Dangling(c) ==
  LET answered(k) == UNION {c[i].calls : i \in k + 1..Len(c)} IN
  UNION {c[k].calls \ answered(k) :
           k \in {i \in 1..Len(c) : /\ c[i].role = "assistant"
                                    /\ \A j \in i + 1..Len(c) : c[j].role = "tool"}}

\* Defect: every call of the round gets a result, the answered ones a second.
AnsweredTwice(c) == c \o [i \in Index |-> Result(Id(i))]
AnsweredDangling(c) ==
  LET open == {i \in Index : Id(i) \in Dangling(c)}
      nth(n) == CHOOSE i \in open : Cardinality({j \in open : j < i}) = n - 1
  IN c \o [n \in 1..Cardinality(open) |-> Result(Id(nth(n)))]

\* An exception nobody expected: the guard reads a task it has just cancelled,
\* the conversation does not fit, a hook fails.  The round is closed and the
\* step begun again, or the turn ends with the exception.
Break ==
  /\ turn.at \in {"batch", "fit"}
  /\ \/ /\ turn.failures < MaxFailures
        /\ conv' = AnsweredDangling(conv)
        /\ turn' = [turn EXCEPT !.at = "restart", !.failures = @ + 1]
        /\ batch' = <<>>
     \/ /\ turn.failures = MaxFailures
        /\ End("raised")
        /\ UNCHANGED conv
  /\ UNCHANGED queue

\* Results are written down in the order of the calls.  Once a claim of
\* completion was accepted the turn ends with the first.  The message that
\* shows a tool's image behind its result is left out.
Record ==
  /\ turn.at = "batch" /\ \A i \in Index : Ended(i)
  /\ \E i \in Index :
       /\ ~batch[i].noted /\ \A j \in 1..i - 1 : batch[j].noted
       /\ conv' = Append(conv, Result(Id(i)))
       /\ IF \E j \in Index : batch[j].kind = "complete" /\ batch[j].at = "ok"
            THEN End("completed")
            ELSE batch' = [batch EXCEPT ![i].noted = TRUE] /\ UNCHANGED turn
  /\ UNCHANGED queue

\* A question to the user ends the turn; rounds without progress end the tools.
NextRound ==
  /\ turn.at = "batch" /\ \A i \in Index : batch[i].noted
  /\ IF \E i \in Index : batch[i].kind = "ask" /\ batch[i].at = "ok"
       THEN End("answered") /\ UNCHANGED conv
       ELSE \/ GoTo("top") /\ batch' = <<>> /\ UNCHANGED conv
            \/ WindDown
  /\ UNCHANGED queue

\* What the model's server does, and what the user does, is not of the turn's making.
ModelReplies == Answers \/ Correct \/ Calls \/ Unsupported \/ GivesUp
TurnSteps ==
  \/ Prepare \/ StopAtTop \/ LimitAtTop \/ Ask \/ Fit \/ StopAtModel \/ Again
  \/ StopInBatch \/ Record \/ NextRound
  \/ \E i \in Index : Start(i) \/ Withdraw(i) \/ ToolEnds(i)
LoopNext == TurnSteps \/ ModelReplies \/ ModelFails \/ Break \/ \E i \in Index : UserDecides(i)
=============================================================================
