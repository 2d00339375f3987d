------------------------------- MODULE Session -------------------------------
(***************************************************************************)
(* What the user's messages go through (app/service.py, CodeAIApplication). *)
(*                                                                         *)
(* A message typed while a turn runs steers it, or waits for an answer of   *)
(* its own; any other starts a turn.  Whoever started one goes on, when it  *)
(* ends, with what was left waiting, unless the turn was stopped: then that *)
(* is dropped.  Turns share one lock and one conversation, and a stop is    *)
(* announced before it raises the flag of the turn there is by then.        *)
(***************************************************************************)
EXTENDS TurnLoop

CONSTANT MaxStops  \* bound of the model: how often the user stops a turn

ASSUME SessionAssumption == MaxStops \in Nat

VARIABLES
  followups, \* _followups
  line,      \* the texts of those who wait for _turn_lock
  stopping,  \* cancel_current_turn has announced the stop and not yet raised the flag
  past       \* what was typed, what a stop dropped, how often a stop was pressed

sessionVars == <<followups, line, stopping, past>>
vars == <<conv, turn, batch, queue, followups, line, stopping, past>>

TypeOK ==
  /\ LoopTypeOK
  /\ followups \in Seq(Message) /\ line \in Seq(SUBSET Message) /\ stopping \in BOOLEAN
  /\ past \in [typed : 0..MaxMessages, dropped : SUBSET Message, stops : 0..MaxStops]

Init ==
  /\ LoopInit
  /\ followups = <<>> /\ line = <<>> /\ stopping = FALSE
  /\ past = [typed |-> 0, dropped |-> {}, stops |-> 0]

Texts(s) == {s[i] : i \in 1..Len(s)}

\* submit_user_message: into the running turn, into the line of those that
\* wait, or a turn of its own as soon as the lock is free.
Submit(m) ==
  /\ m = past.typed + 1 /\ past' = [past EXCEPT !.typed = m]
  /\ \/ Running /\ queue' = Append(queue, m) /\ UNCHANGED <<turn, followups, line>>
     \/ Running /\ followups' = Append(followups, m) /\ UNCHANGED <<turn, queue, line>>
     \/ /\ turn.at = "off" /\ line = <<>>
        /\ turn' = NewTurn({m})
        /\ UNCHANGED <<queue, followups, line>>
     \/ /\ turn.at = "done" \/ (turn.at = "off" /\ line # <<>>)
        /\ line' = Append(line, {m})
        /\ UNCHANGED <<turn, queue, followups>>
  /\ UNCHANGED <<conv, batch, stopping>>

\* The lock goes to the first who waits for it.
StartTurn ==
  /\ turn.at = "off" /\ line # <<>>
  /\ turn' = NewTurn(Head(line)) /\ line' = Tail(line)
  /\ UNCHANGED <<conv, batch, queue, followups, stopping, past>>

\* A turn of its own for what is left: at once if nobody waits for the lock.
GoOnWith(text) ==
  IF line = <<>> THEN turn' = NewTurn(text) /\ UNCHANGED line
  ELSE turn' = NoTurn(turn.no) /\ line' = Append(line, text)

\* Defect: only messages that steer are looked at when a turn ends.
SteeringLeft == queue # <<>>
Left == queue # <<>> \/ followups # <<>>

\* submit_user_message once its turn returned or raised: queued messages go
\* on together, those that wait one by one.
TurnReturns ==
  /\ turn.at = "done"
  /\ \/ /\ turn.end = "cancelled"
        /\ queue' = <<>> /\ followups' = <<>>
        /\ past' = [past EXCEPT !.dropped = @ \cup Texts(queue) \cup Texts(followups)]
        /\ turn' = NoTurn(turn.no) /\ UNCHANGED line
     \/ /\ turn.end = "raised"
        /\ turn' = [NoTurn(turn.no) EXCEPT !.end = "raised"]
        /\ UNCHANGED <<queue, followups, line, past>>
     \/ /\ turn.end \notin {"cancelled", "raised"} /\ ~Left
        /\ turn' = NoTurn(turn.no)
        /\ UNCHANGED <<queue, followups, line, past>>
     \/ /\ turn.end \notin {"cancelled", "raised"} /\ Left /\ queue # <<>>
        /\ queue' = <<>> /\ UNCHANGED <<followups, past>>
        /\ GoOnWith(Texts(queue))
     \/ /\ turn.end \notin {"cancelled", "raised"} /\ Left /\ queue = <<>>
        /\ followups' = Tail(followups) /\ UNCHANGED <<queue, past>>
        /\ GoOnWith({Head(followups)})
  /\ UNCHANGED <<conv, batch, stopping>>

\* answer_followup_now: it stops waiting and steers.
Promote(i) ==
  /\ Running /\ i \in 1..Len(followups)
  /\ queue' = Append(queue, followups[i])
  /\ followups' = SubSeq(followups, 1, i - 1) \o SubSeq(followups, i + 1, Len(followups))
  /\ UNCHANGED <<conv, turn, batch, line, stopping, past>>

\* cancel_current_turn: the stop is announced, and then raises the flag of
\* the turn there is by then, if there is one.
PressStop ==
  /\ turn.at # "off" /\ ~stopping /\ past.stops < MaxStops
  /\ stopping' = TRUE /\ past' = [past EXCEPT !.stops = @ + 1]
  /\ UNCHANGED <<conv, turn, batch, queue, followups, line>>

StopLands ==
  /\ stopping /\ stopping' = FALSE
  /\ turn' = IF Running THEN [turn EXCEPT !.cancel = TRUE] ELSE turn
  /\ UNCHANGED <<conv, batch, queue, followups, line, past>>

Loop(step) == step /\ UNCHANGED sessionVars

Next ==
  \/ Loop(LoopNext)
  \/ \E m \in Message : Submit(m)
  \/ \E i \in 1..Len(followups) : Promote(i)
  \/ StartTurn \/ TurnReturns \/ PressStop \/ StopLands

\* The event loop runs every coroutine that can run; a tool ends, at the
\* latest when its guard ends it (_guarded_execute), and the stream of a reply
\* says something or is given up (model_timeout).  A compaction ends because
\* its request for a summary does: the code looks at no stop meanwhile and has
\* no timeout of its own there, so that is the provider's.
Scheduled ==
  /\ WF_vars(Loop(TurnSteps)) /\ WF_vars(StartTurn) /\ WF_vars(TurnReturns)
  /\ WF_vars(StopLands)

Spec == Init /\ [][Next]_vars /\ Scheduled

-----------------------------------------------------------------------------
(* Properties.                                                             *)

Places(m) ==
  {<<"conv", i>> : i \in {k \in 1..Len(conv) : m \in conv[k].said}}
    \cup {<<"queue", i>> : i \in {k \in 1..Len(queue) : queue[k] = m}}
    \cup {<<"followups", i>> : i \in {k \in 1..Len(followups) : followups[k] = m}}
    \cup {<<"line", i>> : i \in {k \in 1..Len(line) : m \in line[k]}}
    \cup {<<"turn", 0>> : x \in {y \in {m} : y \in turn.text}}
    \cup {<<"dropped", 0>> : x \in {y \in {m} : y \in past.dropped}}

\* What the user typed is in exactly one place, the conversation, a queue, the
\* hands of whoever waits for the lock or among what a stop dropped: whatever
\* ends a turn, and in whatever order, nothing is lost or said twice.
EachOnce == \A m \in 1..past.typed : Cardinality(Places(m)) = 1

\* No result is separated from the call it answers, by a compaction or by
\* anything that was said in between.  Without tools that return an image: the
\* user message that shows one (_deliver_tool_images) is written between the
\* results of its batch, and would make this false.
ResultsFollowCalls ==
  \A i \in 1..Len(conv) : conv[i].role = "tool" =>
    \E k \in 1..i - 1 : /\ conv[i].calls \subseteq conv[k].calls /\ conv[k].role = "assistant"
                          /\ \A j \in k + 1..i : conv[j].role = "tool"

\* The results of the assistant's k-th message, as far as they follow it.
Answered(k) == {i \in k + 1..Len(conv) : \A j \in k + 1..i : conv[j].role = "tool"}
AnsweredInFull(k) ==
  /\ Cardinality(Answered(k)) = Cardinality(conv[k].calls)
  /\ UNION {conv[i].calls : i \in Answered(k)} = conv[k].calls
Of(no) == {k \in 1..Len(conv) : conv[k].role = "assistant" /\ \A id \in conv[k].calls : id[1] = no}

\* When the model is asked again, every call this turn made has one result,
\* also after rounds that something unexpected broke.
RoundsClosed ==
  turn.at = "model" => \A k \in Of(turn.no) : AnsweredInFull(k)

\* "An assistant message whose calls have no results is a shape strict
\* providers refuse": no request has one.
RequestsComplete ==
  turn.at = "model" =>
    \A k \in 1..Len(conv) : conv[k].role = "assistant" => AnsweredInFull(k)

\* A stopped turn ends, also if neither the model nor the user ever answers.
StopEndsTurn == turn.cancel ~> ~turn.cancel

ModelAnswers == SF_vars(Loop(ModelReplies))
UserAnswers == WF_vars(Loop(\E i \in Index : UserDecides(i)))

\* As long as model and user answer, what was typed reaches the conversation,
\* or a stop drops it; only a turn that raised leaves messages waiting.
Heard ==
  ModelAnswers /\ UserAnswers =>
    \A m \in Message : m <= past.typed ~>
      m \in SaidIn(conv) \cup past.dropped \/ turn.end = "raised"
=============================================================================
