-------------------------------- MODULE Flow --------------------------------
(***************************************************************************)
(* The run of one graph (core/graph/runtime.py, GraphInterpreter).          *)
(*                                                                         *)
(* A walk keeps the steps still to take on a stack, the next one first; a   *)
(* call walks its function with a stack of its own.  End, a failure, a stop *)
(* and a ceiling unwind every walk, a Return only the innermost one.  The   *)
(* editor is told when a node starts and when it is done.                   *)
(*                                                                         *)
(* Data is abstracted to who gave a call its results; conditions, counts    *)
(* and verdicts may go either way.                                          *)
(***************************************************************************)
EXTENDS Naturals, Sequences

CONSTANTS
  Node, None,
  Graph,    \* the compiled programs
  MaxNodes, \* max_nodes_executed
  MaxLaps   \* max_loop_iterations

Kind == {"plain", "sequence", "loop", "agent", "decision", "ask", "call", "return", "end"}

\* A program: where it starts, what each node is, who decides a decision (a
\* value it reads or a judge), its exec outputs in order (a decision's are true
\* and false, a loop's body and completed), the Entry a call jumps to.
Program ==
  [start : Node, kind : [Node -> Kind], mode : [Node -> {"bool", "judge"}],
   next : [Node -> Seq(Node \cup {None})], into : [Node -> Node]]

\* What compile_graph lets through, as far as the walk relies on it.
Wired(g) == \A n \in Node :
  /\ g.kind[n] \in {"loop", "decision"} => Len(g.next[n]) = 2
  /\ g.kind[n] \in {"plain", "agent", "ask", "call"} => Len(g.next[n]) = 1

ASSUME FlowAssumption ==
  /\ None \notin Node /\ MaxNodes \in Nat \ {0} /\ MaxLaps \in Nat \ {0}
  /\ Graph \subseteq Program /\ \A g \in Graph : Wired(g)

VARIABLES
  graph,    \* the program of this run
  frames,   \* the walks, the outermost first: the call that started it, the steps to take
  hand,     \* the node being executed, if it is not a call
  pulling,  \* the loop head on top is past its checkpoint and reads its count or condition
  reply,    \* what the executor made of it so far
  raised,   \* the exception on its way out
  cancel,   \* the stop flag
  executed, \* _executed
  handed,   \* per call: the event of the Return its results came from, 0 when it has none
  events    \* what the editor was told: which nodes are lit, the walk so far, the outcome

vars == <<graph, frames, hand, pulling, reply, raised, cancel, executed, handed, events>>

Visit(n) == IF n = None THEN <<>> ELSE <<[step |-> "visit", node |-> n, index |-> 0]>>
BranchOf(n, i) == <<[step |-> "branch", node |-> n, index |-> i]>>
HeadOf(n, i) == <<[step |-> "lap", node |-> n, index |-> i]>>
\* Only a loop has laps.
Step == {s \in [step : {"visit", "branch", "lap"}, node : Node, index : Nat] :
           s.step = "lap" => graph.kind[s.node] = "loop"}
Frame == [call : Node \cup {None}, todo : Seq(Step)]
Outcome == {"completed", "failed", "stopped", "exhausted"}
Told == [lit : SUBSET Node, log : Seq(Node \X (0..2)), status : Outcome \cup {"running"}]

TypeOK ==
  /\ graph \in Graph /\ frames \in Seq(Frame)
  /\ hand \in Node \cup {None} /\ pulling \in BOOLEAN
  /\ reply \in {"none", "open", "given", "bad", "leaving", "left"}
  /\ raised \in Outcome \cup {"", "return"} /\ cancel \in BOOLEAN
  /\ executed \in 0..MaxNodes /\ handed \in [Node -> Nat]
  /\ events \in Told

Init ==
  /\ graph \in Graph
  /\ frames = <<[call |-> None, todo |-> Visit(graph.start)]>>
  /\ hand = None /\ pulling = FALSE /\ reply = "none" /\ raised = "" /\ cancel = FALSE
  /\ executed = 0
  /\ handed = [n \in Node |-> 0]
  /\ events = [lit |-> {}, log |-> <<>>, status |-> "running"]

-----------------------------------------------------------------------------
Depth == Len(frames)
Todo == frames[Depth].todo
Top == Head(Todo)
IsKind(n, k) == n # None /\ graph.kind[n] = k
\* An executor is asked: not for a decision that reads a value.
Raced(n) ==
  \/ graph.kind[n] \in {"agent", "ask"}
  \/ graph.kind[n] = "decision" /\ graph.mode[n] = "judge"
Racing == hand # None /\ Raced(hand)

\* Steps are left to take, and no node is in hand: the next one is about to
\* be taken, or is a loop head that was.
HasNext == frames # <<>> /\ hand = None /\ raised = "" /\ Todo # <<>>
Idle == HasNext /\ ~pulling

\* Defect: the ceiling is looked at one node too late.
MayStepPast == executed <= MaxNodes /\ ~cancel
MayStep == executed < MaxNodes /\ ~cancel

\* The innermost stack with these steps on top, once `used` of it are gone.
Stack(used, steps) ==
  [frames EXCEPT ![Depth].todo = steps \o SubSeq(Todo, used + 1, Len(Todo))]
Tell(n, pick) == [events EXCEPT !.log = Append(@, <<n, pick>>)]

\* _checkpoint raises; the time ceiling may be over at any time.
Checkpoint ==
  /\ Idle
  /\ \/ cancel /\ raised' = "stopped"
     \/ ~cancel /\ raised' = "exhausted"
  /\ UNCHANGED <<graph, frames, hand, pulling, reply, cancel, executed, handed, events>>

\* _execute: the node counts and is lit before anything else.
Begin ==
  /\ Idle /\ MayStep /\ Top.step = "visit"
  /\ hand' = Top.node /\ frames' = Stack(1, <<>>) /\ executed' = executed + 1
  /\ reply' = IF Raced(Top.node) THEN "open" ELSE "none"
  /\ events' = [Tell(Top.node, 0) EXCEPT !.lit = @ \cup {Top.node}]
  /\ UNCHANGED <<graph, pulling, raised, cancel, handed>>

\* Defect: the first branch is already under way when the rest is put on top.
BranchAfter ==
  /\ Idle /\ MayStep /\ Top.step = "branch"
  /\ LET n == Top.node  i == Top.index + 1
     IN frames' = Stack(1, IF i > Len(graph.next[n]) THEN <<>>
                           ELSE BranchOf(n, i) \o Visit(graph.next[n][i]))
  /\ UNCHANGED <<graph, hand, pulling, reply, raised, cancel, executed, handed, events>>

\* _sequence_step: what continues goes below the branch it starts.
Branch ==
  /\ Idle /\ MayStep /\ Top.step = "branch"
  /\ LET n == Top.node  i == Top.index + 1
     IN frames' = Stack(1, IF i > Len(graph.next[n]) THEN <<>>
                           ELSE Visit(graph.next[n][i]) \o BranchOf(n, i))
  /\ UNCHANGED <<graph, hand, pulling, reply, raised, cancel, executed, handed, events>>

\* _loop_head awaits what its count, its condition or its items read.
Pull ==
  /\ Idle /\ MayStep /\ Top.step = "lap" /\ pulling' = TRUE
  /\ UNCHANGED <<graph, frames, hand, reply, raised, cancel, executed, handed, events>>

\* Then another lap, below the ceiling, or on to what comes after: whatever
\* happened meanwhile.
Lap ==
  /\ HasNext /\ pulling /\ Top.step = "lap" /\ pulling' = FALSE
  /\ LET n == Top.node  i == Top.index
     IN \/ /\ i < MaxLaps
           /\ frames' = Stack(1, Visit(graph.next[n][1]) \o HeadOf(n, i + 1))
           /\ events' = Tell(n, 1)
        \/ frames' = Stack(1, Visit(graph.next[n][2])) /\ events' = Tell(n, 2)
  /\ UNCHANGED <<graph, hand, reply, raised, cancel, executed, handed>>

-----------------------------------------------------------------------------
(* The node in hand.                                                       *)

\* It is done: reported, and the flow goes on with these steps.
Done(steps) ==
  /\ frames' = Stack(0, steps) /\ hand' = None /\ reply' = "none" /\ UNCHANGED raised
\* It leaves the walk: reported all the same, as failed unless it is End or Return.
Raise(what) ==
  /\ raised' = what /\ hand' = None /\ reply' = "none" /\ UNCHANGED frames
Off(n) == [events EXCEPT !.lit = @ \ {n}]
Quiet == UNCHANGED <<graph, pulling, cancel, executed>>

\* Start, Entry, Print, Set variable.
Pass ==
  /\ IsKind(hand, "plain") /\ Done(Visit(graph.next[hand][1]))
  /\ events' = Off(hand) /\ UNCHANGED handed /\ Quiet

Opens ==
  /\ \/ IsKind(hand, "sequence") /\ Done(BranchOf(hand, 0))
     \/ IsKind(hand, "loop") /\ Done(HeadOf(hand, 0))
  /\ events' = Off(hand) /\ UNCHANGED handed /\ Quiet

Ends ==
  /\ IsKind(hand, "end") /\ Raise("completed")
  /\ events' = Off(hand) /\ UNCHANGED handed /\ Quiet

\* A decision that reads a value takes its branch, without a look at the stop.
Decides ==
  /\ IsKind(hand, "decision") /\ ~Racing
  /\ \E k \in 1..Len(graph.next[hand]) :
       /\ Done(Visit(graph.next[hand][k]))
       /\ events' = [Off(hand) EXCEPT !.log = Append(@, <<hand, k>>)]
  /\ UNCHANGED handed /\ Quiet

\* A Return gives the call its results before it leaves the function.
Returns ==
  /\ IsKind(hand, "return") /\ Depth > 1 /\ Raise("return")
  /\ handed' = [handed EXCEPT ![frames[Depth].call] = Len(events.log)]
  /\ events' = Off(hand) /\ Quiet

\* Defect: what an earlier run of the same call left behind is not cleared.
CallsWithOldResults ==
  /\ IsKind(hand, "call")
  /\ frames' = Append(frames, [call |-> hand, todo |-> Visit(graph.into[hand])])
  /\ hand' = None /\ UNCHANGED <<raised, reply, events, handed>> /\ Quiet

\* _run_call: the results of an earlier run of this call go before the walk.
Calls ==
  /\ IsKind(hand, "call") /\ handed' = [handed EXCEPT ![hand] = 0]
  /\ frames' = Append(frames, [call |-> hand, todo |-> Visit(graph.into[hand])])
  /\ hand' = None /\ UNCHANGED <<raised, reply, events>> /\ Quiet

\* The executor's part: an agent ends well or badly, a judge answers (false
\* when it cannot), the user answers the question that is open; one that was
\* cancelled unwinds, if ever it does.
Reply ==
  /\ Racing
  /\ \/ reply = "open" /\ reply' \in IF IsKind(hand, "agent") THEN {"given", "bad"} ELSE {"given"}
     \/ reply = "leaving" /\ reply' = "left"
  /\ UNCHANGED <<graph, frames, hand, pulling, raised, cancel, executed, handed, events>>

\* Defect: what came back in the same tick as the stop counts.
AnswerFirst == reply = "given"
\* _race: the stop wins a tie.
AnswerCounts == reply = "given" /\ ~cancel
\* Defect: only a good end of the agent is waited for.
WellSettled == reply = "given" \/ cancel
\* Defect: the executor alone is waited for, and never cancelled.
SettledItself == reply \in {"given", "bad"}
\* _race wakes: the executor came back, or the run was told to stop.
Settled == reply \in {"given", "bad"} \/ cancel

\* The stop woke it: its finally cancels the executor and awaits its end.
LetGo ==
  /\ Racing /\ Settled /\ reply = "open" /\ reply' = "leaving"
  /\ UNCHANGED <<frames, hand, raised, handed, events>> /\ Quiet

Take ==
  /\ Racing /\ Settled /\ reply \notin {"open", "leaving"}
  /\ \/ /\ AnswerCounts
        /\ \E k \in 1..Len(graph.next[hand]) :
             /\ Done(Visit(graph.next[hand][k]))
             /\ events' = IF IsKind(hand, "decision")
                          THEN [Off(hand) EXCEPT !.log = Append(@, <<hand, k>>)]
                          ELSE Off(hand)
     \/ reply = "bad" /\ ~cancel /\ Raise("failed") /\ events' = Off(hand)
     \/ cancel /\ Raise("stopped") /\ events' = Off(hand)
  /\ UNCHANGED handed /\ Quiet

-----------------------------------------------------------------------------
(* The end of a walk.                                                      *)

Below(steps) ==
  [SubSeq(frames, 1, Depth - 1) EXCEPT ![Depth - 1].todo = steps \o @]
Caller == frames[Depth].call

\* A call is over, by a Return or because its walk has nothing left.
CallDone ==
  /\ Depth > 1 /\ hand = None /\ (raised = "return" \/ (raised = "" /\ Todo = <<>>))
  /\ frames' = Below(Visit(graph.next[Caller][1])) /\ raised' = ""
  /\ events' = Off(Caller)
  /\ UNCHANGED <<hand, reply, handed>> /\ Quiet

\* Defect: only the node that raised is reported, not the calls around it.
UnwindsSilently ==
  /\ Depth > 1 /\ raised \in Outcome
  /\ frames' = SubSeq(frames, 1, Depth - 1)
  /\ UNCHANGED <<hand, reply, raised, handed, events>> /\ Quiet

Unwinds ==
  /\ Depth > 1 /\ raised \in Outcome
  /\ frames' = SubSeq(frames, 1, Depth - 1) /\ events' = Off(Caller)
  /\ UNCHANGED <<hand, reply, raised, handed>> /\ Quiet

\* run: the outcome of the walk is the outcome of the run.
RunOver ==
  /\ Depth = 1 /\ hand = None /\ (raised \in Outcome \/ (raised = "" /\ Todo = <<>>))
  /\ frames' = <<>> /\ raised' = ""
  /\ events' = [events EXCEPT !.status = IF raised = "" THEN "completed" ELSE raised]
  /\ UNCHANGED <<hand, reply, handed>> /\ Quiet

\* request_stop: the flag, and an answer without words to a question that is
\* open; its executor may be back before the race looks, or not.
Stop ==
  /\ events.status = "running" /\ ~cancel /\ cancel' = TRUE
  /\ \/ IsKind(hand, "ask") /\ reply' = "given"
     \/ UNCHANGED reply
  /\ UNCHANGED <<graph, frames, hand, pulling, raised, executed, handed, events>>

Walk ==
  \/ Checkpoint \/ Begin \/ Branch \/ Pull \/ Lap
  \/ Pass \/ Opens \/ Decides \/ Ends \/ Returns \/ Calls \/ LetGo \/ Take
  \/ CallDone \/ Unwinds \/ RunOver

Next == Walk \/ Reply \/ Stop

\* The event loop runs the interpreter whenever it can go on; nothing is
\* promised of agents, judges and users, nor that a cancelled one ever unwinds.
Spec == Init /\ [][Next]_vars /\ WF_vars(Walk)

-----------------------------------------------------------------------------
(* Properties.                                                             *)

\* When the run is over no node is left lit, however deep in calls it ended
\* and whatever ended it.
NothingSpins == events.status # "running" => events.lit = {}

\* What a call hands on came from a Return of this very run of it: never from
\* an earlier lap's, whatever this one skipped.
CallsAreFresh ==
  \A c \in {n \in Node : graph.kind[n] = "call"} :
    c # hand /\ handed[c] # 0 => \A i \in handed[c]..Len(events.log) : events.log[i] # <<c, 0>>

\* What the stop finds past its checkpoint and out of any race.
InFlight == pulling \/ (IsKind(hand, "decision") /\ ~Racing)

\* Once the run was told to stop no node starts, no step is taken from a stack,
\* and what an executor still brings back is not taken.  One thing is let
\* through: a loop head or a decision that was reading its value goes on to the
\* one lap or branch it tells, and none is told after that.
AfterStop ==
  cancel => /\ executed' = executed
            /\ Idle => frames' = frames
            /\ Racing => raised' \in {raised, "stopped"} /\ frames' = frames
            /\ events'.log # events.log => InFlight
            /\ InFlight' => InFlight /\ events'.log = events.log
StopWins == [][AfterStop]_vars

\* A stop ends the run, also one that waits for a user or for an agent that is
\* cancelled then, unless that one never unwinds: the code awaits its end.
StopEnds == cancel ~> (events.status # "running" \/ [](reply = "leaving"))

\* Without one it ends too, at a ceiling if nowhere else, unless it waits for
\* an executor that never comes back, a user who never answers, or, after a
\* stop, an executor that never unwinds.
EndsOrWaits == <>(events.status # "running" \/ [](reply = "open") \/ [](reply = "leaving"))
=============================================================================
