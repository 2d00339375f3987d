----------------------------- MODULE FlowProofs -----------------------------
(***************************************************************************)
(* Proofs about the run of a graph, for any set of programs, any ceilings   *)
(* and any depth of calls.                                                 *)
(*                                                                         *)
(* That the walk follows the call tree needs three things more: that the    *)
(* recursive reading of a log exists and only looks ahead (an induction on  *)
(* how much of the log is left, over a set of numbers); what the steps on   *)
(* the stacks lead to, a table per walk chained through its steps (Leads)   *)
(* and through the calls around it (Nest); and the invariant Tracks, that   *)
(* any log which goes on from what was told leads, read from the start, to  *)
(* where the stacks lead from here.                                         *)
(***************************************************************************)
EXTENDS FlowOrder, SequenceTheorems, WellFoundedInduction, TLAPS

\* The outermost walk is nobody's call, every other one is a Call node's.
Walks ==
  /\ frames # <<>> => frames[1].call = None
  /\ \A i \in 2..Len(frames) : frames[i].call \in Node /\ graph.kind[frames[i].call] = "call"

\* What is in hand started last, and nothing is being raised meanwhile.
InHand ==
  hand # None =>
    /\ frames # <<>> /\ raised = ""
    /\ events.log # <<>> /\ events.log[Len(events.log)] = <<hand, 0>>

\* Only what is in hand, or a call whose walk is under way, is lit.
LitIsOpen ==
  \A n \in events.lit : n = hand \/ \E i \in 2..Len(frames) : frames[i].call = n

OverIsEmpty == events.status # "running" => frames = <<>>

HandedBefore == \A c \in Node : handed[c] <= Len(events.log)

FlowInv ==
  TypeOK /\ Walks /\ InHand /\ LitIsOpen /\ OverIsEmpty /\ HandedBefore /\ CallsAreFresh

-----------------------------------------------------------------------------
(* Stacks and events.                                                      *)

\* The steps a walk is given are steps of a program.
LEMMA StepsTyped ==
  /\ \A n \in Node \cup {None} : Visit(n) \in Seq(Step)
  /\ \A n \in Node, i \in Nat :
       BranchOf(n, i) \in Seq(Step) /\ (graph.kind[n] = "loop" => HeadOf(n, i) \in Seq(Step))
  <1>1. \A n \in Node, i \in Nat :
          /\ [step |-> "visit", node |-> n, index |-> 0] \in Step
          /\ [step |-> "branch", node |-> n, index |-> i] \in Step
          /\ graph.kind[n] = "loop" => [step |-> "lap", node |-> n, index |-> i] \in Step
    BY DEF Step
  <1>2. \A s \in Step : <<s>> \in Seq(Step)
    OBVIOUS
  <1>3. <<>> \in Seq(Step)
    OBVIOUS
  <1>4. QED
    BY <1>1, <1>2, <1>3, Zenon DEF Visit, BranchOf, HeadOf

\* What a program's nodes lead to.
LEMMA Wires ==
  ASSUME NEW g \in Graph, NEW n \in Node
  PROVE  /\ g.next[n] \in Seq(Node \cup {None}) /\ Len(g.next[n]) \in Nat
         /\ g.into[n] \in Node /\ g.kind[n] \in Kind
         /\ \A i \in 1..Len(g.next[n]) : g.next[n][i] \in Node \cup {None}
         /\ g.kind[n] \in {"loop", "decision"} => Len(g.next[n]) = 2
         /\ g.kind[n] \in {"plain", "agent", "ask", "call"} => Len(g.next[n]) = 1
  <1>1. g \in Program /\ Wired(g)
    BY FlowAssumption
  <1>2. /\ g.next \in [Node -> Seq(Node \cup {None})] /\ g.into \in [Node -> Node]
        /\ g.kind \in [Node -> Kind]
    BY <1>1 DEF Program
  <1>3. g.next[n] \in Seq(Node \cup {None}) /\ g.into[n] \in Node /\ g.kind[n] \in Kind
    BY <1>2
  <1>4. \A i \in 1..Len(g.next[n]) : g.next[n][i] \in Node \cup {None}
    BY <1>3, ElementOfSeq
  <1>5. QED
    BY <1>1, <1>3, <1>4, LenProperties DEF Wired

\* What compile_graph guarantees of a decision, a loop and a plain node.
LEMMA Successors ==
  ASSUME TypeOK, NEW n \in Node
  PROVE  /\ graph.next[n] \in Seq(Node \cup {None}) /\ graph.into[n] \in Node
         /\ \A i \in 1..Len(graph.next[n]) : graph.next[n][i] \in Node \cup {None}
         /\ graph.kind[n] \in {"loop", "decision"} => Len(graph.next[n]) = 2
         /\ graph.kind[n] \in {"plain", "agent", "ask", "call"} => Len(graph.next[n]) = 1
  BY Wires DEF TypeOK

\* Steps on top of the innermost stack leave every walk's call as it is.
LEMMA StackKeeps ==
  ASSUME TypeOK, frames # <<>>, NEW used \in {0, 1}, used <= Len(Todo), NEW steps \in Seq(Step)
  PROVE  /\ Stack(used, steps) \in Seq(Frame)
         /\ Len(Stack(used, steps)) = Len(frames)
         /\ \A i \in 1..Len(frames) : Stack(used, steps)[i].call = frames[i].call
  <1>1. frames \in Seq(Frame) /\ Depth \in 1..Len(frames)
    <2>1. frames \in Seq(Frame)
      BY DEF TypeOK
    <2>2. Len(frames) \in Nat \ {0}
      BY <2>1, EmptySeq
    <2>3. QED
      BY <2>1, <2>2 DEF Depth
  <1>2. frames[Depth] \in Frame
    BY <1>1, ElementOfSeq
  <1>3. Todo \in Seq(Step)
    BY <1>2 DEF Todo, Frame
  <1>4. SubSeq(Todo, used + 1, Len(Todo)) \in Seq(Step)
    <2>1. \A i \in used + 1..Len(Todo) : Todo[i] \in Step
      BY <1>3, ElementOfSeq, LenProperties
    <2>2. Len(Todo) \in Nat
      BY <1>3, LenProperties
    <2>3. QED
      BY <2>1, <2>2, SubSeqProperties
  <1>5. steps \o SubSeq(Todo, used + 1, Len(Todo)) \in Seq(Step)
    BY <1>4, ConcatProperties
  <1> DEFINE rest == steps \o SubSeq(Todo, used + 1, Len(Todo))
             new == [frames[Depth] EXCEPT !.todo = rest]
  <1>6. new \in Frame /\ new.call = frames[Depth].call
    BY <1>2, <1>5 DEF Frame
  <1>7. Stack(used, steps) = [frames EXCEPT ![Depth] = new]
    BY DEF Stack
  <1>8. /\ [frames EXCEPT ![Depth] = new] \in Seq(Frame)
        /\ Len([frames EXCEPT ![Depth] = new]) = Len(frames)
        /\ \A j \in 1..Len(frames) :
             [frames EXCEPT ![Depth] = new][j] = IF j = Depth THEN new ELSE frames[j]
    <2> HIDE DEF new
    <2>1. QED
      BY <1>1, <1>6, ExceptSeq
  <1>9. QED
    BY <1>6, <1>7, <1>8

\* What an event changes of what the editor was told.
LEMMA EventsTyped ==
  ASSUME TypeOK, NEW n \in Node
  PROVE  /\ \A pick \in 0..2 :
              /\ Tell(n, pick) \in Told
              /\ Tell(n, pick).lit = events.lit /\ Tell(n, pick).status = events.status
              /\ Tell(n, pick).log = Append(events.log, <<n, pick>>)
         /\ Off(n) \in Told /\ Off(n).lit = events.lit \ {n}
         /\ Off(n).log = events.log /\ Off(n).status = events.status
  <1>1. events \in Told
    BY DEF TypeOK
  <1>2. events.log \in Seq(Node \X (0..2)) /\ events.lit \in SUBSET Node
    BY <1>1 DEF Told
  <1>3. ASSUME NEW pick \in 0..2
        PROVE  Append(events.log, <<n, pick>>) \in Seq(Node \X (0..2))
    <2>1. <<n, pick>> \in Node \X (0..2)
      OBVIOUS
    <2>2. QED
      BY <1>2, <2>1, AppendProperties
  <1>4. \A log \in Seq(Node \X (0..2)) :
          /\ [events EXCEPT !.log = log] \in Told
          /\ [events EXCEPT !.log = log].lit = events.lit
          /\ [events EXCEPT !.log = log].status = events.status
          /\ [events EXCEPT !.log = log].log = log
    BY <1>1 DEF Told
  <1>5. ASSUME NEW pick \in 0..2
        PROVE  /\ Tell(n, pick) \in Told
               /\ Tell(n, pick).lit = events.lit /\ Tell(n, pick).status = events.status
               /\ Tell(n, pick).log = Append(events.log, <<n, pick>>)
    BY <1>3, <1>4 DEF Tell
  <1>6. /\ Off(n) \in Told /\ Off(n).lit = events.lit \ {n}
        /\ Off(n).log = events.log /\ Off(n).status = events.status
    BY <1>1, <1>2 DEF Told, Off
  <1>7. QED
    BY <1>5, <1>6

\* A walk goes on with the same calls around it.
SameWalks ==
  /\ frames' \in Seq(Frame) /\ Len(frames') = Len(frames)
  /\ \A i \in 1..Len(frames) : frames'[i].call = frames[i].call

\* Such a step keeps the walks well formed, and what is lit inside an open walk.
LEMMA SameWalksKeep ==
  ASSUME FlowInv, SameWalks, UNCHANGED graph,
         \A n \in events'.lit : n = hand' \/ (n \in events.lit /\ n # hand)
  PROVE  Walks' /\ LitIsOpen' /\ (frames # <<>> => frames' # <<>>)
  <1>1. frames \in Seq(Frame) /\ frames' \in Seq(Frame) /\ Len(frames) \in Nat
    BY LenProperties DEF FlowInv, TypeOK, SameWalks
  <1>2. (frames = <<>> <=> Len(frames) = 0) /\ (frames' = <<>> <=> Len(frames') = 0)
    BY <1>1, EmptySeq
  <1>3. Walks'
    BY <1>1, <1>2 DEF FlowInv, Walks, SameWalks
  <1>4. LitIsOpen'
    BY <1>1 DEF FlowInv, LitIsOpen, SameWalks
  <1>5. QED
    BY <1>2, <1>3, <1>4 DEF SameWalks

\* Events other than the start of a call leave the calls' results as fresh as
\* they were.
LEMMA FreshKept ==
  ASSUME FlowInv, UNCHANGED <<graph, handed>>,
         IsKind(hand, "call") => hand' = hand,
         \/ events'.log = events.log
         \/ \E e \in Node \X (0..2) :
              /\ events'.log = Append(events.log, e)
              /\ e[2] = 0 => e[1] = hand'
  PROVE  HandedBefore' /\ CallsAreFresh'
  <1>1. /\ events.log \in Seq(Node \X (0..2)) /\ Len(events.log) \in Nat
        /\ handed \in [Node -> Nat] /\ graph.kind \in [Node -> Kind]
    <2>1. graph \in Program
      BY FlowAssumption DEF FlowInv, TypeOK
    <2>2. events.log \in Seq(Node \X (0..2)) /\ handed \in [Node -> Nat]
      BY DEF FlowInv, TypeOK, Told
    <2>3. QED
      BY <2>1, <2>2, LenProperties DEF Program
  <1>2. ASSUME NEW c \in Node, graph.kind[c] = "call", c # hand', handed[c] # 0
        PROVE  c # hand
    BY <1>2, FlowAssumption DEF IsKind
  <1>3. CASE events'.log = events.log
    BY <1>1, <1>2, <1>3 DEF FlowInv, HandedBefore, CallsAreFresh
  <1>4. CASE \E e \in Node \X (0..2) :
               events'.log = Append(events.log, e) /\ (e[2] = 0 => e[1] = hand')
    <2>1. PICK e \in Node \X (0..2) :
            events'.log = Append(events.log, e) /\ (e[2] = 0 => e[1] = hand')
      BY <1>4
    <2>2. /\ Len(events'.log) = Len(events.log) + 1
          /\ \A i \in 1..Len(events.log) : events'.log[i] = events.log[i]
          /\ events'.log[Len(events.log) + 1] = e
      BY <1>1, <2>1, AppendProperties
    <2>3. HandedBefore'
      BY <1>1, <2>2 DEF FlowInv, HandedBefore
    <2>4. ASSUME NEW c \in Node, graph.kind[c] = "call", c # hand', handed[c] # 0,
                 NEW i \in handed[c]..Len(events'.log)
          PROVE  events'.log[i] # <<c, 0>>
      <3>1. CASE i = Len(events.log) + 1
        BY <2>1, <2>2, <2>4, <3>1
      <3>2. CASE i # Len(events.log) + 1
        <4>1. i \in handed[c]..Len(events.log) /\ i \in 1..Len(events.log)
          BY <1>1, <2>2, <2>4, <3>2
        <4>2. c # hand
          BY <1>2, <2>4
        <4>3. events.log[i] # <<c, 0>>
          BY <2>4, <4>1, <4>2 DEF FlowInv, CallsAreFresh
        <4>4. QED
          BY <2>2, <4>1, <4>3
      <3>3. QED
        BY <3>1, <3>2
    <2>5. CallsAreFresh'
      BY <2>4 DEF CallsAreFresh
    <2>6. QED
      BY <2>3, <2>5
  <1>5. QED
    BY <1>3, <1>4

-----------------------------------------------------------------------------
(* The steps of a walk.                                                    *)

\* Between two steps: a ceiling or a stop, a node, a branch or a lap begins.
LEMMA StepsKeep ==
  ASSUME FlowInv, Checkpoint \/ Begin \/ Branch \/ Pull \/ Lap
  PROVE  FlowInv'
  <1>1. TypeOK /\ hand = None /\ frames # <<>> /\ raised = "" /\ Todo # <<>>
    BY DEF FlowInv, Checkpoint, Begin, Branch, Pull, Lap, Idle, HasNext
  <1>2. Todo \in Seq(Step) /\ Top \in Step /\ Len(Todo) \in Nat /\ 1 <= Len(Todo)
    <2>1. frames \in Seq(Frame) /\ Len(frames) \in Nat \ {0}
      BY <1>1, EmptySeq DEF TypeOK
    <2>2. frames[Depth] \in Frame
      BY <2>1, ElementOfSeq DEF Depth
    <2>3. Todo \in Seq(Step)
      BY <2>2 DEF Todo, Frame
    <2>4. Len(Todo) \in Nat \ {0}
      BY <1>1, <2>3, EmptySeq
    <2>5. Top \in Step
      BY <1>1, <2>3, HeadTailProperties DEF Top
    <2>6. QED
      BY <2>3, <2>4, <2>5
  <1>3. Top.node \in Node /\ Top.index \in Nat
    BY <1>2 DEF Step
  <1>4. events.status = "running"
    BY <1>1 DEF FlowInv, OverIsEmpty
  <1>5. ASSUME NEW steps \in Seq(Step), frames' = Stack(1, steps)
        PROVE  SameWalks
    BY <1>1, <1>2, <1>5, StackKeeps DEF SameWalks
  <1>6. CASE Checkpoint
    <2>1. UNCHANGED <<graph, frames, hand, pulling, reply, cancel, executed, handed, events>>
      BY <1>6 DEF Checkpoint
    <2>2. raised' \in Outcome
      BY <1>6 DEF Checkpoint, Outcome
    <2>3. TypeOK'
      BY <1>1, <2>1, <2>2 DEF TypeOK, Frame, Step
    <2>4. QED
      BY <1>1, <2>1, <2>3
         DEF FlowInv, Walks, InHand, LitIsOpen, OverIsEmpty, HandedBefore, CallsAreFresh
  <1>7. CASE Begin
    <2> DEFINE n == Top.node
    <2>1. SameWalks
      <3>1. <<>> \in Seq(Step)
        OBVIOUS
      <3>2. QED
        BY <1>5, <1>7, <3>1 DEF Begin
    <2>2. /\ Tell(n, 0) \in Told /\ Tell(n, 0).lit = events.lit
          /\ Tell(n, 0).status = events.status /\ Tell(n, 0).log = Append(events.log, <<n, 0>>)
      <3>1. 0 \in 0..2
        OBVIOUS
      <3>2. QED
        BY <1>1, <1>3, <3>1, EventsTyped
    <2>3. /\ events' \in Told /\ events'.lit = events.lit \cup {n}
          /\ events'.status = events.status /\ events'.log = Append(events.log, <<n, 0>>)
      <3>1. \A told \in Told :
              /\ [told EXCEPT !.lit = @ \cup {n}] \in Told
              /\ [told EXCEPT !.lit = @ \cup {n}].lit = told.lit \cup {n}
              /\ [told EXCEPT !.lit = @ \cup {n}].status = told.status
              /\ [told EXCEPT !.lit = @ \cup {n}].log = told.log
        BY <1>3 DEF Told
      <3>2. events' = [Tell(n, 0) EXCEPT !.lit = @ \cup {n}]
        BY <1>7 DEF Begin
      <3>3. QED
        BY <2>2, <3>1, <3>2
    <2>4. TypeOK'
      <3>1. frames' \in Seq(Frame)'
        BY <1>7, <2>1 DEF Begin, SameWalks, Frame, Step
      <3>2. executed' \in 0..MaxNodes
        <4>1. executed \in 0..MaxNodes /\ executed < MaxNodes /\ executed' = executed + 1
          BY <1>1, <1>7 DEF Begin, MayStep, TypeOK
        <4>2. MaxNodes \in Nat
          BY FlowAssumption
        <4>3. QED
          BY <4>1, <4>2
      <3>3. reply' \in {"none", "open", "given", "bad", "leaving", "left"} /\ hand' \in Node \cup {None}
        BY <1>3, <1>7 DEF Begin
      <3>4. QED
        BY <1>1, <1>7, <2>3, <3>1, <3>2, <3>3 DEF Begin, TypeOK
    <2>5. UNCHANGED <<graph, handed, raised>> /\ hand' = n /\ n # None
      BY <1>3, <1>7, FlowAssumption DEF Begin
    <2>6. Walks' /\ LitIsOpen' /\ frames' # <<>>
      <3>1. \A m \in events'.lit : m = hand' \/ (m \in events.lit /\ m # hand)
        BY <1>1, <2>3, <2>5, FlowAssumption DEF TypeOK, Told
      <3>2. QED
        BY <1>1, <2>1, <2>5, <3>1, SameWalksKeep
    <2>7. HandedBefore' /\ CallsAreFresh'
      <3>1. <<n, 0>> \in Node \X (0..2) /\ <<n, 0>>[1] = hand'
        BY <1>3, <2>5
      <3>2. ~IsKind(hand, "call")
        BY <1>1 DEF IsKind
      <3>3. QED
        BY <2>3, <2>5, <3>1, <3>2, FreshKept
    <2>8. InHand'
      <3>1. events.log \in Seq(Node \X (0..2)) /\ <<n, 0>> \in Node \X (0..2)
        <4>1. events.log \in Seq(Node \X (0..2))
          BY <1>1 DEF TypeOK, Told
        <4>2. <<n, 0>> \in Node \X (0..2)
          BY <1>3
        <4>3. QED
          BY <4>1, <4>2
      <3>2. /\ events'.log # <<>> /\ Len(events'.log) = Len(events.log) + 1
            /\ events'.log[Len(events.log) + 1] = <<n, 0>>
        <4>1. \A e \in Node \X (0..2) :
                /\ Append(events.log, e) # <<>>
                /\ Len(Append(events.log, e)) = Len(events.log) + 1
                /\ Append(events.log, e)[Len(events.log) + 1] = e
          BY <3>1, AppendProperties
        <4>2. QED
          BY <2>3, <3>1, <4>1
      <3>3. QED
        BY <1>1, <2>5, <2>6, <3>2 DEF InHand
    <2>9. QED
      BY <1>4, <2>3, <2>4, <2>6, <2>7, <2>8 DEF FlowInv, OverIsEmpty
  <1>8. ASSUME NEW n \in Node, n = Top.node
        PROVE  \A i \in 1..Len(graph.next[n]) : Visit(graph.next[n][i]) \in Seq(Step)
    BY <1>1, Successors, StepsTyped
  <1>9. CASE Branch
    <2> DEFINE n == Top.node
               i == Top.index + 1
               steps == IF i > Len(graph.next[n]) THEN <<>>
                        ELSE Visit(graph.next[n][i]) \o BranchOf(n, i)
    <2>1. steps \in Seq(Step)
      <3>1. <<>> \in Seq(Step)
        OBVIOUS
      <3>2. ASSUME ~(i > Len(graph.next[n]))
            PROVE  Visit(graph.next[n][i]) \o BranchOf(n, i) \in Seq(Step)
        <4>1. graph.next[n] \in Seq(Node \cup {None})
          BY <1>1, <1>3, Successors
        <4>2. Len(graph.next[n]) \in Nat
          BY <4>1, LenProperties
        <4>3. i \in 1..Len(graph.next[n]) /\ i \in Nat
          BY <1>3, <3>2, <4>2
        <4>4. Visit(graph.next[n][i]) \in Seq(Step) /\ BranchOf(n, i) \in Seq(Step)
          BY <1>3, <1>8, <4>3, StepsTyped
        <4>5. QED
          BY <4>4, ConcatProperties
      <3>3. QED
        BY <3>1, <3>2
    <2>2. frames' = Stack(1, steps)
      BY <1>9 DEF Branch
    <2>3. SameWalks
      BY <1>5, <2>1, <2>2
    <2>4. UNCHANGED <<graph, hand, pulling, reply, raised, cancel, executed, handed, events>>
      BY <1>9 DEF Branch
    <2>5. TypeOK'
      BY <1>1, <2>3, <2>4 DEF TypeOK, SameWalks, Frame, Step
    <2>6. Walks' /\ LitIsOpen'
      <3>1. \A m \in events'.lit : m \in events.lit /\ m # hand
        BY <1>1, <2>4, FlowAssumption DEF TypeOK, Told
      <3>2. QED
        BY <2>3, <2>4, <3>1, SameWalksKeep
    <2>7. QED
      BY <1>1, <1>4, <2>4, <2>5, <2>6
         DEF FlowInv, InHand, OverIsEmpty, HandedBefore, CallsAreFresh
  <1>10. CASE Lap
    <2> DEFINE n == Top.node
               i == Top.index
    <2>1. /\ Visit(graph.next[n][1]) \in Seq(Step) /\ Visit(graph.next[n][2]) \in Seq(Step)
          /\ HeadOf(n, i + 1) \in Seq(Step)
      <3>1. graph.kind[n] = "loop"
        BY <1>2, <1>10 DEF Step, Lap
      <3>2. Len(graph.next[n]) = 2
        BY <1>1, <1>3, <3>1, Successors
      <3>3. 1 \in 1..Len(graph.next[n]) /\ 2 \in 1..Len(graph.next[n]) /\ i + 1 \in Nat
        BY <1>3, <3>2
      <3>4. QED
        BY <1>3, <1>8, <3>1, <3>3, StepsTyped
    <2>2. PICK pick \in {1, 2}, steps \in Seq(Step) :
            frames' = Stack(1, steps) /\ events' = Tell(n, pick)
      <3>1. Visit(graph.next[n][1]) \o HeadOf(n, i + 1) \in Seq(Step)
        BY <2>1, ConcatProperties
      <3>2. QED
        BY <1>10, <2>1, <3>1 DEF Lap
    <2>3. /\ events' \in Told /\ events'.lit = events.lit /\ events'.status = events.status
          /\ events'.log = Append(events.log, <<n, pick>>)
      <3>1. pick \in 0..2
        BY <2>2
      <3>2. QED
        BY <1>1, <1>3, <2>2, <3>1, EventsTyped
    <2>4. SameWalks
      BY <1>5, <2>2
    <2>5. UNCHANGED <<graph, hand, reply, raised, cancel, executed, handed>> /\ pulling' = FALSE
      BY <1>10 DEF Lap
    <2>6. TypeOK'
      BY <1>1, <2>3, <2>4, <2>5 DEF TypeOK, SameWalks, Frame, Step
    <2>7. Walks' /\ LitIsOpen'
      <3>1. \A m \in events'.lit : m \in events.lit /\ m # hand
        BY <1>1, <2>3, FlowAssumption DEF TypeOK, Told
      <3>2. QED
        BY <2>4, <2>5, <3>1, SameWalksKeep
    <2>8. HandedBefore' /\ CallsAreFresh'
      <3>1. <<n, pick>> \in Node \X (0..2) /\ <<n, pick>>[2] # 0
        BY <1>3, <2>2
      <3>2. QED
        BY <2>3, <2>5, <3>1, FreshKept
    <2>9. QED
      BY <1>1, <1>4, <2>3, <2>5, <2>6, <2>7, <2>8 DEF FlowInv, InHand, OverIsEmpty
  <1>11. CASE Pull
    <2>1. /\ UNCHANGED <<graph, frames, hand, reply, raised, cancel, executed, handed, events>>
          /\ pulling' = TRUE
      BY <1>11 DEF Pull
    <2>2. TypeOK'
      BY <1>1, <2>1 DEF TypeOK, Frame, Step
    <2>3. QED
      BY <1>1, <2>1, <2>2
         DEF FlowInv, Walks, InHand, LitIsOpen, OverIsEmpty, HandedBefore, CallsAreFresh
  <1>12. QED
    BY <1>6, <1>7, <1>9, <1>10, <1>11

-----------------------------------------------------------------------------
(* The node in hand.                                                       *)

\* A node in hand is one of the program's, and its walk is there.
LEMMA Holding ==
  ASSUME FlowInv, hand # None
  PROVE  /\ TypeOK /\ hand \in Node /\ frames # <<>> /\ raised = ""
         /\ frames \in Seq(Frame) /\ Len(frames) \in Nat \ {0}
         /\ Todo \in Seq(Step) /\ Len(Todo) \in Nat /\ events.status = "running"
  <1>1. TypeOK /\ hand \in Node /\ frames # <<>> /\ raised = ""
    BY DEF FlowInv, TypeOK, InHand
  <1>2. frames \in Seq(Frame)
    BY <1>1 DEF TypeOK
  <1>3. Len(frames) \in Nat \ {0}
    BY <1>1, <1>2, EmptySeq
  <1>4. frames[Depth] \in Frame
    BY <1>2, <1>3, ElementOfSeq DEF Depth
  <1>5. Todo \in Seq(Step)
    BY <1>4 DEF Todo, Frame
  <1>6. events.status = "running"
    BY <1>1 DEF FlowInv, OverIsEmpty
  <1>7. QED
    BY <1>1, <1>2, <1>3, <1>5, <1>6, LenProperties

\* Whether it is done or raises, a node leaves the hand and is reported.
LEMMA HandLeaves ==
  ASSUME FlowInv, hand # None, NEW steps \in Seq(Step),
         NEW what \in Outcome \cup {"return"},
         Done(steps) \/ Raise(what), Quiet,
         events' \in Told, events'.lit = events.lit \ {hand}, events'.status = events.status,
         handed' \in [Node -> Nat]
  PROVE  TypeOK' /\ Walks' /\ InHand' /\ LitIsOpen' /\ OverIsEmpty'
  <1>1. /\ TypeOK /\ hand \in Node /\ frames # <<>> /\ raised = ""
        /\ frames \in Seq(Frame) /\ Len(frames) \in Nat \ {0}
        /\ Todo \in Seq(Step) /\ Len(Todo) \in Nat /\ events.status = "running"
    BY Holding
  <1>2. SameWalks
    <2>1. CASE Done(steps)
      <3>1. frames' = Stack(0, steps)
        BY <2>1 DEF Done
      <3>2. Len(Todo) \in Nat
        BY <1>1
      <3>3. 0 <= Len(Todo)
        BY <3>2
      <3>4. QED
        BY <1>1, <3>1, <3>3, StackKeeps DEF SameWalks
    <2>2. CASE Raise(what)
      BY <1>1, <2>2 DEF Raise, SameWalks
    <2>3. QED
      BY <2>1, <2>2
  <1>3. hand' = None /\ reply' = "none" /\ raised' \in Outcome \cup {"", "return"}
    BY <1>1 DEF Done, Raise
  <1>4. UNCHANGED <<graph, pulling, cancel, executed>>
    BY DEF Quiet
  <1>5. TypeOK'
    BY <1>1, <1>2, <1>3, <1>4 DEF TypeOK, SameWalks, Frame, Step
  <1>6. Walks' /\ LitIsOpen'
    <2>1. \A m \in events'.lit : m \in events.lit /\ m # hand
      OBVIOUS
    <2>2. QED
      BY <1>2, <1>4, <2>1, SameWalksKeep
  <1>7. QED
    BY <1>1, <1>3, <1>5, <1>6 DEF InHand, OverIsEmpty

\* A node that leaves the hand without results for a call.
LEMMA PlainKeeps ==
  ASSUME FlowInv, Pass \/ Opens \/ Ends
  PROVE  FlowInv'
  <1>1. hand # None
    BY DEF Pass, Opens, Ends, IsKind
  <1>2. TypeOK /\ hand \in Node
    BY <1>1, Holding
  <1>3. /\ events' = Off(hand) /\ UNCHANGED handed /\ Quiet /\ ~IsKind(hand, "call")
    BY DEF Pass, Opens, Ends, IsKind
  <1>4. /\ events' \in Told /\ events'.lit = events.lit \ {hand}
        /\ events'.log = events.log /\ events'.status = events.status
    BY <1>2, <1>3, EventsTyped
  <1>5. PICK steps \in Seq(Step), what \in Outcome \cup {"return"} : Done(steps) \/ Raise(what)
    <2>1. CASE Pass
      <3>1. Len(graph.next[hand]) = 1
        BY <1>2, <2>1, Successors DEF Pass, IsKind
      <3>2. 1 \in 1..Len(graph.next[hand])
        BY <3>1
      <3>3. Visit(graph.next[hand][1]) \in Seq(Step)
        BY <1>2, <3>2, Successors, StepsTyped
      <3>4. QED
        BY <2>1, <3>3 DEF Pass, Outcome
    <2>2. CASE Opens
      <3>1. 0 \in Nat
        OBVIOUS
      <3>2. BranchOf(hand, 0) \in Seq(Step)
        BY <1>2, <3>1, StepsTyped
      <3>3. graph.kind[hand] = "loop" => HeadOf(hand, 0) \in Seq(Step)
        BY <1>2, <3>1, StepsTyped
      <3>4. QED
        BY <2>2, <3>2, <3>3 DEF Opens, IsKind, Outcome
    <2>3. CASE Ends
      <3>1. <<>> \in Seq(Step)
        OBVIOUS
      <3>2. QED
        BY <2>3, <3>1 DEF Ends, Outcome
    <2>4. QED
      BY <2>1, <2>2, <2>3
  <1>6. handed' \in [Node -> Nat]
    BY <1>2, <1>3 DEF TypeOK
  <1>7. TypeOK' /\ Walks' /\ InHand' /\ LitIsOpen' /\ OverIsEmpty'
    BY <1>1, <1>3, <1>4, <1>5, <1>6, HandLeaves
  <1>8. HandedBefore' /\ CallsAreFresh'
    BY <1>3, <1>4, FreshKept DEF Quiet
  <1>9. QED
    BY <1>7, <1>8 DEF FlowInv

\* A Return gives its call results that came after the call began.
LEMMA ReturnKeeps ==
  ASSUME FlowInv, Returns
  PROVE  FlowInv'
  <1> DEFINE caller == frames[Depth].call
             last == Len(events.log)
  <1>1. hand # None /\ graph.kind[hand] = "return"
    BY DEF Returns, IsKind
  <1>2. TypeOK /\ hand \in Node /\ frames \in Seq(Frame) /\ Len(frames) \in Nat \ {0}
    BY <1>1, Holding
  <1>3. caller \in Node /\ graph.kind[caller] = "call"
    <2>1. Depth \in 2..Len(frames)
      BY <1>2 DEF Returns, Depth
    <2>2. QED
      BY <2>1 DEF FlowInv, Walks
  <1>4. events' = Off(hand) /\ handed' = [handed EXCEPT ![caller] = last] /\ Quiet /\ Raise("return")
    BY DEF Returns
  <1>5. /\ events' \in Told /\ events'.lit = events.lit \ {hand}
        /\ events'.log = events.log /\ events'.status = events.status
    BY <1>2, <1>4, EventsTyped
  <1>6. events.log \in Seq(Node \X (0..2)) /\ last \in Nat /\ handed \in [Node -> Nat]
    <2>1. events.log \in Seq(Node \X (0..2)) /\ handed \in [Node -> Nat]
      BY <1>2 DEF TypeOK, Told
    <2>2. QED
      BY <2>1, LenProperties
  <1>7. handed' \in [Node -> Nat]
    BY <1>4, <1>6
  <1>8. TypeOK' /\ Walks' /\ InHand' /\ LitIsOpen' /\ OverIsEmpty'
    <2>1. <<>> \in Seq(Step)
      OBVIOUS
    <2>2. QED
      BY <1>1, <1>4, <1>5, <1>7, <2>1, HandLeaves
  <1>9. HandedBefore'
    BY <1>3, <1>4, <1>5, <1>6 DEF FlowInv, HandedBefore
  <1>10. ASSUME NEW c \in Node, graph.kind[c] = "call", handed'[c] # 0,
                NEW i \in handed'[c]..Len(events.log)
         PROVE  events.log[i] # <<c, 0>>
    <2>1. CASE c = caller
      <3>1. i = last
        BY <1>3, <1>4, <1>6, <1>10, <2>1
      <3>2. events.log[last] = <<hand, 0>>
        BY <1>1 DEF FlowInv, InHand
      <3>3. QED
        BY <1>1, <1>10, <3>1, <3>2
    <2>2. CASE c # caller
      <3>1. handed'[c] = handed[c]
        BY <1>4, <1>6, <2>2
      <3>2. c # hand
        BY <1>1, <1>10
      <3>3. QED
        BY <1>10, <3>1, <3>2 DEF FlowInv, CallsAreFresh
    <2>3. QED
      BY <2>1, <2>2
  <1>11. CallsAreFresh'
    BY <1>4, <1>5, <1>10 DEF CallsAreFresh, Quiet
  <1>12. QED
    BY <1>8, <1>9, <1>11 DEF FlowInv

\* A decision reads its value, or what the executor made of a node is taken,
\* or the stop wins.
LEMMA TakeKeeps ==
  ASSUME FlowInv, Decides \/ Take
  PROVE  FlowInv'
  <1>1. hand # None /\ graph.kind[hand] \in {"agent", "decision", "ask"}
    BY DEF Decides, Take, Racing, Raced, IsKind
  <1>2. TypeOK /\ hand \in Node
    BY <1>1, Holding
  <1>3. UNCHANGED handed /\ Quiet /\ ~IsKind(hand, "call")
    BY <1>1 DEF Decides, Take, IsKind
  <1>4. /\ Off(hand) \in Told /\ Off(hand).lit = events.lit \ {hand}
        /\ Off(hand).log = events.log /\ Off(hand).status = events.status
    BY <1>2, EventsTyped
  <1>5. \A i \in 1..Len(graph.next[hand]) : i \in {1, 2} /\ Visit(graph.next[hand][i]) \in Seq(Step)
    <2>1. Len(graph.next[hand]) = 1 \/ Len(graph.next[hand]) = 2
      BY <1>1, <1>2, Successors
    <2>2. ASSUME NEW i \in 1..Len(graph.next[hand])
          PROVE  i = 1 \/ i = 2
      <3>1. CASE Len(graph.next[hand]) = 1
        BY <3>1
      <3>2. CASE Len(graph.next[hand]) = 2
        BY <3>2
      <3>3. QED
        BY <2>1, <3>1, <3>2
    <2>3. \A i \in 1..Len(graph.next[hand]) : Visit(graph.next[hand][i]) \in Seq(Step)
      BY <1>2, Successors, StepsTyped
    <2>4. QED
      BY <2>2, <2>3
  <1>6. PICK steps \in Seq(Step), what \in Outcome \cup {"return"} : Done(steps) \/ Raise(what)
    <2>1. <<>> \in Seq(Step)
      OBVIOUS
    <2>2. QED
      BY <1>5, <2>1 DEF Decides, Take, Outcome
  <1>7. \/ events' = Off(hand)
        \/ \E k \in {1, 2} : events' = [Off(hand) EXCEPT !.log = Append(@, <<hand, k>>)]
    BY <1>5 DEF Decides, Take
  <1>8. /\ events' \in Told /\ events'.lit = events.lit \ {hand} /\ events'.status = events.status
        /\ \/ events'.log = events.log
           \/ \E k \in {1, 2} : events'.log = Append(events.log, <<hand, k>>)
    <2>1. CASE events' = Off(hand)
      BY <1>4, <2>1
    <2>2. ASSUME NEW k \in {1, 2}, events' = [Off(hand) EXCEPT !.log = Append(@, <<hand, k>>)]
          PROVE  /\ events' \in Told /\ events'.lit = events.lit \ {hand}
                 /\ events'.status = events.status
                 /\ events'.log = Append(events.log, <<hand, k>>)
      <3>1. events.log \in Seq(Node \X (0..2))
        BY <1>2 DEF TypeOK, Told
      <3>2. <<hand, k>> \in Node \X (0..2)
        BY <1>2
      <3>3. Append(events.log, <<hand, k>>) \in Seq(Node \X (0..2))
        BY <3>1, <3>2, AppendProperties
      <3>4. events' = [Off(hand) EXCEPT !.log = Append(events.log, <<hand, k>>)]
        BY <1>4, <2>2
      <3>5. \A told \in Told, log \in Seq(Node \X (0..2)) :
              /\ [told EXCEPT !.log = log] \in Told
              /\ [told EXCEPT !.log = log].lit = told.lit
              /\ [told EXCEPT !.log = log].status = told.status
              /\ [told EXCEPT !.log = log].log = log
        BY DEF Told
      <3>6. QED
        BY <1>4, <3>3, <3>4, <3>5
    <2>3. QED
      BY <1>7, <2>1, <2>2
  <1>9. handed' \in [Node -> Nat]
    BY <1>2, <1>3 DEF TypeOK
  <1>10. TypeOK' /\ Walks' /\ InHand' /\ LitIsOpen' /\ OverIsEmpty'
    BY <1>1, <1>3, <1>6, <1>8, <1>9, HandLeaves
  <1>11. HandedBefore' /\ CallsAreFresh'
    <2>1. \A k \in {1, 2} : <<hand, k>> \in Node \X (0..2) /\ <<hand, k>>[2] # 0
      BY <1>2
    <2>2. UNCHANGED <<graph, handed>>
      BY <1>3 DEF Quiet
    <2>3. QED
      BY <1>3, <1>8, <2>1, <2>2, FreshKept
  <1>12. QED
    BY <1>10, <1>11 DEF FlowInv

\* A call stays lit while its walk is under way, without results.
LEMMA CallKeeps ==
  ASSUME FlowInv, Calls
  PROVE  FlowInv'
  <1>1. hand # None /\ graph.kind[hand] = "call"
    BY DEF Calls, IsKind
  <1>2. /\ TypeOK /\ hand \in Node /\ frames # <<>> /\ raised = ""
        /\ frames \in Seq(Frame) /\ Len(frames) \in Nat \ {0} /\ events.status = "running"
    BY <1>1, Holding
  <1> DEFINE new == [call |-> hand, todo |-> Visit(graph.into[hand])]
  <1>3. new \in Frame
    <2>1. Visit(graph.into[hand]) \in Seq(Step)
      BY <1>2, Successors, StepsTyped
    <2>2. QED
      BY <1>2, <2>1 DEF Frame
  <1>4. /\ frames' = Append(frames, new) /\ hand' = None /\ handed' = [handed EXCEPT ![hand] = 0]
        /\ UNCHANGED <<graph, pulling, cancel, executed, raised, reply, events>>
    BY DEF Calls, Quiet
  <1>5. /\ frames' \in Seq(Frame) /\ frames' # <<>> /\ Len(frames') = Len(frames) + 1
        /\ \A i \in 1..Len(frames) : frames'[i] = frames[i]
        /\ frames'[Len(frames) + 1].call = hand
    <2>1. new.call = hand
      OBVIOUS
    <2> HIDE DEF new
    <2>2. /\ Append(frames, new) \in Seq(Frame) /\ Append(frames, new) # <<>>
          /\ Len(Append(frames, new)) = Len(frames) + 1
          /\ \A i \in 1..Len(frames) : Append(frames, new)[i] = frames[i]
          /\ Append(frames, new)[Len(frames) + 1] = new
      <3>1. frames \in Seq(Frame)
        BY <1>2
      <3>2. new \in Frame
        BY <1>3
      <3>3. QED
        BY <3>1, <3>2, AppendProperties
    <2>3. frames' = Append(frames, new)
      BY <1>4
    <2>4. QED
      BY <2>1, <2>2, <2>3
  <1> HIDE DEF new
  <1>0. /\ Len(frames) \in Nat /\ Len(frames) >= 1
        /\ Len(frames') \in Nat /\ Len(frames') = Len(frames) + 1
    <2>1. Len(frames) \in Nat \ {0}
      BY <1>2
    <2>2. Len(frames') = Len(frames) + 1
      BY <1>5
    <2>3. QED
      BY <2>1, <2>2
  <1>6. handed \in [Node -> Nat] /\ handed' \in [Node -> Nat]
    BY <1>2, <1>4 DEF TypeOK
  <1>7. TypeOK'
    BY <1>2, <1>4, <1>5, <1>6 DEF TypeOK, Frame, Step
  <1>8. Walks'
    <2>1. frames'[1].call = None
      <3>1. 1 \in 1..Len(frames)
        BY <1>0
      <3>2. frames[1].call = None
        BY <1>2 DEF FlowInv, Walks
      <3>3. QED
        BY <1>5, <3>1, <3>2
    <2>2. ASSUME NEW i \in 2..Len(frames')
          PROVE  frames'[i].call \in Node /\ graph.kind[frames'[i].call] = "call"
      <3>1. i = Len(frames) + 1 \/ (i \in 1..Len(frames) /\ i \in 2..Len(frames))
        BY <1>0, <2>2
      <3>2. QED
        BY <1>1, <1>2, <1>5, <3>1 DEF FlowInv, Walks
    <2>3. QED
      BY <1>4, <2>1, <2>2 DEF Walks
  <1>9. LitIsOpen'
    <2>1. ASSUME NEW n \in events.lit
          PROVE  \E i \in 2..Len(frames') : frames'[i].call = n
      <3>1. CASE n = hand
        <4>1. Len(frames) + 1 \in 2..Len(frames')
          BY <1>0
        <4>2. QED
          BY <1>5, <3>1, <4>1
      <3>2. CASE n # hand
        <4>1. PICK i \in 2..Len(frames) : frames[i].call = n
          BY <3>2 DEF FlowInv, LitIsOpen
        <4>2. i \in 1..Len(frames) /\ i \in 2..Len(frames')
          BY <1>0
        <4>3. QED
          BY <1>5, <4>1, <4>2
      <3>3. QED
        BY <3>1, <3>2
    <2>2. QED
      BY <1>4, <2>1 DEF LitIsOpen
  <1>10. HandedBefore' /\ CallsAreFresh'
    <2>1. Len(events.log) \in Nat
      BY <1>2, LenProperties DEF TypeOK, Told
    <2>2. \A c \in Node : handed'[c] = IF c = hand THEN 0 ELSE handed[c]
      BY <1>4, <1>6
    <2>3. HandedBefore'
      BY <1>4, <2>1, <2>2 DEF FlowInv, HandedBefore
    <2>4. CallsAreFresh'
      BY <1>4, <2>2 DEF FlowInv, CallsAreFresh
    <2>5. QED
      BY <2>3, <2>4
  <1>11. QED
    BY <1>2, <1>4, <1>7, <1>8, <1>9, <1>10 DEF FlowInv, InHand, OverIsEmpty

-----------------------------------------------------------------------------
(* The end of a walk.                                                      *)

\* What is left of the walks when the innermost is over.
LEMMA BelowKeeps ==
  ASSUME TypeOK, Depth > 1, NEW steps \in Seq(Step)
  PROVE  \A rest \in {SubSeq(frames, 1, Depth - 1), Below(steps)} :
           /\ rest \in Seq(Frame) /\ rest # <<>> /\ Len(rest) = Len(frames) - 1
           /\ \A i \in 1..Len(frames) - 1 : rest[i].call = frames[i].call
  <1> DEFINE rest == SubSeq(frames, 1, Depth - 1)
  <1>1. frames \in Seq(Frame) /\ Len(frames) \in Nat /\ Depth = Len(frames)
    BY LenProperties DEF TypeOK, Depth
  <1>2. \A i \in 1..Depth - 1 : frames[i] \in Frame
    BY <1>1, ElementOfSeq
  <1>3. /\ rest \in Seq(Frame) /\ Len(rest) = Len(frames) - 1
        /\ \A i \in 1..Len(frames) - 1 : rest[i] = frames[i]
    BY <1>1, <1>2, SubSeqProperties
  <1>4. Depth - 1 \in 1..Len(rest)
    BY <1>1, <1>3
  <1>5. rest # <<>>
    <2>1. Len(rest) # 0
      BY <1>1, <1>3
    <2> HIDE DEF rest
    <2>2. QED
      BY <1>3, <2>1, EmptySeq
  <1> DEFINE last == rest[Depth - 1]
             new == [last EXCEPT !.todo = steps \o @]
  <1>6. new \in Frame /\ new.call = last.call
    <2>1. last \in Frame
      BY <1>3, <1>4, ElementOfSeq
    <2>2. steps \o last.todo \in Seq(Step)
      BY <2>1, ConcatProperties DEF Frame
    <2>3. QED
      BY <2>1, <2>2 DEF Frame
  <1>7. Below(steps) = [rest EXCEPT ![Depth - 1] = new]
    BY DEF Below
  <1>8. /\ Below(steps) \in Seq(Frame) /\ Len(Below(steps)) = Len(rest)
        /\ \A i \in 1..Len(rest) : Below(steps)[i].call = rest[i].call
    <2> HIDE DEF new, rest
    <2>1. /\ [rest EXCEPT ![Depth - 1] = new] \in Seq(Frame)
          /\ Len([rest EXCEPT ![Depth - 1] = new]) = Len(rest)
          /\ \A j \in 1..Len(rest) :
               [rest EXCEPT ![Depth - 1] = new][j] = IF j = Depth - 1 THEN new ELSE rest[j]
      BY <1>3, <1>4, <1>6, ExceptSeq
    <2>2. QED
      BY <1>6, <1>7, <2>1
  <1>9. Below(steps) # <<>>
    BY <1>1, <1>3, <1>8, EmptySeq
  <1>10. QED
    BY <1>3, <1>5, <1>8, <1>9

\* A walk ends: its call is reported, and it is the only one that was open
\* and is not any more.
LEMMA WalkEndsKeeps ==
  ASSUME FlowInv, CallDone \/ Unwinds
  PROVE  FlowInv'
  <1>1. /\ TypeOK /\ Depth > 1 /\ hand = None /\ events' = Off(Caller)
        /\ UNCHANGED <<hand, pulling, reply, handed, graph, cancel, executed>>
    <2>1. hand = None
      BY DEF FlowInv, CallDone, Unwinds, InHand, Outcome
    <2>2. QED
      BY <2>1 DEF FlowInv, CallDone, Unwinds, Quiet
  <1>2. frames \in Seq(Frame) /\ Len(frames) \in Nat /\ Depth = Len(frames) /\ Len(frames) > 1
    BY <1>1, LenProperties DEF TypeOK, Depth
  <1>3. Caller \in Node /\ graph.kind[Caller] = "call"
    <2>1. Depth \in 2..Len(frames)
      BY <1>2
    <2>2. QED
      BY <2>1 DEF FlowInv, Walks, Caller
  <1>4. /\ events' \in Told /\ events'.lit = events.lit \ {Caller}
        /\ events'.log = events.log /\ events'.status = events.status
    BY <1>1, <1>3, EventsTyped
  <1>5. PICK steps \in Seq(Step) : frames' \in {SubSeq(frames, 1, Depth - 1), Below(steps)}
    <2>1. <<>> \in Seq(Step)
      OBVIOUS
    <2>2. Visit(graph.next[Caller][1]) \in Seq(Step)
      <3>1. Len(graph.next[Caller]) = 1
        BY <1>1, <1>3, Successors
      <3>2. 1 \in 1..Len(graph.next[Caller])
        BY <3>1
      <3>3. QED
        BY <1>1, <1>3, <3>2, Successors, StepsTyped
    <2>3. QED
      BY <2>1, <2>2 DEF CallDone, Unwinds
  <1>6. /\ frames' \in Seq(Frame) /\ frames' # <<>> /\ Len(frames') = Len(frames) - 1
        /\ \A i \in 1..Len(frames) - 1 : frames'[i].call = frames[i].call
    BY <1>1, <1>5, BelowKeeps
  <1>7. raised' \in Outcome \cup {"", "return"}
    BY <1>1 DEF CallDone, Unwinds
  <1>8. TypeOK'
    BY <1>1, <1>4, <1>6, <1>7 DEF TypeOK, Frame, Step
  <1>9. Walks'
    <2>1. frames'[1].call = None
      BY <1>2, <1>6, EmptySeq DEF FlowInv, Walks
    <2>2. ASSUME NEW i \in 2..Len(frames')
          PROVE  frames'[i].call \in Node /\ graph.kind[frames'[i].call] = "call"
      <3>1. i \in 1..Len(frames) - 1 /\ i \in 2..Len(frames)
        BY <1>2, <1>6, <2>2
      <3>2. QED
        BY <1>6, <3>1 DEF FlowInv, Walks
    <2>3. QED
      BY <1>1, <2>1, <2>2 DEF Walks
  <1>10. LitIsOpen'
    <2>1. ASSUME NEW n \in events'.lit
          PROVE  \E i \in 2..Len(frames') : frames'[i].call = n
      <3>1. n \in events.lit /\ n # Caller /\ n # None
        BY <1>1, <1>4, <2>1, FlowAssumption DEF TypeOK, Told
      <3>2. PICK i \in 2..Len(frames) : frames[i].call = n
        BY <1>1, <3>1 DEF FlowInv, LitIsOpen
      <3>3. i \in 2..Len(frames')
        BY <1>2, <1>6, <3>1, <3>2 DEF Caller
      <3>4. QED
        BY <1>2, <1>6, <3>2, <3>3
    <2>2. QED
      BY <2>1 DEF LitIsOpen
  <1>11. HandedBefore' /\ CallsAreFresh'
    BY <1>1, <1>4 DEF FlowInv, HandedBefore, CallsAreFresh
  <1>12. events.status = "running"
    BY <1>2, EmptySeq DEF FlowInv, OverIsEmpty
  <1>13. QED
    BY <1>1, <1>4, <1>8, <1>9, <1>10, <1>11, <1>12 DEF FlowInv, InHand, OverIsEmpty

\* The run is over once the outermost walk is.
LEMMA RunOverKeeps ==
  ASSUME FlowInv, RunOver
  PROVE  FlowInv'
  <1>1. /\ TypeOK /\ Len(frames) = 1 /\ hand = None /\ frames' = <<>> /\ raised' = ""
        /\ UNCHANGED <<hand, pulling, reply, handed, graph, cancel, executed>>
    BY DEF FlowInv, RunOver, Quiet, Depth
  <1>2. PICK outcome \in Outcome : events' = [events EXCEPT !.status = outcome]
    BY DEF RunOver, Outcome
  <1>3. /\ events' \in Told /\ events'.lit = events.lit /\ events'.log = events.log
    BY <1>1, <1>2 DEF TypeOK, Told
  <1>4. frames' \in Seq(Frame)
    <2>1. <<>> \in Seq(Frame)
      OBVIOUS
    <2>2. frames' = <<>>
      BY <1>1
    <2>3. QED
      BY <2>1, <2>2
  <1>5. TypeOK'
    BY <1>1, <1>3, <1>4 DEF TypeOK, Frame, Step
  <1>6. Len(frames') = 0
    <2>1. Len(<<>>) = 0
      OBVIOUS
    <2>2. QED
      BY <1>1, <2>1
  <1>7. LitIsOpen'
    <2>1. \A n \in events.lit : n = hand
      <3>1. \A i \in 2..Len(frames) : FALSE
        <4>1. Len(frames) = 1
          BY <1>1
        <4>2. QED
          BY <4>1
      <3>2. QED
        BY <3>1 DEF FlowInv, LitIsOpen
    <2>2. QED
      BY <1>1, <1>3, <2>1 DEF LitIsOpen
  <1>8. Walks'
    <2>1. \A i \in 2..Len(frames') : FALSE
      BY <1>6
    <2>2. QED
      BY <1>1, <2>1 DEF Walks
  <1>9. HandedBefore' /\ CallsAreFresh'
    BY <1>1, <1>3 DEF FlowInv, HandedBefore, CallsAreFresh
  <1>10. QED
    BY <1>1, <1>5, <1>7, <1>8, <1>9 DEF FlowInv, InHand, OverIsEmpty

-----------------------------------------------------------------------------
(* The theorems.                                                           *)

\* A run starts with one walk and nothing lit.
LEMMA InitFlowInv == Init => FlowInv
  <1> SUFFICES ASSUME Init PROVE FlowInv
    OBVIOUS
  <1> DEFINE first == [call |-> None, todo |-> Visit(graph.start)]
  <1>1. graph \in Graph /\ graph.start \in Node
    BY FlowAssumption DEF Init, Program
  <1>2. first \in Frame
    BY <1>1, StepsTyped DEF Frame
  <1>3. frames = <<first>> /\ frames \in Seq(Frame) /\ Len(frames) = 1 /\ frames[1].call = None
    <2>1. frames = <<first>>
      BY DEF Init
    <2>2. first.call = None
      OBVIOUS
    <2> HIDE DEF first
    <2>3. <<first>> \in Seq(Frame) /\ Len(<<first>>) = 1 /\ <<first>>[1] = first
      BY <1>2
    <2>4. QED
      BY <2>1, <2>2, <2>3
  <1> HIDE DEF first
  <1>4. events \in Told /\ events.lit = {} /\ events.log = <<>> /\ events.status = "running"
    <2>1. <<>> \in Seq(Node \X (0..2))
      OBVIOUS
    <2>2. QED
      BY <2>1 DEF Init, Told
  <1>5. TypeOK
    <2>1. executed = 0 /\ 0 \in 0..MaxNodes
      <3>1. MaxNodes \in Nat
        BY FlowAssumption
      <3>2. 0 \in 0..MaxNodes
        BY <3>1
      <3>3. QED
        BY <3>2 DEF Init
    <2>2. handed \in [Node -> Nat]
      BY DEF Init
    <2>3. hand = None /\ pulling = FALSE /\ reply = "none" /\ raised = "" /\ cancel = FALSE
      BY DEF Init
    <2>4. QED
      BY <1>1, <1>3, <1>4, <2>1, <2>2, <2>3 DEF TypeOK
  <1>6. Walks
    <2>1. \A i \in 2..Len(frames) : FALSE
      <3>1. Len(frames) = 1
        BY <1>3
      <3>2. QED
        BY <3>1
    <2>2. QED
      BY <1>3, <2>1 DEF Walks
  <1>7. Len(events.log) = 0
    <2>1. Len(<<>>) = 0
      OBVIOUS
    <2>2. QED
      BY <1>4, <2>1
  <1>8. \A c \in Node : handed[c] = 0
    BY DEF Init
  <1>9. HandedBefore /\ CallsAreFresh
    BY <1>7, <1>8 DEF HandedBefore, CallsAreFresh
  <1>10. QED
    BY <1>4, <1>5, <1>6, <1>9 DEF Init, FlowInv, InHand, LitIsOpen, OverIsEmpty

\* Every step keeps what holds of the walks, the lights and the calls.
LEMMA FlowInvStep == FlowInv /\ [Next]_vars => FlowInv'
  <1> SUFFICES ASSUME FlowInv, [Next]_vars PROVE FlowInv'
    OBVIOUS
  <1>1. CASE Checkpoint \/ Begin \/ Branch \/ Pull \/ Lap
    BY <1>1, StepsKeep
  <1>2. CASE Pass \/ Opens \/ Ends
    BY <1>2, PlainKeeps
  <1>3. CASE Returns
    BY <1>3, ReturnKeeps
  <1>4. CASE Calls
    BY <1>4, CallKeeps
  <1>5. CASE Decides \/ Take
    BY <1>5, TakeKeeps
  <1>6. CASE CallDone \/ Unwinds
    BY <1>6, WalkEndsKeeps
  <1>7. CASE RunOver
    BY <1>7, RunOverKeeps
  <1>8. CASE Reply \/ LetGo \/ Stop \/ UNCHANGED vars
    <2>1. UNCHANGED <<graph, frames, hand, pulling, raised, executed, handed, events>>
      BY <1>8 DEF Reply, LetGo, Quiet, Stop, vars
    <2>2. TypeOK /\ reply' \in {"none", "open", "given", "bad", "leaving", "left"} /\ cancel' \in BOOLEAN
      BY <1>8 DEF FlowInv, TypeOK, Reply, LetGo, Quiet, Stop, vars
    <2>3. TypeOK'
      BY <2>1, <2>2 DEF TypeOK, Frame, Step
    <2>4. QED
      BY <2>1, <2>3
         DEF FlowInv, Walks, InHand, LitIsOpen, OverIsEmpty, HandedBefore, CallsAreFresh
  <1>9. QED
    BY <1>1, <1>2, <1>3, <1>4, <1>5, <1>6, <1>7, <1>8 DEF Next, Walk

\* What the theorems rest on holds all along.
LEMMA FlowInvHolds == Spec => []FlowInv
  BY InitFlowInv, FlowInvStep, PTL DEF Spec

\* Whatever the program, the walks stay well formed and the nodes below the
\* ceiling (TypeOK).
THEOREM FlowTyped == Spec => []TypeOK
  <1>1. FlowInv => TypeOK
    BY DEF FlowInv
  <1>2. QED
    BY <1>1, FlowInvHolds, PTL

\* No node is left lit when a run is over, however deep in calls it ended.
THEOREM NoLightStaysOn == Spec => []NothingSpins
  <1>1. FlowInv => NothingSpins
    <2> SUFFICES ASSUME FlowInv PROVE NothingSpins
      OBVIOUS
    <2> SUFFICES ASSUME events.status # "running", NEW n \in events.lit PROVE FALSE
      BY DEF NothingSpins
    <2>1. frames = <<>> /\ hand = None /\ n \in Node
      BY DEF FlowInv, TypeOK, Told, OverIsEmpty, InHand
    <2>2. Len(frames) = 0
      <3>1. Len(<<>>) = 0
        OBVIOUS
      <3>2. QED
        BY <2>1, <3>1
    <2>3. \A i \in 2..Len(frames) : FALSE
      BY <2>2
    <2>4. QED
      BY <2>1, <2>3, FlowAssumption DEF FlowInv, LitIsOpen
  <1>2. QED
    BY <1>1, FlowInvHolds, PTL

\* A call hands on what a Return of this very run of it gave, or nothing.
THEOREM ResultsAreTheCalls == Spec => []CallsAreFresh
  <1>1. FlowInv => CallsAreFresh
    BY DEF FlowInv
  <1>2. QED
    BY <1>1, FlowInvHolds, PTL

\* A loop head reads its value only while no node is in hand.
PullsAlone == pulling => hand = None

\* Only a step of its own lets a loop head read, and that step leaves the hand empty.
LEMMA PullsAloneStep == PullsAlone /\ [Next]_vars => PullsAlone'
  <1> SUFFICES ASSUME PullsAlone, [Next]_vars PROVE PullsAlone'
    OBVIOUS
  <1>1. CASE Checkpoint \/ Branch \/ Reply \/ LetGo \/ Stop \/ CallDone \/ Unwinds \/ RunOver
    BY <1>1 DEF PullsAlone, Checkpoint, Branch, Reply, LetGo, Stop, CallDone, Unwinds, RunOver,
                Quiet
  <1>2. CASE Begin \/ Pull \/ Lap
    BY <1>2 DEF PullsAlone, Begin, Pull, Lap, Idle, HasNext
  <1>3. CASE Pass \/ Opens \/ Decides \/ Ends \/ Returns \/ Calls \/ Take
    BY <1>3 DEF PullsAlone, Pass, Opens, Decides, Ends, Returns, Calls, Take, Done, Raise
  <1>4. CASE UNCHANGED vars
    BY <1>4 DEF PullsAlone, vars
  <1>5. QED
    BY <1>1, <1>2, <1>3, <1>4 DEF Next, Walk

\* After a stop, while no node is in hand: the walks unwind, or a loop head
\* that was reading goes on, once.
LEMMA StopWithNothingInHand ==
  ASSUME FlowInv, Next, cancel, hand = None
  PROVE  AfterStop
  <1>1. TypeOK /\ ~Racing
    BY DEF FlowInv, Racing
  <1>2. ASSUME NEW n \in Node PROVE Off(n).log = events.log
    BY <1>1, EventsTyped
  <1>3. ~IsKind(hand, "decision")
    BY DEF IsKind
  <1>4. CASE CallDone \/ Unwinds
    <2>1. Caller \in Node
      <3>1. Len(frames) \in Nat /\ Depth > 1
        BY <1>1, <1>4, LenProperties DEF CallDone, Unwinds, TypeOK
      <3>2. Depth \in 2..Len(frames)
        BY <3>1 DEF Depth
      <3>3. QED
        BY <3>2 DEF FlowInv, Walks, Caller
    <2>2. events' = Off(Caller) /\ UNCHANGED <<hand, executed, pulling, graph>>
      BY <1>4 DEF CallDone, Unwinds, Quiet
    <2>3. events'.log = events.log
      BY <1>2, <2>1, <2>2
    <2>4. ~Idle
      BY <1>1, <1>4 DEF CallDone, Unwinds, Idle, HasNext, Outcome
    <2>5. InFlight' => InFlight
      BY <2>2 DEF InFlight, IsKind
    <2>6. QED
      BY <1>1, <2>2, <2>3, <2>4, <2>5 DEF AfterStop
  <1>5. CASE RunOver
    <2>1. events'.log = events.log
      BY <1>1, <1>5 DEF RunOver, TypeOK, Told
    <2>2. UNCHANGED <<hand, executed, pulling, graph>>
      BY <1>5 DEF RunOver, Quiet
    <2>3. ~Idle
      BY <1>5 DEF RunOver, Idle, HasNext, Outcome
    <2>4. InFlight' => InFlight
      BY <2>2 DEF InFlight, IsKind
    <2>5. QED
      BY <1>1, <2>1, <2>2, <2>3, <2>4 DEF AfterStop
  <1>6. CASE Checkpoint
    <2>1. UNCHANGED <<frames, hand, executed, pulling, graph, events>>
      BY <1>6 DEF Checkpoint
    <2>2. InFlight' => InFlight
      BY <2>1 DEF InFlight, IsKind
    <2>3. QED
      BY <1>1, <2>1, <2>2 DEF AfterStop
  <1>7. CASE Lap
    <2>1. pulling /\ ~Idle
      BY <1>7 DEF Lap, Idle
    <2>2. ~pulling' /\ UNCHANGED <<hand, executed>>
      BY <1>7 DEF Lap
    <2>3. InFlight /\ ~InFlight'
      BY <2>1, <2>2 DEF InFlight, IsKind
    <2>4. QED
      BY <1>1, <2>1, <2>2, <2>3 DEF AfterStop
  <1>8. QED
    BY <1>1, <1>4, <1>5, <1>6, <1>7, FlowAssumption
       DEF Next, Walk, Begin, Branch, Pull, MayStep, Pass, Opens, Decides, Ends, Returns, Calls,
           LetGo, Take, Reply, Stop, IsKind

\* After a stop, with a node in hand: it is finished and nothing follows, only
\* a decision that was reading tells its branch, and a race is lost.
LEMMA StopWithNodeInHand ==
  ASSUME FlowInv, PullsAlone, Next, cancel, hand # None
  PROVE  AfterStop
  <1>1. hand \in Node /\ Off(hand).log = events.log /\ ~pulling /\ ~Idle
    BY Holding, EventsTyped DEF PullsAlone, Idle, HasNext
  <1>2. raised = ""
    BY Holding
  <1>3. CASE Take
    <2>1. /\ raised' = "stopped" /\ hand' = None /\ UNCHANGED <<frames, executed, pulling>>
          /\ events' = Off(hand)
      BY <1>3 DEF Take, AnswerCounts, Raise, Quiet
    <2>2. ~InFlight'
      BY <1>1, <2>1 DEF InFlight, IsKind
    <2>3. QED
      BY <1>1, <2>1, <2>2 DEF AfterStop
  <1>4. CASE Decides
    <2>1. hand' = None /\ UNCHANGED <<executed, pulling>>
      BY <1>4 DEF Decides, Done, Quiet
    <2>2. InFlight /\ ~Racing /\ ~InFlight'
      BY <1>1, <1>4, <2>1 DEF Decides, InFlight, IsKind
    <2>3. QED
      BY <1>1, <2>1, <2>2 DEF AfterStop
  <1>5. CASE Pass \/ Opens \/ Ends \/ Returns \/ Calls
    <2>1. graph.kind[hand] \notin {"agent", "ask", "decision"}
      BY <1>5 DEF Pass, Opens, Ends, Returns, Calls, IsKind
    <2>2. ~Racing
      BY <2>1 DEF Racing, Raced
    <2>3. hand' = None /\ UNCHANGED <<executed, pulling>> /\ events' \in {events, Off(hand)}
      BY <1>5 DEF Pass, Opens, Ends, Returns, Calls, Done, Raise, Quiet
    <2>4. ~InFlight'
      BY <1>1, <2>3 DEF InFlight, IsKind
    <2>5. QED
      BY <1>1, <2>2, <2>3, <2>4 DEF AfterStop
  <1>6. CASE Reply \/ LetGo \/ Stop
    <2>1. UNCHANGED <<graph, frames, hand, pulling, raised, executed, events>>
      BY <1>6 DEF Reply, LetGo, Quiet, Stop
    <2>2. InFlight' => InFlight
      BY <2>1 DEF InFlight, Racing, Raced, IsKind
    <2>3. QED
      BY <2>1, <2>2 DEF AfterStop
  <1>7. QED
    BY <1>1, <1>2, <1>3, <1>4, <1>5, <1>6
       DEF Next, Walk, Checkpoint, Begin, Branch, Pull, Lap, Idle, HasNext, CallDone, Unwinds,
           RunOver, Outcome

\* Once the run was told to stop nothing new begins and nothing that comes
\* back is taken (StopWins), in every program: what a loop head or a decision
\* was reading at that moment lets one lap or branch through, and no more.
THEOREM StopIsFinal == Spec => StopWins
  <1>1. FlowInv /\ PullsAlone /\ [Next]_vars => [AfterStop]_vars
    <2> SUFFICES ASSUME FlowInv, PullsAlone, Next, cancel PROVE AfterStop
      BY DEF AfterStop
    <2>1. QED
      BY StopWithNothingInHand, StopWithNodeInHand
  <1>2. Init => PullsAlone
    BY DEF Init, PullsAlone
  <1>3. QED
    BY <1>1, <1>2, PullsAloneStep, InitFlowInv, FlowInvStep, PTL DEF Spec, StopWins

-----------------------------------------------------------------------------
(* Induction, and the operators of FlowOrder.                                *)

\* Induction, for a set of numbers.
LEMMA Counting ==
  ASSUME NEW S, 0 \in S, \A n \in Nat : n \in S => n + 1 \in S
  PROVE  \A n \in Nat : n \in S
  <1> DEFINE T == Nat \ S
             R == OpToRel(<, Nat)
  <1>0. SUFFICES ASSUME T # {}
                 PROVE  FALSE
    OBVIOUS
  <1>1. IsWellFoundedOn(R, Nat)
    BY NatLessThanWellFounded
  <1>2. \A a, b \in Nat : a < b => <<a, b>> \in R
    BY Zenon DEF OpToRel
  <1>3. T \subseteq Nat
    OBVIOUS
  <1>4. \A a \in Nat : a \notin S => a \in T
    OBVIOUS
  <1>5. \A a \in T : a # 0 /\ a \notin S
    OBVIOUS
  <1> HIDE DEF T, R
  <1>6. PICK x \in T : \A y \in T : ~(<<y, x>> \in R)
    BY <1>0, <1>1, <1>3, WFMin
  <1>7. x \in Nat /\ x - 1 \in Nat /\ (x - 1) + 1 = x /\ x - 1 < x
    BY <1>3, <1>5, <1>6
  <1>8. x - 1 \notin S
    BY <1>5, <1>6, <1>7
  <1>9. QED
    BY <1>2, <1>4, <1>6, <1>7, <1>8

-----------------------------------------------------------------------------
(* Reading a log.                                                          *)

Event == Node \X (0..2)
Result == [how : {"on", "back", "cut", "wrong"}, at : Nat]
\* A flow read from i goes on at i or later, and not past the end.
Ahead(log, i) == {r \in Result : r.how \in {"on", "back"} => r.at \in i..Len(log) + 1}
ReadsAhead(g, log, later, i) ==
  \A j \in i..Len(log) + 1 : \A p \in Part(g) : later[j][p] \in Ahead(log, j)

\* The parts a program has.
LEMMA Parts ==
  ASSUME NEW g \in Graph
  PROVE  /\ \A n \in Node \cup {None} : Go(n) \in Part(g)
         /\ \A n \in Node, k \in Nat : Rest(n, k) \in Part(g)
         /\ \A n \in Node : g.kind[n] = "loop" => Laps(n) \in Part(g)
  BY FlowAssumption DEF Part, Go, Rest, Laps

\* The four results.
LEMMA Results ==
  /\ \A i \in Nat : On(i) \in Result /\ Back(i) \in Result
  /\ Cut \in Result /\ Wrong \in Result
  /\ \A i : On(i).how = "on" /\ On(i).at = i /\ Back(i).how = "back" /\ Back(i).at = i
  /\ Cut.how = "cut" /\ Wrong.how = "wrong"
  BY DEF Result, On, Back, Cut, Wrong

\* The flow from a node takes at least its event.
LEMMA NodeAhead ==
  ASSUME NEW g \in Graph, NEW log \in Seq(Event), NEW i \in 1..Len(log) + 1, NEW later,
         ReadsAhead(g, log, later, i + 1), NEW n \in Node
  PROVE  FromNode(g, log, later, n, i) \in Ahead(log, i + 1)
  <1> DEFINE r == FromNode(g, log, later, n, i)
  <1>0. Len(log) \in Nat /\ i \in Nat /\ n # None
    BY FlowAssumption, LenProperties
  <1>1. \A j \in i + 1..Len(log) + 1 : \A p \in Part(g) :
          later[j][p] \in Ahead(log, j) /\ later[j][p] \in Ahead(log, i + 1)
    BY <1>0 DEF ReadsAhead, Ahead
  <1>2. Cut \in Ahead(log, i + 1) /\ Wrong \in Ahead(log, i + 1)
    BY Results DEF Ahead
  <1>3. CASE i > Len(log) \/ log[i] # <<n, 0>>
    BY <1>0, <1>2, <1>3 DEF FromNode
  <1>4. CASE i \in 1..Len(log) /\ log[i] = <<n, 0>>
    <2>0. i + 1 \in i + 1..Len(log) + 1 /\ ~(i > Len(log))
      BY <1>0, <1>4
    <2>1. CASE g.kind[n] \in {"plain", "agent", "ask"}
      <3>1. r = later[i + 1][Go(g.next[n][1])]
        BY <1>0, <1>4, <2>0, <2>1 DEF FromNode
      <3>2. g.next[n][1] \in Node \cup {None}
        BY <2>1, Wires
      <3>3. QED
        BY <3>1, <3>2, <1>1, <2>0, Parts
    <2>2. CASE g.kind[n] = "decision"
      <3>1. CASE i + 1 \in i + 1..Len(log) /\ log[i + 1] \in {<<n, 1>>, <<n, 2>>}
        <4>1. PICK k \in {1, 2} : log[i + 1] = <<n, k>>
          BY <3>1
        <4>2. r = later[i + 2][Go(g.next[n][k])]
          BY <1>0, <1>4, <2>0, <2>2, <3>1, <4>1 DEF FromNode
        <4>3. g.next[n][k] \in Node \cup {None} /\ i + 2 \in i + 1..Len(log) + 1
          BY <1>0, <2>2, <3>1, Wires
        <4>4. QED
          BY <4>2, <4>3, <1>1, Parts
      <3>2. CASE ~(i + 1 \in i + 1..Len(log) /\ log[i + 1] \in {<<n, 1>>, <<n, 2>>})
        <4>1. i + 1 > Len(log) \/ log[i + 1] \notin {<<n, 1>>, <<n, 2>>}
          BY <1>0, <3>2
        <4>2. r \in {Cut, Wrong}
          BY <1>0, <1>4, <2>0, <2>2, <4>1 DEF FromNode
        <4>3. QED
          BY <4>2, <1>2
      <3>3. QED
        BY <3>1, <3>2
    <2>3. CASE g.kind[n] = "sequence"
      <3>1. r = later[i + 1][Rest(n, 0)]
        BY <1>0, <1>4, <2>0, <2>3 DEF FromNode
      <3>2. QED
        BY <3>1, <1>1, <2>0, Parts
    <2>4. CASE g.kind[n] = "loop"
      <3>1. r = later[i + 1][Laps(n)]
        BY <1>0, <1>4, <2>0, <2>4 DEF FromNode
      <3>2. QED
        BY <3>1, <1>1, <2>0, <2>4, Parts
    <2>5. CASE g.kind[n] = "call"
      <3> DEFINE body == later[i + 1][Go(g.into[n])]
      <3>1. r = IF body.how \in {"on", "back"} THEN later[body.at][Go(g.next[n][1])] ELSE body
        BY <1>0, <1>4, <2>0, <2>5 DEF FromNode
      <3>2. body \in Ahead(log, i + 1)
        BY <1>1, <2>0, Parts, Wires
      <3>3. Go(g.next[n][1]) \in Part(g)
        BY <2>5, Wires, Parts
      <3> HIDE DEF body
      <3>4. QED
        BY <3>1, <3>2, <3>3, <1>1 DEF Ahead
    <2>6. CASE g.kind[n] = "return"
      <3>1. r = Back(i + 1)
        BY <1>0, <1>4, <2>0, <2>6 DEF FromNode
      <3>2. QED
        BY <3>1, <1>0, <2>0, Results DEF Ahead
    <2>7. CASE g.kind[n] = "end"
      <3>1. r \in {Cut, Wrong}
        BY <1>0, <1>4, <2>0, <2>7 DEF FromNode
      <3>2. QED
        BY <3>1, <1>2
    <2>8. QED
      BY <2>1, <2>2, <2>3, <2>4, <2>5, <2>6, <2>7, Wires DEF Kind
  <1>5. QED
    BY <1>0, <1>3, <1>4

\* The first wired branch, when there is one.
LEMMA FirstWired ==
  ASSUME NEW g \in Graph, NEW n \in Node, NEW k \in Nat, WiredAfter(g, n, k) # {}
  PROVE  /\ First(WiredAfter(g, n, k)) \in WiredAfter(g, n, k)
         /\ \A q \in WiredAfter(g, n, k) : First(WiredAfter(g, n, k)) <= q
  <1> DEFINE W == WiredAfter(g, n, k)
             S == {o \in Nat : \A q \in W : q > o}
  <1>1. \A q \in W : q \in Nat /\ q > k
    BY Wires DEF WiredAfter
  <1> HIDE DEF W
  <1>2. SUFFICES ASSUME \A o \in W : \E q \in W : ~(o <= q)
                 PROVE  FALSE
    <2>1. \E o \in W : \A q \in W : o <= q
      BY <1>2
    <2>2. QED
      BY <2>1 DEF W, First
  <1>3. 0 \in S
    BY <1>1
  <1>4. ASSUME NEW o \in Nat, o \in S
        PROVE  o + 1 \in S
    <2>1. SUFFICES ASSUME NEW q \in W, ~(q > o + 1)
                   PROVE  FALSE
      OBVIOUS
    <2>2. q \in Nat /\ q > o
      BY <1>1, <1>4
    <2>3. q = o + 1
      BY <2>1, <2>2
    <2>4. PICK y \in W : ~(q <= y)
      BY <1>2
    <2>5. y \in Nat /\ y > o
      BY <1>1, <1>4
    <2>6. QED
      BY <2>2, <2>3, <2>4, <2>5
  <1> HIDE DEF S
  <1>5. \A o \in Nat : o \in S
    BY <1>3, <1>4, Counting
  <1>6. PICK m \in W : TRUE
    BY DEF W
  <1>7. m \in Nat /\ m \in S
    BY <1>1, <1>5
  <1>8. QED
    BY <1>1, <1>7 DEF S

\* The flow from the m-th branch of n, and then from those after it.
BranchFlow(g, log, later, n, m, i) ==
  LET branch == FromNode(g, log, later, g.next[n][m], i)
  IN IF branch.how = "on" THEN later[branch.at][Rest(n, m)] ELSE branch

\* The branches lead nowhere, or the first one wired is taken.
LEMMA BranchTaken ==
  ASSUME NEW g \in Graph, NEW log, NEW n \in Node, NEW k \in Nat, NEW i
  PROVE  \/ \A later : FromBranch(g, log, later, n, k, i) = On(i)
         \/ \E m \in k + 1..Len(g.next[n]) :
              /\ g.next[n][m] \in Node
              /\ \A later : FromBranch(g, log, later, n, k, i) = BranchFlow(g, log, later, n, m, i)
  <1>1. CASE WiredAfter(g, n, k) = {}
    BY <1>1 DEF FromBranch
  <1>2. CASE WiredAfter(g, n, k) # {}
    <2>1. PICK m : m = First(WiredAfter(g, n, k))
      OBVIOUS
    <2>2. m \in k + 1..Len(g.next[n]) /\ g.next[n][m] # None
      BY <1>2, <2>1, FirstWired DEF WiredAfter
    <2>3. g.next[n][m] \in Node
      <3>1. m \in 1..Len(g.next[n])
        BY <2>2, Wires
      <3>2. QED
        BY <2>2, <3>1, Wires
    <2>4. \A later : FromBranch(g, log, later, n, k, i) = BranchFlow(g, log, later, n, m, i)
      BY <1>2, <2>1 DEF FromBranch, BranchFlow
    <2>5. QED
      BY <2>2, <2>3, <2>4
  <1>3. QED
    BY <1>1, <1>2

\* One branch at a time.
LEMMA BranchSteps ==
  ASSUME NEW g \in Graph, NEW log, NEW later, NEW n \in Node, NEW k \in Nat, NEW i
  PROVE  /\ k >= Len(g.next[n]) => FromBranch(g, log, later, n, k, i) = On(i)
         /\ k < Len(g.next[n]) /\ g.next[n][k + 1] = None =>
              FromBranch(g, log, later, n, k, i) = FromBranch(g, log, later, n, k + 1, i)
         /\ k < Len(g.next[n]) /\ g.next[n][k + 1] # None =>
              FromBranch(g, log, later, n, k, i) = BranchFlow(g, log, later, n, k + 1, i)
  <1>0. Len(g.next[n]) \in Nat
    BY Wires
  <1>1. ASSUME k >= Len(g.next[n])
        PROVE  FromBranch(g, log, later, n, k, i) = On(i)
    <2>1. WiredAfter(g, n, k) = {}
      BY <1>0, <1>1 DEF WiredAfter
    <2>2. QED
      BY <2>1 DEF FromBranch
  <1>2. ASSUME k < Len(g.next[n]), g.next[n][k + 1] = None
        PROVE  FromBranch(g, log, later, n, k, i) = FromBranch(g, log, later, n, k + 1, i)
    <2>1. WiredAfter(g, n, k) = WiredAfter(g, n, k + 1)
      BY <1>0, <1>2 DEF WiredAfter
    <2>2. QED
      BY <2>1 DEF FromBranch
  <1>3. ASSUME k < Len(g.next[n]), g.next[n][k + 1] # None
        PROVE  FromBranch(g, log, later, n, k, i) = BranchFlow(g, log, later, n, k + 1, i)
    <2>1. /\ k + 1 \in WiredAfter(g, n, k)
          /\ \A q \in WiredAfter(g, n, k) : q \in Nat /\ k + 1 <= q
      BY <1>0, <1>3 DEF WiredAfter
    <2>2. PICK m : m = First(WiredAfter(g, n, k))
      OBVIOUS
    <2>3. m \in WiredAfter(g, n, k) /\ \A q \in WiredAfter(g, n, k) : m <= q
      BY <2>1, <2>2, FirstWired
    <2>4. m = k + 1
      BY <2>1, <2>3
    <2>5. QED
      BY <2>1, <2>2, <2>4 DEF FromBranch, BranchFlow
  <1>4. QED
    BY <1>1, <1>2, <1>3

\* So does the flow from what is left of a sequence, or of a loop.
LEMMA PartAhead ==
  ASSUME NEW g \in Graph, NEW log \in Seq(Event), NEW i \in 1..Len(log) + 1, NEW later,
         ReadsAhead(g, log, later, i + 1), NEW p \in Part(g)
  PROVE  FromPart(g, log, later, i)[p] \in Ahead(log, i)
  <1> DEFINE r == FromPart(g, log, later, i)[p]
  <1>0. Len(log) \in Nat /\ i \in Nat
    BY LenProperties
  <1>1. \A j \in i + 1..Len(log) + 1 : \A q \in Part(g) :
          later[j][q] \in Ahead(log, j) /\ later[j][q] \in Ahead(log, i)
    BY <1>0 DEF ReadsAhead, Ahead
  <1>2. Cut \in Ahead(log, i) /\ Wrong \in Ahead(log, i) /\ On(i) \in Ahead(log, i)
    BY <1>0, Results DEF Ahead
  <1>3. \A n \in Node : FromNode(g, log, later, n, i) \in Ahead(log, i + 1)
    BY NodeAhead
  <1>4. Ahead(log, i + 1) \subseteq Ahead(log, i)
    BY <1>0 DEF Ahead
  <1>5. CASE p.step = "visit"
    <2>1. r = FromNode(g, log, later, p.node, i)
      BY <1>5 DEF FromPart
    <2>2. p.node = None => r = On(i)
      BY <2>1 DEF FromNode
    <2>3. p.node \in Node \cup {None}
      BY DEF Part
    <2>4. QED
      BY <1>2, <1>3, <1>4, <2>1, <2>2, <2>3
  <1>6. CASE p.step = "branch"
    <2>1. r = FromBranch(g, log, later, p.node, p.index, i)
      BY <1>6 DEF FromPart
    <2>2. p.node \in Node /\ p.index \in Nat
      BY <1>6 DEF Part
    <2>4. ASSUME NEW m \in p.index + 1..Len(g.next[p.node]), g.next[p.node][m] \in Node,
                 r = BranchFlow(g, log, later, p.node, m, i)
          PROVE  r \in Ahead(log, i)
      <3> DEFINE branch == FromNode(g, log, later, g.next[p.node][m], i)
      <3>1. branch \in Ahead(log, i + 1)
        BY <1>3, <2>4
      <3>2. r = IF branch.how = "on" THEN later[branch.at][Rest(p.node, m)] ELSE branch
        BY <2>4 DEF BranchFlow
      <3>3. Rest(p.node, m) \in Part(g)
        BY <2>2, Parts
      <3> HIDE DEF branch, r
      <3>4. QED
        BY <3>1, <3>2, <3>3, <1>1, <1>4 DEF Ahead
    <2> HIDE DEF r
    <2>5. \/ r = On(i)
          \/ \E m \in p.index + 1..Len(g.next[p.node]) :
               /\ g.next[p.node][m] \in Node
               /\ r = BranchFlow(g, log, later, p.node, m, i)
      BY <2>1, <2>2, BranchTaken
    <2>6. r \in Ahead(log, i)
      <3>1. CASE r = On(i)
        BY <3>1, <1>2
      <3>2. CASE r # On(i)
        <4>1. PICK m \in p.index + 1..Len(g.next[p.node]) :
                /\ g.next[p.node][m] \in Node
                /\ r = BranchFlow(g, log, later, p.node, m, i)
          BY <3>2, <2>5
        <4>2. QED
          BY <4>1, <2>4
      <3>3. QED
        BY <3>1, <3>2
    <2>7. QED
      BY <2>6 DEF r
  <1>7. CASE p.step = "lap"
    <2>1. r = FromHead(g, log, later, p.node, i)
      BY <1>7 DEF FromPart
    <2>2. p.node \in Node /\ g.kind[p.node] = "loop"
      BY <1>7 DEF Part
    <2>3. g.next[p.node][1] \in Node \cup {None} /\ g.next[p.node][2] \in Node \cup {None}
      BY <2>2, Wires
    <2>4. Go(g.next[p.node][1]) \in Part(g) /\ Go(g.next[p.node][2]) \in Part(g)
          /\ Laps(p.node) \in Part(g)
      BY <2>2, <2>3, Parts
    <2> DEFINE lap == later[i + 1][Go(g.next[p.node][1])]
    <2>5. \/ r \in {Cut, Wrong}
          \/ i <= Len(log) /\ r = IF lap.how = "on" THEN later[lap.at][Laps(p.node)] ELSE lap
          \/ i <= Len(log) /\ r = later[i + 1][Go(g.next[p.node][2])]
      <3>1. CASE i > Len(log) \/ log[i] \notin {<<p.node, 1>>, <<p.node, 2>>}
        BY <2>1, <3>1 DEF FromHead
      <3>2. CASE ~(i > Len(log)) /\ log[i] = <<p.node, 1>>
        <4>1. r = IF lap.how = "on" THEN later[lap.at][Laps(p.node)] ELSE lap
          BY <2>1, <3>2 DEF FromHead
        <4>2. i <= Len(log)
          BY <3>2, <1>0
        <4> HIDE DEF r, lap
        <4>3. QED
          BY <4>1, <4>2
      <3>3. CASE ~(i > Len(log)) /\ log[i] = <<p.node, 2>>
        <4>1. log[i] # <<p.node, 1>>
          BY <3>3
        <4>2. r = later[i + 1][Go(g.next[p.node][2])]
          BY <2>1, <3>3, <4>1 DEF FromHead
        <4>3. i <= Len(log)
          BY <3>3, <1>0
        <4> HIDE DEF r, lap
        <4>4. QED
          BY <4>2, <4>3
      <3>4. QED
        BY <3>1, <3>2, <3>3
    <2>6. i <= Len(log) => i + 1 \in i + 1..Len(log) + 1
      BY <1>0
    <2>7. i <= Len(log) => lap \in Ahead(log, i + 1)
      BY <2>4, <2>6 DEF ReadsAhead
    <2> HIDE DEF r, lap
    <2>8. r \in Ahead(log, i)
      BY <1>1, <1>2, <1>4, <2>4, <2>5, <2>6, <2>7 DEF Ahead
    <2>9. QED
      BY <2>8 DEF r
  <1>8. QED
    BY <1>5, <1>6, <1>7 DEF Part
\* What is read at i rests on the table after i alone.
LEMMA NodeReads ==
  ASSUME NEW g \in Graph, NEW log \in Seq(Event), NEW i \in 1..Len(log) + 1, NEW later, NEW other,
         ReadsAhead(g, log, later, i + 1),
         \A j \in i + 1..Len(log) + 1 : other[j] = later[j], NEW n \in Node
  PROVE  FromNode(g, log, other, n, i) = FromNode(g, log, later, n, i)
  <1>0. Len(log) \in Nat /\ i \in Nat /\ n # None
    BY FlowAssumption, LenProperties
  <1>1. CASE i > Len(log) \/ log[i] # <<n, 0>>
    BY <1>0, <1>1 DEF FromNode
  <1>2. CASE i \in 1..Len(log) /\ log[i] = <<n, 0>>
    <2>0. i + 1 \in i + 1..Len(log) + 1 /\ ~(i > Len(log))
      BY <1>0, <1>2
    <2>1. other[i + 1] = later[i + 1]
      BY <2>0
    <2>2. CASE g.kind[n] \in {"plain", "agent", "ask", "sequence", "loop", "return", "end"}
      BY <1>0, <1>2, <2>0, <2>1, <2>2 DEF FromNode
    <2>3. CASE g.kind[n] = "decision"
      <3>1. CASE i + 1 > Len(log)
        BY <1>0, <1>2, <2>0, <2>3, <3>1 DEF FromNode
      <3>2. CASE ~(i + 1 > Len(log))
        <4>1. other[i + 2] = later[i + 2]
          BY <1>0, <3>2
        <4>2. QED
          BY <1>0, <1>2, <2>0, <2>3, <3>2, <4>1 DEF FromNode
      <3>3. QED
        BY <3>1, <3>2
    <2>4. CASE g.kind[n] = "call"
      <3> DEFINE body == later[i + 1][Go(g.into[n])]
                 after(t) == IF body.how \in {"on", "back"} THEN t[body.at][Go(g.next[n][1])] ELSE body
      <3>1. FromNode(g, log, later, n, i) = after(later)
        BY <1>0, <1>2, <2>0, <2>4 DEF FromNode
      <3>2. FromNode(g, log, other, n, i) = after(other)
        BY <1>0, <1>2, <2>0, <2>1, <2>4 DEF FromNode
      <3>3. body \in Ahead(log, i + 1)
        BY <2>0, Parts, Wires DEF ReadsAhead
      <3>4. body.how \in {"on", "back"} => other[body.at] = later[body.at]
        <4> HIDE DEF body
        <4>1. QED
          BY <3>3 DEF Ahead
      <3>5. after(other) = after(later)
        <4> HIDE DEF body
        <4>1. QED
          BY <3>4
      <3> HIDE DEF body, after
      <3>6. QED
        BY <3>1, <3>2, <3>5
    <2>5. QED
      BY <2>2, <2>3, <2>4, Wires DEF Kind
  <1>3. QED
    BY <1>0, <1>1, <1>2

\* What a part leads to is read from later positions only: tables that agree
\* there give it the same flow.
LEMMA PartReads ==
  ASSUME NEW g \in Graph, NEW log \in Seq(Event), NEW i \in 1..Len(log) + 1, NEW later, NEW other,
         ReadsAhead(g, log, later, i + 1),
         \A j \in i + 1..Len(log) + 1 : other[j] = later[j]
  PROVE  FromPart(g, log, other, i) = FromPart(g, log, later, i)
  <1>0. Len(log) \in Nat /\ i \in Nat
    BY LenProperties
  <1>1. \A n \in Node : /\ FromNode(g, log, other, n, i) = FromNode(g, log, later, n, i)
                        /\ FromNode(g, log, later, n, i) \in Ahead(log, i + 1)
    BY NodeReads, NodeAhead
  <1>2. ASSUME NEW n \in Node \cup {None}
        PROVE  FromNode(g, log, other, n, i) = FromNode(g, log, later, n, i)
    BY <1>1 DEF FromNode
  <1>3. ASSUME NEW n \in Node, NEW k \in Nat
        PROVE  FromBranch(g, log, other, n, k, i) = FromBranch(g, log, later, n, k, i)
    <2>1. CASE \A t : FromBranch(g, log, t, n, k, i) = On(i)
      BY <2>1
    <2>2. CASE \E m \in k + 1..Len(g.next[n]) :
                 /\ g.next[n][m] \in Node
                 /\ \A t : FromBranch(g, log, t, n, k, i) = BranchFlow(g, log, t, n, m, i)
      <3>1. PICK m \in k + 1..Len(g.next[n]) :
                 /\ g.next[n][m] \in Node
                 /\ \A t : FromBranch(g, log, t, n, k, i) = BranchFlow(g, log, t, n, m, i)
        BY <2>2
      <3>2. PICK branch \in Ahead(log, i + 1) :
              /\ branch = FromNode(g, log, later, g.next[n][m], i)
              /\ branch = FromNode(g, log, other, g.next[n][m], i)
        BY <3>1, <1>1
      <3>3. branch.how = "on" => other[branch.at] = later[branch.at]
        BY <3>2 DEF Ahead
      <3>4. BranchFlow(g, log, other, n, m, i) = BranchFlow(g, log, later, n, m, i)
        BY <3>2, <3>3 DEF BranchFlow
      <3>5. QED
        BY <3>1, <3>4
    <2>3. QED
      BY <2>1, <2>2, BranchTaken
  <1>4. ASSUME NEW n \in Node, g.kind[n] = "loop"
        PROVE  FromHead(g, log, other, n, i) = FromHead(g, log, later, n, i)
    <2>1. CASE i > Len(log)
      BY <2>1 DEF FromHead
    <2>2. CASE ~(i > Len(log))
      <3>1. i + 1 \in i + 1..Len(log) + 1
        BY <1>0, <2>2
      <3>2. PICK lap \in Ahead(log, i + 1) : lap = later[i + 1][Go(g.next[n][1])]
        BY <1>4, <3>1, Parts, Wires DEF ReadsAhead
      <3>3. lap.how = "on" => other[lap.at] = later[lap.at]
        BY <3>2 DEF Ahead
      <3>4. other[i + 1] = later[i + 1]
        BY <3>1
      <3>5. QED
        BY <2>2, <3>2, <3>3, <3>4 DEF FromHead
    <2>3. QED
      BY <2>1, <2>2
  <1>5. ASSUME NEW p \in Part(g)
        PROVE  FromPart(g, log, other, i)[p] = FromPart(g, log, later, i)[p]
    <2>1. CASE p.step = "visit"
      BY <2>1, <1>2 DEF FromPart, Part
    <2>2. CASE p.step = "branch"
      BY <2>2, <1>3 DEF FromPart, Part
    <2>3. CASE p.step = "lap"
      BY <2>3, <1>4 DEF FromPart, Part
    <2>4. QED
      BY <2>1, <2>2, <2>3 DEF Part
  <1>6. QED
    BY <1>5 DEF FromPart

\* A table that is right from a on.
RightFrom(g, log, table, a) ==
  /\ table = [i \in 1..Len(log) + 1 |-> table[i]]
  /\ \A i \in a..Len(log) + 1 : table[i] = FromPart(g, log, table, i)
  /\ ReadsAhead(g, log, table, a)

\* One more position, before those that are right.
LEMMA OneMore ==
  ASSUME NEW g \in Graph, NEW log \in Seq(Event), NEW i \in 1..Len(log) + 1, NEW table,
         RightFrom(g, log, table, i + 1)
  PROVE  \E new : RightFrom(g, log, new, i)
  <1> DEFINE new == [j \in 1..Len(log) + 1 |->
                       IF j = i THEN FromPart(g, log, table, i) ELSE table[j]]
  <1>0. Len(log) \in Nat /\ i \in Nat
    BY LenProperties
  <1>1. /\ table = [j \in 1..Len(log) + 1 |-> table[j]]
        /\ \A j \in i + 1..Len(log) + 1 : table[j] = FromPart(g, log, table, j)
        /\ ReadsAhead(g, log, table, i + 1)
    BY DEF RightFrom
  <1>2. /\ new = [j \in 1..Len(log) + 1 |-> new[j]]
        /\ new[i] = FromPart(g, log, table, i)
        /\ \A j \in i + 1..Len(log) + 1 : new[j] = table[j]
    BY <1>0
  <1> HIDE DEF new
  <1>3. FromPart(g, log, new, i) = FromPart(g, log, table, i)
    <2>1. ReadsAhead(g, log, table, i + 1)
      BY <1>1
    <2>2. \A j \in i + 1..Len(log) + 1 : new[j] = table[j]
      BY <1>2
    <2>3. QED
      BY <2>1, <2>2, PartReads
  <1>4. ASSUME NEW j \in i + 1..Len(log) + 1
        PROVE  new[j] = FromPart(g, log, new, j)
    <2>1. j \in 1..Len(log) + 1 /\ \A k \in j + 1..Len(log) + 1 : k \in i + 1..Len(log) + 1
      BY <1>0
    <2>2. ReadsAhead(g, log, table, j + 1) /\ \A k \in j + 1..Len(log) + 1 : new[k] = table[k]
      BY <1>1, <1>2, <2>1 DEF ReadsAhead
    <2>3. FromPart(g, log, new, j) = FromPart(g, log, table, j)
      BY <2>1, <2>2, PartReads
    <2>4. QED
      BY <1>1, <1>2, <2>3
  <1>5. \A p \in Part(g) : new[i][p] \in Ahead(log, i)
    BY <1>1, <1>2, PartAhead
  <1>6. \A j \in i..Len(log) + 1 : j = i \/ j \in i + 1..Len(log) + 1
    BY <1>0
  <1>7. ReadsAhead(g, log, new, i)
    BY <1>1, <1>2, <1>5, <1>6 DEF ReadsAhead
  <1>8. \A j \in i..Len(log) + 1 : new[j] = FromPart(g, log, new, j)
    BY <1>2, <1>3, <1>4, <1>6
  <1>9. RightFrom(g, log, new, i)
    BY <1>2, <1>7, <1>8 DEF RightFrom
  <1>10. QED
    BY <1>9

\* The table a log is read with exists, and reads ahead.
LEMMA FlowReads ==
  ASSUME NEW g \in Graph, NEW log \in Seq(Event)
  PROVE  /\ \A i \in 1..Len(log) + 1 :
              FlowOf(g, log)[i] = FromPart(g, log, FlowOf(g, log), i)
         /\ ReadsAhead(g, log, FlowOf(g, log), 1)
  <1> DEFINE end == Len(log) + 1
             Reached == {r \in Nat : r <= end => \E table : RightFrom(g, log, table, end + 1 - r)}
             table0 == FlowOf(g, log)
             Known == {r \in Nat : r <= end => ReadsAhead(g, log, table0, end + 1 - r)}
  <1>0. Len(log) \in Nat /\ end \in Nat
    BY LenProperties
  <1>1. 0 \in Reached
    <2>1. end + 1 - 0 = end + 1 /\ \A i : i \notin end + 1..end
      BY <1>0
    <2>2. RightFrom(g, log, [i \in 1..end |-> 0], end + 1)
      BY <2>1 DEF RightFrom, ReadsAhead
    <2>3. QED
      BY <2>1, <2>2
  <1>2. ASSUME NEW r \in Nat, r \in Reached
        PROVE  r + 1 \in Reached
    <2>1. SUFFICES ASSUME r + 1 <= end
                   PROVE  \E table : RightFrom(g, log, table, end + 1 - (r + 1))
      OBVIOUS
    <2>2. PICK i \in 1..end : i = end + 1 - (r + 1) /\ i + 1 = end + 1 - r
      BY <1>0, <2>1
    <2>3. PICK table : RightFrom(g, log, table, i + 1)
      BY <1>0, <1>2, <2>1, <2>2
    <2>4. QED
      BY <2>2, <2>3, OneMore
  <1>3. end \in Reached
    <2> HIDE DEF Reached
    <2>1. QED
      BY <1>0, <1>1, <1>2, Counting
  <1>4. PICK table : RightFrom(g, log, table, 1)
    <2>1. end + 1 - end = 1
      BY <1>0
    <2>2. QED
      BY <1>0, <1>3, <2>1
  <1>5. table = [i \in 1..end |-> FromPart(g, log, table, i)]
    BY <1>4 DEF RightFrom
  <1>6. table0 = [i \in 1..end |-> FromPart(g, log, table0, i)]
    <2>1. table0 = CHOOSE f : f = [i \in 1..end |-> FromPart(g, log, f, i)]
      BY DEF FlowOf
    <2> HIDE DEF table0
    <2>2. QED
      BY <1>5, <2>1
  <1>7. 0 \in Known
    <2>1. end + 1 - 0 = end + 1 /\ \A i : i \notin end + 1..end
      BY <1>0
    <2>2. QED
      BY <2>1 DEF ReadsAhead
  <1>8. ASSUME NEW r \in Nat, r \in Known
        PROVE  r + 1 \in Known
    <2>1. SUFFICES ASSUME r + 1 <= end
                   PROVE  ReadsAhead(g, log, table0, end + 1 - (r + 1))
      OBVIOUS
    <2>2. PICK i \in 1..end : i = end + 1 - (r + 1) /\ i + 1 = end + 1 - r
      BY <1>0, <2>1
    <2>3. ReadsAhead(g, log, table0, i + 1)
      BY <1>0, <1>8, <2>1, <2>2
    <2>4. \A p \in Part(g) : FromPart(g, log, table0, i)[p] \in Ahead(log, i)
      BY <2>3, PartAhead
    <2>5. table0[i] = FromPart(g, log, table0, i)
      <3> HIDE DEF table0
      <3>1. QED
        BY <1>6
    <2>6. \A j \in i..end : j = i \/ j \in i + 1..end
      BY <1>0
    <2> HIDE DEF table0
    <2>7. ReadsAhead(g, log, table0, i)
      BY <2>3, <2>4, <2>5, <2>6 DEF ReadsAhead
    <2>8. QED
      BY <2>2, <2>7
  <1>9. end \in Known
    <2> HIDE DEF Known
    <2>1. QED
      BY <1>0, <1>7, <1>8, Counting
  <1>10. ReadsAhead(g, log, table0, 1)
    <2>1. end + 1 - end = 1
      BY <1>0
    <2>2. QED
      BY <1>0, <1>9, <2>1
  <1>11. \A i \in 1..end : table0[i] = FromPart(g, log, table0, i)
    <2> HIDE DEF table0
    <2>1. QED
      BY <1>6
  <1>12. QED
    BY <1>10, <1>11

\* A program's flow, event by event.
LEMMA FlowSteps ==
  ASSUME NEW g \in Graph, NEW log \in Seq(Event), NEW n \in Node, NEW i \in 1..Len(log),
         log[i] = <<n, 0>>
  PROVE  LET read == FlowOf(g, log)
             here == read[i][Go(n)]
         IN /\ g.kind[n] \in {"plain", "agent", "ask"} => here = read[i + 1][Go(g.next[n][1])]
            /\ g.kind[n] = "decision" /\ i = Len(log) => here = Cut
            /\ \A k \in {1, 2} :
                 g.kind[n] = "decision" /\ i < Len(log) /\ log[i + 1] = <<n, k>> =>
                   here = read[i + 2][Go(g.next[n][k])]
            /\ g.kind[n] = "sequence" => here = read[i + 1][Rest(n, 0)]
            /\ g.kind[n] = "loop" => here = read[i + 1][Laps(n)]
            /\ g.kind[n] = "call" =>
                 here = LET body == read[i + 1][Go(g.into[n])]
                        IN IF body.how \in {"on", "back"} THEN read[body.at][Go(g.next[n][1])]
                           ELSE body
            /\ g.kind[n] = "return" => here = Back(i + 1)
            /\ g.kind[n] = "end" /\ i = Len(log) => here = Cut
  <1> DEFINE read == FlowOf(g, log)
  <1>0. Len(log) \in Nat /\ i \in Nat /\ n # None /\ ~(i > Len(log)) /\ i \in 1..Len(log) + 1
    BY FlowAssumption, LenProperties
  <1>1. read[i][Go(n)] = FromNode(g, log, read, n, i)
    <2>1. Go(n) \in Part(g) /\ Go(n).step = "visit" /\ Go(n).node = n
      BY Parts DEF Go
    <2>2. read[i] = FromPart(g, log, read, i)
      BY <1>0, FlowReads
    <2> HIDE DEF read
    <2>3. QED
      BY <2>1, <2>2 DEF FromPart
  <1> HIDE DEF read
  <1>2. CASE g.kind[n] \in {"plain", "agent", "ask", "sequence", "loop", "return", "end"}
    <2>1. CASE g.kind[n] \in {"plain", "agent", "ask"}
      BY <2>1, <1>0, <1>1 DEF FromNode, read
    <2>2. CASE g.kind[n] = "sequence"
      BY <2>2, <1>0, <1>1 DEF FromNode, read
    <2>3. CASE g.kind[n] = "loop"
      BY <2>3, <1>0, <1>1 DEF FromNode, read
    <2>4. CASE g.kind[n] = "return"
      BY <2>4, <1>0, <1>1 DEF FromNode, read
    <2>5. CASE g.kind[n] = "end"
      BY <2>5, <1>0, <1>1 DEF FromNode, read
    <2>6. QED
      BY <1>2, <2>1, <2>2, <2>3, <2>4, <2>5
  <1>3. CASE g.kind[n] = "decision"
    <2>1. CASE i = Len(log)
      <3>1. read[i][Go(n)] = Cut
        <4>1. i + 1 > Len(log)
          BY <2>1, <1>0
        <4>2. FromNode(g, log, read, n, i) = Cut
          BY <4>1, <1>0, <1>3 DEF FromNode
        <4>3. QED
          BY <4>2, <1>1
      <3>2. QED
        BY <2>1, <3>1, <1>3 DEF read
    <2>2. CASE i < Len(log)
      <3>1. ASSUME NEW k \in {1, 2}, log[i + 1] = <<n, k>>
            PROVE  read[i][Go(n)] = read[i + 2][Go(g.next[n][k])]
        <4>1. ~(i + 1 > Len(log)) /\ log[i + 1] \in {<<n, 1>>, <<n, 2>>} /\ log[i + 1][2] = k
          BY <1>0, <2>2, <3>1
        <4>2. QED
          BY <4>1, <1>0, <1>1, <1>3 DEF FromNode
      <3>2. QED
        BY <2>2, <3>1, <1>3 DEF read
    <2>3. i = Len(log) \/ i < Len(log)
      BY <1>0
    <2>4. QED
      BY <2>1, <2>2, <2>3
  <1>4. CASE g.kind[n] = "call"
    BY <1>4, <1>0, <1>1 DEF FromNode, read
  <1>5. QED
    BY <1>2, <1>3, <1>4, Wires DEF Kind

\* A wire that leads nowhere, and what a step with its count leaves to read.
LEMMA FlowParts ==
  ASSUME NEW g \in Graph, NEW log \in Seq(Event), NEW i \in 1..Len(log) + 1
  PROVE  LET read == FlowOf(g, log)
         IN /\ read[i][Go(None)] = On(i)
            /\ \A p \in Part(g) :
                 /\ p.step = "visit" => read[i][p] = read[i][Go(p.node)]
                 /\ p.step = "branch" => read[i][p] = FromBranch(g, log, read, p.node, p.index, i)
                 /\ p.step = "lap" => read[i][p] = FromHead(g, log, read, p.node, i)
            /\ \A n \in Node : read[i][Go(n)] = FromNode(g, log, read, n, i)
            /\ \A n \in Node, k \in Nat : read[i][Rest(n, k)] = FromBranch(g, log, read, n, k, i)
            /\ \A n \in Node : g.kind[n] = "loop" => read[i][Laps(n)] = FromHead(g, log, read, n, i)
  <1> DEFINE read == FlowOf(g, log)
  <1>1. read[i] = FromPart(g, log, read, i)
    BY FlowReads
  <1> HIDE DEF read
  <1>2. ASSUME NEW p \in Part(g)
        PROVE  /\ p.step = "visit" => read[i][p] = FromNode(g, log, read, p.node, i)
               /\ p.step = "branch" => read[i][p] = FromBranch(g, log, read, p.node, p.index, i)
               /\ p.step = "lap" => read[i][p] = FromHead(g, log, read, p.node, i)
    BY <1>1 DEF FromPart
  <1>3. \A n : Go(n).step = "visit" /\ Go(n).node = n
    BY DEF Go
  <1>4. \A n \in Node \cup {None} : read[i][Go(n)] = FromNode(g, log, read, n, i)
    BY <1>2, <1>3, Parts
  <1>5. read[i][Go(None)] = On(i)
    BY <1>4 DEF FromNode
  <1>6. \A p \in Part(g) : p.step = "visit" => read[i][p] = read[i][Go(p.node)]
    BY <1>2, <1>4 DEF Part
  <1>7. \A n \in Node, k \in Nat : read[i][Rest(n, k)] = FromBranch(g, log, read, n, k, i)
    <2>1. \A n, k : Rest(n, k).step = "branch" /\ Rest(n, k).node = n /\ Rest(n, k).index = k
      BY DEF Rest
    <2>2. QED
      BY <2>1, <1>2, Parts
  <1>8. \A n \in Node : g.kind[n] = "loop" => read[i][Laps(n)] = FromHead(g, log, read, n, i)
    <2>1. \A n : Laps(n).step = "lap" /\ Laps(n).node = n
      BY DEF Laps
    <2>2. QED
      BY <2>1, <1>2, Parts
  <1>9. QED
    BY <1>2, <1>4, <1>5, <1>6, <1>7, <1>8 DEF read

\* At the end of a log nothing is read: the flow goes on, or waits for more.
LEMMA AtTheEnd ==
  ASSUME NEW g \in Graph, NEW log \in Seq(Event), NEW p \in Part(g)
  PROVE  FlowOf(g, log)[Len(log) + 1][p] \in {On(Len(log) + 1), Cut}
  <1> DEFINE read == FlowOf(g, log)
             i == Len(log) + 1
  <1>0. i \in 1..Len(log) + 1 /\ i > Len(log)
    BY LenProperties
  <1>1. \A n \in Node : read[i][Go(n)] = Cut
    <2>1. \A n \in Node : FromNode(g, log, read, n, i) = Cut
      BY <1>0, FlowAssumption DEF FromNode
    <2>2. QED
      BY <1>0, <2>1, FlowParts
  <1>2. CASE p.step = "visit"
    <2>1. p.node \in Node \cup {None}
      BY DEF Part
    <2>2. read[i][p] = read[i][Go(p.node)] /\ read[i][Go(None)] = On(i)
      BY <1>0, <1>2, FlowParts
    <2> HIDE DEF read, i
    <2>3. read[i][p] \in {On(i), Cut}
      BY <1>1, <2>1, <2>2
    <2>4. QED
      BY <2>3 DEF read, i
  <1>3. CASE p.step = "branch"
    <2>1. p.node \in Node /\ p.index \in Nat
      BY <1>3 DEF Part
    <2>2. read[i][p] = FromBranch(g, log, read, p.node, p.index, i)
      BY <1>0, <1>3, FlowParts
    <2>3. \A n \in Node : FromNode(g, log, read, n, i) = Cut
      BY <1>0, FlowAssumption DEF FromNode
    <2> HIDE DEF read, i
    <2>4. ASSUME \A later : FromBranch(g, log, later, p.node, p.index, i) = On(i)
          PROVE  read[i][p] = On(i)
      BY <2>2, <2>4
    <2>5. ASSUME \E m \in p.index + 1..Len(g.next[p.node]) :
                   /\ g.next[p.node][m] \in Node
                   /\ \A later : FromBranch(g, log, later, p.node, p.index, i) =
                                   BranchFlow(g, log, later, p.node, m, i)
          PROVE  read[i][p] = Cut
      <3>1. PICK m \in p.index + 1..Len(g.next[p.node]) :
              /\ g.next[p.node][m] \in Node
              /\ \A later : FromBranch(g, log, later, p.node, p.index, i) =
                              BranchFlow(g, log, later, p.node, m, i)
        BY <2>5
      <3>2. BranchFlow(g, log, read, p.node, m, i) = Cut
        BY <2>3, <3>1, Results DEF BranchFlow
      <3>3. QED
        BY <2>2, <3>1, <3>2
    <2>6. read[i][p] \in {On(i), Cut}
      BY <2>1, <2>4, <2>5, BranchTaken
    <2>7. QED
      BY <2>6 DEF read, i
  <1>4. CASE p.step = "lap"
    <2>1. read[i][p] = FromHead(g, log, read, p.node, i)
      BY <1>0, <1>4, FlowParts
    <2>2. QED
      BY <1>0, <2>1 DEF FromHead
  <1>5. QED
    BY <1>2, <1>3, <1>4 DEF Part

-----------------------------------------------------------------------------
(* What follows.                                                           *)

\* What follows says, for every event the flow may come to, where it goes from
\* there; at the end of the log it never goes wrong.
Following(log) ==
  {c \in [1..Len(log) + 1 -> Result] : c[Len(log) + 1].how # "wrong"}

\* A result, and what follows when the flow goes on or leaves the function.
After(r, c, b) ==
  IF r.how = "on" THEN c[r.at] ELSE IF r.how = "back" THEN b[r.at] ELSE r

Via(g, log, p, c, b) == [i \in 1..Len(log) + 1 |-> After(FlowOf(g, log)[i][p], c, b)]

\* A part before what follows follows too.
LEMMA ViaFollows ==
  ASSUME NEW g \in Graph, NEW log \in Seq(Event), NEW p \in Part(g),
         NEW c \in Following(log), NEW b \in Following(log)
  PROVE  Via(g, log, p, c, b) \in Following(log)
  <1> DEFINE end == Len(log) + 1
             read == FlowOf(g, log)
  <1>0. end \in Nat /\ end \in 1..end
    BY LenProperties
  <1>1. /\ c \in [1..end -> Result] /\ c[end].how # "wrong"
        /\ b \in [1..end -> Result] /\ b[end].how # "wrong"
    BY DEF Following
  <1>2. \A i \in 1..end : read[i][p] \in Ahead(log, i)
    BY FlowReads DEF ReadsAhead
  <1>3. read[end][p] \in {On(end), Cut}
    BY AtTheEnd
  <1> HIDE DEF read
  <1>4. ASSUME NEW i \in 1..end
        PROVE  After(read[i][p], c, b) \in Result
    <2>1. read[i][p].how \in {"on", "back"} => read[i][p].at \in 1..end
      BY <1>0, <1>2 DEF Ahead
    <2>2. read[i][p] \in Result
      BY <1>2 DEF Ahead
    <2>3. QED
      BY <1>1, <2>1, <2>2 DEF After
  <1>5. After(read[end][p], c, b).how # "wrong"
    BY <1>0, <1>1, <1>3, Results DEF After
  <1> HIDE DEF end
  <1>6. [i \in 1..end |-> After(read[i][p], c, b)] \in [1..end -> Result]
    BY <1>4
  <1>7. [i \in 1..end |-> After(read[i][p], c, b)][end] = After(read[end][p], c, b)
    BY <1>0
  <1>8. QED
    BY <1>5, <1>6, <1>7 DEF Via, Following, read, end

\* Before a wire that leads nowhere nothing changes.
LEMMA ViaNowhere ==
  ASSUME NEW g \in Graph, NEW log \in Seq(Event), NEW c \in Following(log), NEW b
  PROVE  Via(g, log, Go(None), c, b) = c
  <1>1. \A i \in 1..Len(log) + 1 : FlowOf(g, log)[i][Go(None)] = On(i)
    BY FlowParts
  <1>2. \A i \in 1..Len(log) + 1 : After(FlowOf(g, log)[i][Go(None)], c, b) = c[i]
    BY <1>1, Results DEF After
  <1>3. c = [i \in 1..Len(log) + 1 |-> c[i]]
    BY DEF Following
  <1>4. QED
    BY <1>2, <1>3 DEF Via

\* A step of the stack is read as its part, whatever it counts.
LEMMA ViaStep ==
  ASSUME NEW g \in Graph, NEW log \in Seq(Event), NEW p \in Part(g), NEW c, NEW b
  PROVE  /\ p.step = "visit" => Via(g, log, p, c, b) = Via(g, log, Go(p.node), c, b)
         /\ p.step = "branch" => Via(g, log, p, c, b) = Via(g, log, Rest(p.node, p.index), c, b)
         /\ p.step = "lap" => Via(g, log, p, c, b) = Via(g, log, Laps(p.node), c, b)
  <1> DEFINE read == FlowOf(g, log)
  <1>1. /\ p.step \in {"branch", "lap"} => p.node \in Node
        /\ p.step = "lap" => g.kind[p.node] = "loop"
        /\ p.index \in Nat
    BY DEF Part
  <1>2. ASSUME NEW i \in 1..Len(log) + 1
        PROVE  /\ p.step = "visit" => read[i][p] = read[i][Go(p.node)]
               /\ p.step = "branch" => read[i][p] = read[i][Rest(p.node, p.index)]
               /\ p.step = "lap" => read[i][p] = read[i][Laps(p.node)]
    BY <1>1, FlowParts
  <1> HIDE DEF read
  <1>3. QED
    BY <1>2 DEF Via, read

\* A sequence takes its branches in turn.
LEMMA ViaBranch ==
  ASSUME NEW g \in Graph, NEW log \in Seq(Event), NEW n \in Node, NEW k \in Nat,
         NEW c \in Following(log), NEW b \in Following(log)
  PROVE  Via(g, log, Rest(n, k), c, b) =
           IF k >= Len(g.next[n]) THEN c
           ELSE Via(g, log, Go(g.next[n][k + 1]), Via(g, log, Rest(n, k + 1), c, b), b)
  <1> DEFINE read == FlowOf(g, log)
             end == Len(log) + 1
             rest == Via(g, log, Rest(n, k + 1), c, b)
  <1>0. Len(g.next[n]) \in Nat /\ c = [i \in 1..end |-> c[i]]
    BY Wires DEF Following
  <1>1. \A i \in 1..end : /\ read[i][Rest(n, k)] = FromBranch(g, log, read, n, k, i)
                          /\ read[i][Rest(n, k + 1)] = FromBranch(g, log, read, n, k + 1, i)
    BY FlowParts
  <1>2. CASE k >= Len(g.next[n])
    <2>1. \A i \in 1..end : read[i][Rest(n, k)] = On(i)
      BY <1>1, <1>2, BranchSteps
    <2>2. \A i \in 1..end : After(read[i][Rest(n, k)], c, b) = c[i]
      BY <2>1, Results DEF After
    <2> HIDE DEF read
    <2>3. QED
      BY <1>0, <1>2, <2>2 DEF Via, read
  <1>3. CASE ~(k >= Len(g.next[n])) /\ g.next[n][k + 1] = None
    <2>1. \A i \in 1..end : read[i][Rest(n, k)] = read[i][Rest(n, k + 1)]
      BY <1>0, <1>1, <1>3, BranchSteps
    <2>2. Via(g, log, Rest(n, k), c, b) = rest
      BY <2>1 DEF Via
    <2>3. rest \in Following(log)
      BY Parts, ViaFollows
    <2>4. Via(g, log, Go(None), rest, b) = rest
      BY <2>3, ViaNowhere
    <2>5. QED
      BY <1>3, <2>2, <2>4
  <1>4. CASE ~(k >= Len(g.next[n])) /\ g.next[n][k + 1] # None
    <2>1. g.next[n][k + 1] \in Node
      <3>1. k + 1 \in 1..Len(g.next[n])
        BY <1>0, <1>4
      <3>2. QED
        BY <1>4, <3>1, Wires
    <2> DEFINE m == g.next[n][k + 1]
    <2>2. ASSUME NEW i \in 1..end
          PROVE  After(read[i][Rest(n, k)], c, b) = After(read[i][Go(m)], rest, b)
      <3>1. PICK branch \in Ahead(log, i) : branch = read[i][Go(m)]
        BY <2>1, FlowReads, Parts DEF ReadsAhead
      <3>2. branch = FromNode(g, log, read, m, i)
        BY <2>1, <3>1, FlowParts
      <3>3. read[i][Rest(n, k)] = IF branch.how = "on" THEN read[branch.at][Rest(n, k + 1)] ELSE branch
        <4>1. read[i][Rest(n, k)] = FromBranch(g, log, read, n, k, i)
          BY <1>1
        <4> HIDE DEF read
        <4>2. FromBranch(g, log, read, n, k, i) = BranchFlow(g, log, read, n, k + 1, i)
          BY <1>0, <1>4, BranchSteps
        <4>3. QED
          BY <3>2, <4>1, <4>2 DEF BranchFlow
      <3>4. branch.how = "on" => branch.at \in 1..end
        <4>1. \A r \in Ahead(log, i) : r.how = "on" => r.at \in i..end
          BY DEF Ahead
        <4>2. \A at \in i..end : at \in 1..end
          BY LenProperties
        <4>3. QED
          BY <3>1, <4>1, <4>2
      <3>5. branch.how = "on" => rest[branch.at] = After(read[branch.at][Rest(n, k + 1)], c, b)
        BY <3>4 DEF Via
      <3> HIDE DEF read, rest
      <3>6. CASE branch.how = "on"
        BY <3>1, <3>3, <3>5, <3>6 DEF After
      <3>7. CASE branch.how # "on"
        BY <3>1, <3>3, <3>7 DEF After
      <3>8. QED
        BY <3>6, <3>7
    <2> HIDE DEF read, rest
    <2>3. QED
      BY <1>4, <2>2 DEF Via, read, rest
  <1>5. QED
    BY <1>2, <1>3, <1>4

\* A loop takes its next lap, or what comes after it.
LEMMA ViaHead ==
  ASSUME NEW g \in Graph, NEW log \in Seq(Event), NEW n \in Node, g.kind[n] = "loop",
         NEW c \in Following(log), NEW b \in Following(log), NEW i \in 1..Len(log)
  PROVE  /\ log[i] = <<n, 1>> =>
              Via(g, log, Laps(n), c, b)[i] =
                Via(g, log, Go(g.next[n][1]), Via(g, log, Laps(n), c, b), b)[i + 1]
         /\ log[i] = <<n, 2>> =>
              Via(g, log, Laps(n), c, b)[i] = Via(g, log, Go(g.next[n][2]), c, b)[i + 1]
  <1> DEFINE read == FlowOf(g, log)
             end == Len(log) + 1
             head == Via(g, log, Laps(n), c, b)
  <1>0. /\ Len(log) \in Nat /\ i \in 1..end /\ i + 1 \in 1..end /\ ~(i > Len(log))
        /\ g.next[n][1] \in Node \cup {None} /\ g.next[n][2] \in Node \cup {None}
    BY LenProperties, Wires
  <1>1. read[i][Laps(n)] = FromHead(g, log, read, n, i)
    BY <1>0, FlowParts
  <1>2. head[i] = After(read[i][Laps(n)], c, b)
    BY <1>0 DEF Via
  <1>3. ASSUME log[i] = <<n, 1>>
        PROVE  head[i] = Via(g, log, Go(g.next[n][1]), head, b)[i + 1]
    <2>1. PICK lap \in Ahead(log, i + 1) : lap = read[i + 1][Go(g.next[n][1])]
      BY <1>0, FlowReads, Parts DEF ReadsAhead
    <2>2. read[i][Laps(n)] = IF lap.how = "on" THEN read[lap.at][Laps(n)] ELSE lap
      BY <1>0, <1>1, <1>3, <2>1 DEF FromHead
    <2>3. lap.how = "on" => lap.at \in 1..end
      BY <1>0, <2>1 DEF Ahead
    <2>4. lap.how = "on" => head[lap.at] = After(read[lap.at][Laps(n)], c, b)
      BY <2>3 DEF Via
    <2>5. Via(g, log, Go(g.next[n][1]), head, b)[i + 1] = After(lap, head, b)
      BY <1>0, <2>1 DEF Via
    <2> HIDE DEF read, head
    <2>6. CASE lap.how = "on"
      BY <1>2, <2>2, <2>4, <2>5, <2>6 DEF After
    <2>7. CASE lap.how # "on"
      BY <1>2, <2>2, <2>5, <2>7 DEF After
    <2>8. QED
      BY <2>6, <2>7
  <1>4. ASSUME log[i] = <<n, 2>>
        PROVE  head[i] = Via(g, log, Go(g.next[n][2]), c, b)[i + 1]
    <2>1. log[i] # <<n, 1>>
      BY <1>4
    <2>2. read[i][Laps(n)] = read[i + 1][Go(g.next[n][2])]
      BY <1>0, <1>1, <1>4, <2>1 DEF FromHead
    <2>3. Via(g, log, Go(g.next[n][2]), c, b)[i + 1] =
            After(read[i + 1][Go(g.next[n][2])], c, b)
      BY <1>0 DEF Via
    <2>4. QED
      BY <1>2, <2>2, <2>3
  <1>5. QED
    BY <1>3, <1>4

\* A node that started goes where its kind says.
LEMMA ViaNode ==
  ASSUME NEW g \in Graph, NEW log \in Seq(Event), NEW n \in Node, NEW i \in 1..Len(log),
         log[i] = <<n, 0>>, NEW c \in Following(log), NEW b \in Following(log)
  PROVE  LET here == After(FlowOf(g, log)[i][Go(n)], c, b)
         IN /\ g.kind[n] \in {"plain", "agent", "ask"} =>
                 here = Via(g, log, Go(g.next[n][1]), c, b)[i + 1]
            /\ \A k \in {1, 2} :
                 g.kind[n] = "decision" /\ i < Len(log) /\ log[i + 1] = <<n, k>> =>
                   here = Via(g, log, Go(g.next[n][k]), c, b)[i + 2]
            /\ g.kind[n] = "sequence" => here = Via(g, log, Rest(n, 0), c, b)[i + 1]
            /\ g.kind[n] = "loop" => here = Via(g, log, Laps(n), c, b)[i + 1]
            /\ g.kind[n] = "call" =>
                 LET back == Via(g, log, Go(g.next[n][1]), c, b)
                 IN here = Via(g, log, Go(g.into[n]), back, back)[i + 1]
            /\ g.kind[n] = "return" => here = b[i + 1]
            /\ i = Len(log) => here.how # "wrong"
  <1> DEFINE read == FlowOf(g, log)
             end == Len(log) + 1
             here == After(read[i][Go(n)], c, b)
  <1>0. /\ Len(log) \in Nat /\ i \in Nat /\ i + 1 \in 1..end
        /\ \A p : Via(g, log, p, c, b)[i + 1] = After(read[i + 1][p], c, b)
    BY LenProperties DEF Via
  <1>00. /\ g.kind[n] \in {"plain", "agent", "ask"} =>
              read[i][Go(n)] = read[i + 1][Go(g.next[n][1])]
         /\ \A k \in {1, 2} :
              g.kind[n] = "decision" /\ i < Len(log) /\ log[i + 1] = <<n, k>> =>
                read[i][Go(n)] = read[i + 2][Go(g.next[n][k])]
         /\ g.kind[n] = "return" => read[i][Go(n)] = Back(i + 1)
    BY FlowSteps
  <1>1. ASSUME g.kind[n] \in {"plain", "agent", "ask"}
        PROVE  here = Via(g, log, Go(g.next[n][1]), c, b)[i + 1]
    <2>1. read[i][Go(n)] = read[i + 1][Go(g.next[n][1])]
      BY <1>1, <1>00
    <2>2. QED
      BY <1>0, <2>1
  <1>2. ASSUME NEW k \in {1, 2}, g.kind[n] = "decision", i < Len(log), log[i + 1] = <<n, k>>
        PROVE  here = Via(g, log, Go(g.next[n][k]), c, b)[i + 2]
    <2>1. read[i][Go(n)] = read[i + 2][Go(g.next[n][k])]
      BY <1>2, <1>00
    <2>2. i + 2 \in 1..end
      BY <1>0, <1>2
    <2>3. Via(g, log, Go(g.next[n][k]), c, b)[i + 2] = After(read[i + 2][Go(g.next[n][k])], c, b)
      BY <2>2 DEF Via
    <2>4. QED
      BY <2>1, <2>3
  <1>3. ASSUME g.kind[n] = "sequence"
        PROVE  here = Via(g, log, Rest(n, 0), c, b)[i + 1]
    <2>1. read[i][Go(n)] = read[i + 1][Rest(n, 0)]
      BY <1>3, FlowSteps
    <2>2. QED
      BY <1>0, <2>1
  <1>4. ASSUME g.kind[n] = "loop"
        PROVE  here = Via(g, log, Laps(n), c, b)[i + 1]
    <2>1. read[i][Go(n)] = read[i + 1][Laps(n)]
      BY <1>4, FlowSteps
    <2>2. QED
      BY <1>0, <2>1
  <1>5. ASSUME g.kind[n] = "call"
        PROVE  LET back == Via(g, log, Go(g.next[n][1]), c, b)
               IN here = Via(g, log, Go(g.into[n]), back, back)[i + 1]
    <2> DEFINE back == Via(g, log, Go(g.next[n][1]), c, b)
    <2>1. PICK body \in Ahead(log, i + 1) : body = read[i + 1][Go(g.into[n])]
      BY <1>0, FlowReads, Parts, Wires DEF ReadsAhead
    <2>2. read[i][Go(n)] =
            IF body.how \in {"on", "back"} THEN read[body.at][Go(g.next[n][1])] ELSE body
      BY <1>5, <2>1, FlowSteps
    <2>3. body.how \in {"on", "back"} => body.at \in 1..end
      BY <1>0, <2>1 DEF Ahead
    <2>4. body.how \in {"on", "back"} => back[body.at] = After(read[body.at][Go(g.next[n][1])], c, b)
      BY <2>3 DEF Via
    <2>5. Via(g, log, Go(g.into[n]), back, back)[i + 1] = After(body, back, back)
      BY <1>0, <2>1 DEF Via
    <2> HIDE DEF read, back
    <2>6. ASSUME body.how \in {"on", "back"}
          PROVE  here = Via(g, log, Go(g.into[n]), back, back)[i + 1]
      BY <2>2, <2>4, <2>5, <2>6 DEF After
    <2>7. ASSUME body.how \notin {"on", "back"}
          PROVE  here = Via(g, log, Go(g.into[n]), back, back)[i + 1]
      BY <2>2, <2>5, <2>7 DEF After
    <2>8. here = Via(g, log, Go(g.into[n]), back, back)[i + 1]
      BY <2>6, <2>7
    <2>9. QED
      BY <2>8 DEF back
  <1>6. ASSUME g.kind[n] = "return"
        PROVE  here = b[i + 1]
    <2>1. read[i][Go(n)] = Back(i + 1)
      BY <1>6, <1>00
    <2>2. QED
      BY <2>1, Results DEF After
  <1>7. ASSUME i = Len(log)
        PROVE  here.how # "wrong"
    <2>1. \A p \in Part(g) : Via(g, log, p, c, b)[i + 1].how # "wrong"
      <3>1. \A p \in Part(g) : Via(g, log, p, c, b) \in Following(log)
        BY ViaFollows
      <3>2. \A f \in Following(log) : f[Len(log) + 1].how # "wrong"
        BY DEF Following
      <3>3. QED
        BY <1>7, <3>1, <3>2
    <2>2. CASE g.kind[n] \in {"plain", "agent", "ask"}
      BY <1>1, <2>1, <2>2, Wires, Parts
    <2>3. CASE g.kind[n] \in {"decision", "end"}
      <3>1. read[i][Go(n)] = Cut
        <4>1. CASE g.kind[n] = "decision"
          BY <1>7, <4>1, FlowSteps
        <4>2. CASE g.kind[n] = "end"
          BY <1>7, <4>2, FlowSteps
        <4>3. QED
          BY <2>3, <4>1, <4>2
      <3>2. QED
        BY <3>1, Results DEF After
    <2>4. CASE g.kind[n] = "sequence"
      BY <1>3, <2>1, <2>4, Parts
    <2>5. CASE g.kind[n] = "loop"
      BY <1>4, <2>1, <2>5, Parts
    <2>6. CASE g.kind[n] = "call"
      <3> DEFINE back == Via(g, log, Go(g.next[n][1]), c, b)
      <3>1. back \in Following(log)
        BY <2>6, Wires, Parts, ViaFollows
      <3>2. Via(g, log, Go(g.into[n]), back, back) \in Following(log)
        BY <3>1, Wires, Parts, ViaFollows
      <3>3. here = Via(g, log, Go(g.into[n]), back, back)[i + 1]
        BY <1>5, <2>6
      <3> HIDE DEF here, back
      <3>4. QED
        BY <1>7, <3>2, <3>3 DEF Following
    <2>7. CASE g.kind[n] = "return"
      BY <1>6, <1>7, <2>7 DEF Following
    <2>8. QED
      BY <2>2, <2>3, <2>4, <2>5, <2>6, <2>7, Wires DEF Kind
  <1>8. QED
    BY <1>1, <1>2, <1>3, <1>4, <1>5, <1>6, <1>7

\* What ViaNode says of each kind of node. A node that runs takes its wire.
LEMMA ViaWire ==
  ASSUME NEW g \in Graph, NEW log \in Seq(Event), NEW n \in Node, NEW i \in 1..Len(log),
         log[i] = <<n, 0>>, NEW c \in Following(log), NEW b \in Following(log),
         g.kind[n] \in {"plain", "agent", "ask"}
  PROVE  After(FlowOf(g, log)[i][Go(n)], c, b) = Via(g, log, Go(g.next[n][1]), c, b)[i + 1]
  BY ViaNode

\* A judgement takes the wire of its answer.
LEMMA ViaJudged ==
  ASSUME NEW g \in Graph, NEW log \in Seq(Event), NEW n \in Node, NEW i \in 1..Len(log),
         log[i] = <<n, 0>>, NEW c \in Following(log), NEW b \in Following(log),
         NEW k \in {1, 2}, g.kind[n] = "decision", i < Len(log), log[i + 1] = <<n, k>>
  PROVE  After(FlowOf(g, log)[i][Go(n)], c, b) = Via(g, log, Go(g.next[n][k]), c, b)[i + 2]
  BY ViaNode

\* A sequence starts its first branch.
LEMMA ViaSequence ==
  ASSUME NEW g \in Graph, NEW log \in Seq(Event), NEW n \in Node, NEW i \in 1..Len(log),
         log[i] = <<n, 0>>, NEW c \in Following(log), NEW b \in Following(log),
         g.kind[n] = "sequence"
  PROVE  After(FlowOf(g, log)[i][Go(n)], c, b) = Via(g, log, Rest(n, 0), c, b)[i + 1]
  BY ViaNode

\* A loop comes to its head.
LEMMA ViaLoop ==
  ASSUME NEW g \in Graph, NEW log \in Seq(Event), NEW n \in Node, NEW i \in 1..Len(log),
         log[i] = <<n, 0>>, NEW c \in Following(log), NEW b \in Following(log),
         g.kind[n] = "loop"
  PROVE  After(FlowOf(g, log)[i][Go(n)], c, b) = Via(g, log, Laps(n), c, b)[i + 1]
  BY ViaNode

\* A call goes into its function, which returns to what the call leads to.
LEMMA ViaCall ==
  ASSUME NEW g \in Graph, NEW log \in Seq(Event), NEW n \in Node, NEW i \in 1..Len(log),
         log[i] = <<n, 0>>, NEW c \in Following(log), NEW b \in Following(log),
         g.kind[n] = "call"
  PROVE  After(FlowOf(g, log)[i][Go(n)], c, b) =
           Via(g, log, Go(g.into[n]), Via(g, log, Go(g.next[n][1]), c, b),
                                      Via(g, log, Go(g.next[n][1]), c, b))[i + 1]
  BY ViaNode

\* A return leads where its walk was called from.
LEMMA ViaReturn ==
  ASSUME NEW g \in Graph, NEW log \in Seq(Event), NEW n \in Node, NEW i \in 1..Len(log),
         log[i] = <<n, 0>>, NEW c \in Following(log), NEW b \in Following(log),
         g.kind[n] = "return"
  PROVE  After(FlowOf(g, log)[i][Go(n)], c, b) = b[i + 1]
  BY ViaNode

\* A node that started last leads nowhere wrong.
LEMMA ViaLast ==
  ASSUME NEW g \in Graph, NEW log \in Seq(Event), NEW n \in Node, NEW i \in 1..Len(log),
         log[i] = <<n, 0>>, NEW c \in Following(log), NEW b \in Following(log), i = Len(log)
  PROVE  After(FlowOf(g, log)[i][Go(n)], c, b).how # "wrong"
  BY ViaNode

\* The steps of one walk, from where c follows to the exit of its stack.
Leads(g, log, todo, c, exit, b) ==
  \E chain \in [1..Len(todo) + 1 -> Following(log)] :
    /\ chain[1] = c /\ chain[Len(todo) + 1] = exit
    /\ \A j \in 1..Len(todo) : chain[j] = Via(g, log, todo[j], chain[j + 1], b)

\* A walk with nothing left is at its exit.
LEMMA LeadsOut ==
  ASSUME NEW g, NEW log, NEW c, NEW exit, NEW b, Leads(g, log, <<>>, c, exit, b)
  PROVE  c = exit
  BY DEF Leads

\* And a walk at its exit has nothing left to do.
LEMMA LeadsIn ==
  ASSUME NEW g, NEW log, NEW exit \in Following(log), NEW b
  PROVE  Leads(g, log, <<>>, exit, exit, b)
  <1>1. /\ [j \in 1..1 |-> exit] \in [1..Len(<<>>) + 1 -> Following(log)]
        /\ [j \in 1..1 |-> exit][1] = exit /\ Len(<<>>) + 1 = 1
        /\ \A j : j \notin 1..Len(<<>>)
    OBVIOUS
  <1>2. QED
    BY <1>1 DEF Leads

\* One step more on a stack.
LEMMA LeadsMore ==
  ASSUME NEW g \in Graph, NEW log \in Seq(Event), NEW todo \in Seq(Part(g)), NEW p \in Part(g),
         NEW c \in Following(log), NEW exit, NEW b \in Following(log),
         Leads(g, log, todo, c, exit, b)
  PROVE  Leads(g, log, <<p>> \o todo, Via(g, log, p, c, b), exit, b)
  <1> DEFINE new == <<p>> \o todo
             n == Len(todo)
  <1>0. n \in Nat
    BY LenProperties
  <1>1. PICK chain \in [1..n + 1 -> Following(log)] :
          /\ chain[1] = c /\ chain[n + 1] = exit
          /\ \A j \in 1..n : chain[j] = Via(g, log, todo[j], chain[j + 1], b)
    BY DEF Leads
  <1>2. /\ Len(new) = n + 1 /\ new[1] = p
        /\ \A j \in 2..n + 1 : new[j] = todo[j - 1]
    BY <1>0
  <1> DEFINE chain2 == [j \in 1..n + 2 |-> IF j = 1 THEN Via(g, log, p, c, b) ELSE chain[j - 1]]
  <1>3. /\ chain2[1] = Via(g, log, p, c, b)
        /\ \A j \in 1..n + 1 : chain2[j + 1] = chain[j]
        /\ \A j \in 2..n + 2 : chain2[j] = chain[j - 1]
    BY <1>0
  <1>4. chain2 \in [1..n + 2 -> Following(log)]
    <2>1. Via(g, log, p, c, b) \in Following(log)
      BY ViaFollows
    <2>2. ASSUME NEW j \in 1..n + 2
          PROVE  chain2[j] \in Following(log)
      <3>1. CASE j = 1
        BY <1>3, <2>1, <3>1
      <3>2. CASE j # 1
        <4>1. j \in 2..n + 2 /\ j - 1 \in 1..n + 1
          BY <1>0, <3>2
        <4> HIDE DEF chain2
        <4>2. QED
          BY <1>3, <4>1
      <3>3. QED
        BY <3>1, <3>2
    <2>3. QED
      BY <2>2
  <1> HIDE DEF chain2, new, n
  <1>5. ASSUME NEW j \in 1..n + 1
        PROVE  chain2[j] = Via(g, log, new[j], chain2[j + 1], b)
    <2>1. CASE j = 1
      BY <1>0, <1>1, <1>2, <1>3, <2>1
    <2>2. CASE j # 1
      <3>1. j - 1 \in 1..n /\ (j - 1) + 1 = j /\ j \in 2..n + 1 /\ j \in 2..n + 2
        BY <1>0, <2>2
      <3>2. chain2[j] = chain[j - 1] /\ chain2[j + 1] = chain[j] /\ new[j] = todo[j - 1]
        BY <1>2, <1>3, <3>1
      <3>3. QED
        BY <1>1, <3>1, <3>2
    <2>3. QED
      BY <2>1, <2>2
  <1>6. /\ chain2 \in [1..Len(new) + 1 -> Following(log)]
        /\ chain2[Len(new) + 1] = exit
        /\ \A j \in 1..Len(new) : chain2[j] = Via(g, log, new[j], chain2[j + 1], b)
    <2>1. Len(new) + 1 = n + 2 /\ n + 1 \in 1..n + 1 /\ (n + 1) + 1 = n + 2
      BY <1>0, <1>2
    <2>2. chain2[Len(new) + 1] = exit
      BY <1>1, <1>3, <2>1
    <2>3. QED
      BY <1>2, <1>4, <1>5, <2>1, <2>2
  <1>7. Leads(g, log, new, Via(g, log, p, c, b), exit, b)
    BY <1>3, <1>6 DEF Leads
  <1>8. QED
    BY <1>7 DEF new

\* A stack without the step on top.
LEMMA WithoutFirst ==
  ASSUME NEW S, NEW s \in Seq(S), s # <<>>
  PROVE  /\ SubSeq(s, 2, Len(s)) \in Seq(S) /\ Len(SubSeq(s, 2, Len(s))) = Len(s) - 1
         /\ \A j \in 1..Len(s) - 1 : SubSeq(s, 2, Len(s))[j] = s[j + 1]
  <1>1. SubSeq(s, 2, Len(s)) = Tail(s)
    BY TailIsSubSeq
  <1>2. /\ Tail(s) \in Seq(S) /\ Len(Tail(s)) = Len(s) - 1
        /\ \A j \in 1..Len(Tail(s)) : Tail(s)[j] = s[j + 1]
    BY HeadTailProperties
  <1>3. QED
    BY <1>1, <1>2

\* The first step of a stack, and the others.
LEMMA LeadsLess ==
  ASSUME NEW g \in Graph, NEW log \in Seq(Event), NEW todo \in Seq(Part(g)), todo # <<>>,
         NEW c, NEW exit, NEW b, Leads(g, log, todo, c, exit, b)
  PROVE  \E d \in Following(log) :
           /\ Leads(g, log, SubSeq(todo, 2, Len(todo)), d, exit, b)
           /\ c = Via(g, log, Head(todo), d, b)
  <1> DEFINE new == SubSeq(todo, 2, Len(todo))
             n == Len(todo)
  <1>0. n \in Nat \ {0} /\ Head(todo) = todo[1]
    BY EmptySeq
  <1>1. PICK chain \in [1..n + 1 -> Following(log)] :
          /\ chain[1] = c /\ chain[n + 1] = exit
          /\ \A j \in 1..n : chain[j] = Via(g, log, todo[j], chain[j + 1], b)
    BY DEF Leads
  <1>2. Len(new) = n - 1 /\ \A j \in 1..n - 1 : new[j] = todo[j + 1]
    BY WithoutFirst
  <1> DEFINE chain2 == [j \in 1..n |-> chain[j + 1]]
  <1>3. chain2 \in [1..n -> Following(log)] /\ \A j \in 1..n : chain2[j] = chain[j + 1]
    BY <1>0, <1>1
  <1> HIDE DEF chain2, new, n
  <1>4. ASSUME NEW j \in 1..n - 1
        PROVE  chain2[j] = Via(g, log, new[j], chain2[j + 1], b)
    <2>1. j + 1 \in 1..n /\ j \in 1..n
      BY <1>0
    <2>2. chain2[j] = chain[j + 1] /\ chain2[j + 1] = chain[(j + 1) + 1] /\ new[j] = todo[j + 1]
      BY <1>2, <1>3, <2>1
    <2>3. QED
      BY <1>1, <2>1, <2>2
  <1>5. /\ chain2 \in [1..Len(new) + 1 -> Following(log)]
        /\ chain2[1] = chain[2] /\ chain2[Len(new) + 1] = exit
        /\ \A j \in 1..Len(new) : chain2[j] = Via(g, log, new[j], chain2[j + 1], b)
    <2>1. Len(new) + 1 = n /\ 1 \in 1..n /\ n \in 1..n
      BY <1>0, <1>2
    <2>2. QED
      BY <1>1, <1>2, <1>3, <1>4, <2>1
  <1>6. Leads(g, log, new, chain[2], exit, b)
    BY <1>5 DEF Leads
  <1>7. chain[2] \in Following(log) /\ c = Via(g, log, Head(todo), chain[2], b)
    BY <1>0, <1>1
  <1>8. QED
    BY <1>6, <1>7 DEF new, n

\* The outermost walk ends the flow; any other one goes on after its call, and
\* there too when it returns.
Nest(g, log, walks, c, b) ==
  /\ c \in [1..Len(walks) -> Following(log)] /\ b \in [1..Len(walks) -> Following(log)]
  /\ \A d \in 1..Len(walks) :
       Leads(g, log, walks[d].todo, c[d],
             IF d = 1 THEN [i \in 1..Len(log) + 1 |-> On(i)] ELSE b[d], b[d])
  /\ \A d \in 2..Len(walks) : b[d] = Via(g, log, Go(g.next[walks[d].call][1]), c[d - 1], b[d - 1])

\* Where the walks go on, and where they go when the innermost one returns.
GoesOn(g, log, walks, on, back) ==
  \E c, b : Nest(g, log, walks, c, b) /\ c[Len(walks)] = on /\ b[Len(walks)] = back

\* Where the call of a walk leads.
AfterCall(g, log, walk, on, back) == Via(g, log, Go(g.next[walk.call][1]), on, back)

\* A walk more, the innermost one, and the innermost one gone.
Deeper(walks, walk, new) ==
  /\ Len(walks) \in Nat \ {0} /\ Len(new) = Len(walks) + 1
  /\ \A d \in 1..Len(walks) : new[d] = walks[d]
  /\ new[Len(walks) + 1] = walk
Shallower(walks, new) ==
  /\ Len(walks) \in Nat /\ Len(walks) > 1 /\ Len(new) = Len(walks) - 1
  /\ \A d \in 1..Len(walks) - 1 : new[d] = walks[d]

\* Whatever steps the innermost walk has, they lead to the same exit.
LEMMA SameNest ==
  ASSUME NEW g, NEW log, NEW walks, Len(walks) \in Nat \ {0},
         NEW on, NEW back, GoesOn(g, log, walks, on, back)
  PROVE  \E exit :
           /\ Leads(g, log, walks[Len(walks)].todo, on, exit, back)
           /\ Len(walks) = 1 => exit = [i \in 1..Len(log) + 1 |-> On(i)]
           /\ \A new, on2 :
                /\ Len(new) = Len(walks) /\ on2 \in Following(log)
                /\ \A d \in 1..Len(walks) - 1 : new[d] = walks[d]
                /\ new[Len(walks)].call = walks[Len(walks)].call
                /\ Leads(g, log, new[Len(walks)].todo, on2, exit, back)
                => GoesOn(g, log, new, on2, back)
  <1> DEFINE n == Len(walks)
             Exit(b, d) == IF d = 1 THEN [i \in 1..Len(log) + 1 |-> On(i)] ELSE b[d]
  <1>1. PICK c, b : Nest(g, log, walks, c, b) /\ c[n] = on /\ b[n] = back
    BY DEF GoesOn
  <1>2. /\ c \in [1..n -> Following(log)] /\ b \in [1..n -> Following(log)]
        /\ \A d \in 1..n : Leads(g, log, walks[d].todo, c[d], Exit(b, d), b[d])
        /\ \A d \in 2..n : b[d] = Via(g, log, Go(g.next[walks[d].call][1]), c[d - 1], b[d - 1])
    BY <1>1 DEF Nest
  <1>3. ASSUME NEW new, NEW on2 \in Following(log), Len(new) = n,
               \A d \in 1..n - 1 : new[d] = walks[d], new[n].call = walks[n].call,
               Leads(g, log, new[n].todo, on2, Exit(b, n), back)
        PROVE  GoesOn(g, log, new, on2, back)
    <2> DEFINE c2 == [c EXCEPT ![n] = on2]
    <2>1. /\ c2 \in [1..n -> Following(log)] /\ c2[n] = on2
          /\ \A d \in 1..n - 1 : c2[d] = c[d]
      BY <1>2
    <2> HIDE DEF c2, Exit
    <2>2. ASSUME NEW d \in 1..n
          PROVE  Leads(g, log, new[d].todo, c2[d], Exit(b, d), b[d])
      <3>1. CASE d = n
        BY <1>1, <1>3, <2>1, <3>1
      <3>2. CASE d # n
        <4>1. d \in 1..n - 1
          BY <3>2
        <4>2. QED
          BY <1>2, <1>3, <2>1, <4>1
      <3>3. QED
        BY <3>1, <3>2
    <2>3. ASSUME NEW d \in 2..n
          PROVE  b[d] = Via(g, log, Go(g.next[new[d].call][1]), c2[d - 1], b[d - 1])
      <3>1. d - 1 \in 1..n - 1 /\ (d = n \/ d \in 1..n - 1)
        OBVIOUS
      <3>2. new[d].call = walks[d].call
        BY <1>3, <3>1
      <3>3. QED
        BY <1>2, <2>1, <3>1, <3>2
    <2>4. Nest(g, log, new, c2, b)
      BY <1>2, <1>3, <2>1, <2>2, <2>3 DEF Nest, Exit
    <2>5. QED
      BY <1>1, <1>3, <2>1, <2>4 DEF GoesOn
  <1>4. n = 1 => Exit(b, n) = [i \in 1..Len(log) + 1 |-> On(i)]
    OBVIOUS
  <1> HIDE DEF Exit
  <1>5. Leads(g, log, walks[n].todo, on, Exit(b, n), back)
    <2>1. n \in 1..n
      OBVIOUS
    <2>2. QED
      BY <1>1, <1>2, <2>1
  <1>6. QED
    BY <1>3, <1>4, <1>5

\* A call walks its function before what comes after it.
LEMMA DeeperNest ==
  ASSUME NEW g \in Graph, NEW log \in Seq(Event), NEW walks, NEW walk, NEW new,
         Deeper(walks, walk, new),
         walk.call \in Node, g.kind[walk.call] = "call",
         NEW on \in Following(log), NEW back \in Following(log), GoesOn(g, log, walks, on, back),
         NEW on2 \in Following(log), NEW back2,
         back2 = AfterCall(g, log, walk, on, back),
         Leads(g, log, walk.todo, on2, back2, back2)
  PROVE  GoesOn(g, log, new, on2, back2)
  <1> USE DEF Deeper, AfterCall
  <1> DEFINE n == Len(walks)
             Exit(b, d) == IF d = 1 THEN [i \in 1..Len(log) + 1 |-> On(i)] ELSE b[d]
  <1>1. PICK c, b : Nest(g, log, walks, c, b) /\ c[n] = on /\ b[n] = back
    BY DEF GoesOn
  <1>2. /\ c \in [1..n -> Following(log)] /\ b \in [1..n -> Following(log)]
        /\ \A d \in 1..n : Leads(g, log, walks[d].todo, c[d], Exit(b, d), b[d])
        /\ \A d \in 2..n : b[d] = Via(g, log, Go(g.next[walks[d].call][1]), c[d - 1], b[d - 1])
    BY <1>1 DEF Nest
  <1>3. back2 \in Following(log)
    BY Wires, Parts, ViaFollows
  <1> DEFINE c2 == [d \in 1..n + 1 |-> IF d = n + 1 THEN on2 ELSE c[d]]
             b2 == [d \in 1..n + 1 |-> IF d = n + 1 THEN back2 ELSE b[d]]
  <1>4. /\ c2[n + 1] = on2 /\ \A d \in 1..n : c2[d] = c[d]
        /\ b2[n + 1] = back2 /\ \A d \in 1..n : b2[d] = b[d]
    OBVIOUS
  <1>5. \A d \in 1..n + 1 : d = n + 1 \/ d \in 1..n
    OBVIOUS
  <1>6. c2 \in [1..n + 1 -> Following(log)] /\ b2 \in [1..n + 1 -> Following(log)]
    <2>1. ASSUME NEW d \in 1..n + 1
          PROVE  c2[d] \in Following(log) /\ b2[d] \in Following(log)
      <3> HIDE DEF c2, b2
      <3>1. QED
        BY <1>2, <1>3, <1>4, <1>5
    <2>2. QED
      BY <2>1
  <1> HIDE DEF c2, b2
  <1>7. ASSUME NEW d \in 1..n + 1
        PROVE  Leads(g, log, new[d].todo, c2[d], Exit(b2, d), b2[d])
    <2>1. CASE d = n + 1
      BY <1>4, <2>1
    <2>2. CASE d \in 1..n
      <3>1. new[d] = walks[d] /\ c2[d] = c[d] /\ b2[d] = b[d] /\ Exit(b2, d) = Exit(b, d)
        BY <1>4, <2>2
      <3> HIDE DEF Exit
      <3>2. QED
        BY <1>2, <2>2, <3>1
    <2>3. QED
      BY <1>5, <2>1, <2>2
  <1>8. ASSUME NEW d \in 2..n + 1
        PROVE  b2[d] = Via(g, log, Go(g.next[new[d].call][1]), c2[d - 1], b2[d - 1])
    <2>1. d - 1 \in 1..n /\ c2[d - 1] = c[d - 1] /\ b2[d - 1] = b[d - 1]
      BY <1>4
    <2>2. CASE d = n + 1
      <3>1. d - 1 = n
        BY <2>2
      <3>2. QED
        BY <1>1, <1>4, <2>1, <2>2, <3>1
    <2>3. CASE d # n + 1
      <3>1. d \in 2..n /\ d \in 1..n
        BY <2>3
      <3>2. QED
        BY <1>2, <1>4, <2>1, <3>1
    <2>4. QED
      BY <2>2, <2>3
  <1>9. Nest(g, log, new, c2, b2)
    BY <1>6, <1>7, <1>8 DEF Nest, Exit
  <1>10. QED
    BY <1>4, <1>9 DEF GoesOn

\* Without its innermost walk a nest goes on after the call of it.
LEMMA ShallowerNest ==
  ASSUME NEW g, NEW log, NEW walks, NEW new, Shallower(walks, new),
         NEW on, NEW back, GoesOn(g, log, walks, on, back)
  PROVE  /\ \E on2, back2 \in Following(log) :
              /\ GoesOn(g, log, new, on2, back2)
              /\ back = AfterCall(g, log, walks[Len(walks)], on2, back2)
         /\ walks[Len(walks)].todo = <<>> => on = back
  <1> USE DEF Shallower, AfterCall
  <1> DEFINE n == Len(walks)
             Exit(b, d) == IF d = 1 THEN [i \in 1..Len(log) + 1 |-> On(i)] ELSE b[d]
  <1>1. PICK c, b : Nest(g, log, walks, c, b) /\ c[n] = on /\ b[n] = back
    BY DEF GoesOn
  <1>2. /\ c \in [1..n -> Following(log)] /\ b \in [1..n -> Following(log)]
        /\ \A d \in 1..n : Leads(g, log, walks[d].todo, c[d], Exit(b, d), b[d])
        /\ \A d \in 2..n : b[d] = Via(g, log, Go(g.next[walks[d].call][1]), c[d - 1], b[d - 1])
    BY <1>1 DEF Nest
  <1> DEFINE c2 == [d \in 1..n - 1 |-> c[d]]
             b2 == [d \in 1..n - 1 |-> b[d]]
  <1>3. /\ \A d \in 1..n - 1 : d \in 1..n /\ c2[d] = c[d] /\ b2[d] = b[d]
        /\ c2 \in [1..n - 1 -> Following(log)] /\ b2 \in [1..n - 1 -> Following(log)]
    BY <1>2
  <1> HIDE DEF c2, b2
  <1>4. ASSUME NEW d \in 1..n - 1
        PROVE  Leads(g, log, new[d].todo, c2[d], Exit(b2, d), b2[d])
    <2>1. d \in 1..n /\ new[d] = walks[d] /\ c2[d] = c[d] /\ b2[d] = b[d] /\ Exit(b2, d) = Exit(b, d)
      BY <1>3
    <2> HIDE DEF Exit
    <2>2. QED
      BY <1>2, <2>1
  <1>5. ASSUME NEW d \in 2..n - 1
        PROVE  b2[d] = Via(g, log, Go(g.next[new[d].call][1]), c2[d - 1], b2[d - 1])
    <2>1. d \in 2..n /\ d \in 1..n - 1 /\ d - 1 \in 1..n - 1
      OBVIOUS
    <2>2. QED
      BY <1>2, <1>3, <2>1
  <1>6. Nest(g, log, new, c2, b2)
    BY <1>3, <1>4, <1>5 DEF Nest, Exit
  <1>7. n - 1 \in 1..n - 1 /\ n \in 2..n /\ n \in 1..n /\ n # 1
    OBVIOUS
  <1>8. GoesOn(g, log, new, c[n - 1], b[n - 1])
    BY <1>3, <1>6, <1>7 DEF GoesOn
  <1>9. back = Via(g, log, Go(g.next[walks[n].call][1]), c[n - 1], b[n - 1])
    BY <1>1, <1>2, <1>7
  <1>10. c[n - 1] \in Following(log) /\ b[n - 1] \in Following(log)
    BY <1>2, <1>3, <1>7
  <1>11. walks[n].todo = <<>> => on = back
    <2>1. Leads(g, log, walks[n].todo, on, back, back)
      BY <1>1, <1>2, <1>7
    <2>2. QED
      BY <2>1, LeadsOut
  <1>12. QED
    BY <1>8, <1>9, <1>10, <1>11

-----------------------------------------------------------------------------
(* The walk is where the call tree is.                                     *)

\* A log that went on from an earlier one.
Longer(log, old) == Len(log) >= Len(old) /\ \A i \in 1..Len(old) : log[i] = old[i]

\* Where the flow is now, on, back being where the walks go on and return to.
Here(log, on, back) ==
  LET told == Len(events.log)
  IN IF hand # None THEN After(FlowOf(graph, log)[told][Go(hand)], on, back)
     ELSE IF raised = "" THEN on[told + 1] ELSE back[told + 1]

\* Reading the log from the start gives what the stacks lead to from here.
OnTrack(log) ==
  \E on, back \in Following(log) :
    /\ GoesOn(graph, log, frames, on, back)
    /\ FlowOf(graph, log)[1][Go(graph.start)] = Here(log, on, back)

\* Nothing has ended the run yet.
StillWalks == frames # <<>> /\ raised \in {"", "return"}

\* While it walks: whatever it will tell, read from the start that
\* leads where its stacks lead from here.
Tracks ==
  StillWalks => \A log \in Seq(Event) : Longer(log, events.log) => OnTrack(log)

\* A run that completed told its end last.
EndIsLast ==
  raised = "completed" =>
    events.log # <<>> /\ graph.kind[events.log[Len(events.log)][1]] = "end"

\* The strengthening that is inductive.
OrderInv == Tracks /\ EndIsLast /\ (~StillWalks => FollowsGraph)

\* The steps of a stack are parts of the program.
LEMMA StepsAreParts ==
  ASSUME TypeOK
  PROVE  /\ graph \in Graph /\ \A s \in Step : s \in Part(graph)
         /\ \A todo \in Seq(Step) : todo \in Seq(Part(graph))
         /\ events.log \in Seq(Event) /\ Len(events.log) \in Nat
  <1>1. graph \in Graph /\ events \in Told
    BY DEF TypeOK
  <1>2. events.log \in Seq(Event)
    BY <1>1 DEF Told, Event
  <1>3. \A s \in Step : s \in Part(graph)
    BY FlowAssumption DEF Step, Part
  <1>4. \A todo \in Seq(Step) : todo \in Seq(Part(graph))
    BY <1>3, SeqMonotonic
  <1>5. QED
    BY <1>1, <1>2, <1>3, <1>4, LenProperties

\* The innermost walk, and the others, when steps come on top of its stack.
LEMMA StackElements ==
  ASSUME TypeOK, frames # <<>>, NEW used \in {0, 1}, used <= Len(Todo), NEW steps \in Seq(Step)
  PROVE  LET new == Stack(used, steps)
         IN /\ Len(new) = Len(frames) /\ Len(frames) \in Nat \ {0}
            /\ \A d \in 1..Len(frames) - 1 : new[d] = frames[d]
            /\ new[Len(frames)].call = frames[Len(frames)].call
            /\ new[Len(frames)].todo = steps \o SubSeq(Todo, used + 1, Len(Todo))
  <1>1. frames \in Seq(Frame) /\ Len(frames) \in Nat \ {0} /\ Depth = Len(frames)
    BY EmptySeq DEF TypeOK, Depth
  <1>2. frames[Depth] \in Frame
    BY <1>1, ElementOfSeq
  <1> DEFINE rest == steps \o SubSeq(Todo, used + 1, Len(Todo))
             inner == [frames[Depth] EXCEPT !.todo = rest]
  <1>3. inner.call = frames[Depth].call /\ inner.todo = rest
    <2> HIDE DEF rest
    <2>1. QED
      BY <1>2 DEF Frame
  <1>4. Stack(used, steps) = [frames EXCEPT ![Depth] = inner]
    BY DEF Stack
  <1> HIDE DEF inner, rest
  <1>5. /\ Len([frames EXCEPT ![Depth] = inner]) = Len(frames)
        /\ [frames EXCEPT ![Depth] = inner][Depth] = inner
        /\ \A d \in 1..Len(frames) - 1 : [frames EXCEPT ![Depth] = inner][d] = frames[d]
    BY <1>1
  <1>6. QED
    BY <1>1, <1>3, <1>4, <1>5 DEF rest

\* What steps on top of a stack lead to.
LEMMA LeadsVisit ==
  ASSUME NEW g \in Graph, NEW log \in Seq(Event), NEW todo \in Seq(Part(g)),
         NEW n \in Node \cup {None},
         NEW c \in Following(log), NEW exit, NEW b \in Following(log),
         Leads(g, log, todo, c, exit, b)
  PROVE  /\ Leads(g, log, Visit(n) \o todo, Via(g, log, Go(n), c, b), exit, b)
         /\ Via(g, log, Go(n), c, b) \in Following(log)
         /\ Visit(n) \o todo \in Seq(Part(g))
  <1>1. CASE n = None
    <2>1. Visit(n) \o todo = todo
      BY <1>1 DEF Visit
    <2>2. QED
      BY <1>1, <2>1, ViaNowhere
  <1>2. CASE n \in Node
    <2>1. Visit(n) = <<Go(n)>> /\ Go(n) \in Part(g)
      BY <1>2, FlowAssumption, Parts DEF Visit, Go
    <2>2. QED
      BY <2>1, LeadsMore, ViaFollows
  <1>3. QED
    BY <1>1, <1>2

\* The innermost walk goes on with other steps.
LEMMA TopGoesOn ==
  ASSUME TypeOK, frames # <<>>, NEW used \in {0, 1}, used <= Len(Todo), NEW steps \in Seq(Step),
         NEW log, NEW on, NEW back, GoesOn(graph, log, frames, on, back)
  PROVE  \E exit :
           /\ Leads(graph, log, Todo, on, exit, back)
           /\ \A on2 \in Following(log) :
                Leads(graph, log, steps \o SubSeq(Todo, used + 1, Len(Todo)), on2, exit, back)
                => GoesOn(graph, log, Stack(used, steps), on2, back)
  <1>1. /\ Len(Stack(used, steps)) = Len(frames) /\ Len(frames) \in Nat \ {0}
        /\ \A d \in 1..Len(frames) - 1 : Stack(used, steps)[d] = frames[d]
        /\ Stack(used, steps)[Len(frames)].call = frames[Len(frames)].call
        /\ Stack(used, steps)[Len(frames)].todo = steps \o SubSeq(Todo, used + 1, Len(Todo))
    BY StackElements
  <1>2. Todo = frames[Len(frames)].todo
    BY DEF Todo, Depth
  <1>3. PICK exit :
          /\ Leads(graph, log, frames[Len(frames)].todo, on, exit, back)
          /\ \A new, on2 :
               /\ Len(new) = Len(frames) /\ on2 \in Following(log)
               /\ \A d \in 1..Len(frames) - 1 : new[d] = frames[d]
               /\ new[Len(frames)].call = frames[Len(frames)].call
               /\ Leads(graph, log, new[Len(frames)].todo, on2, exit, back)
               => GoesOn(graph, log, new, on2, back)
    BY <1>1, SameNest
  <1>4. ASSUME NEW on2 \in Following(log),
               Leads(graph, log, steps \o SubSeq(Todo, used + 1, Len(Todo)), on2, exit, back)
        PROVE  GoesOn(graph, log, Stack(used, steps), on2, back)
    BY <1>1, <1>3, <1>4
  <1>5. QED
    BY <1>2, <1>3, <1>4

\* One event more was told.
LEMMA ToldMore ==
  ASSUME TypeOK, NEW e, events'.log = Append(events.log, e),
         NEW log \in Seq(Event), Longer(log, events'.log)
  PROVE  /\ Longer(log, events.log) /\ Len(events'.log) = Len(events.log) + 1
         /\ Len(events.log) + 1 \in 1..Len(log) /\ log[Len(events.log) + 1] = e
  <1> DEFINE old == events.log
  <1>1. old \in Seq(Event) /\ Len(old) \in Nat /\ Len(log) \in Nat
    BY StepsAreParts, LenProperties
  <1>2. /\ Len(Append(old, e)) = Len(old) + 1 /\ Append(old, e)[Len(old) + 1] = e
        /\ \A i \in 1..Len(old) : Append(old, e)[i] = old[i]
    BY <1>1
  <1> HIDE DEF old
  <1>3. Len(log) >= Len(old) + 1 /\ \A i \in 1..Len(old) + 1 : log[i] = Append(old, e)[i]
    BY <1>2 DEF Longer, old
  <1>4. Len(old) + 1 \in 1..Len(log) /\ Len(old) + 1 \in 1..Len(old) + 1
    BY <1>1, <1>3
  <1>5. Longer(log, old)
    BY <1>1, <1>2, <1>3 DEF Longer
  <1>6. QED
    BY <1>2, <1>3, <1>4, <1>5 DEF old

\* The steps of the innermost walk.
LEMMA TodoTyped ==
  ASSUME TypeOK, frames # <<>>
  PROVE  /\ Todo \in Seq(Step) /\ Todo \in Seq(Part(graph)) /\ Todo = frames[Len(frames)].todo
         /\ Len(Todo) \in Nat /\ Len(frames) \in Nat \ {0}
         /\ Todo # <<>> => 1 <= Len(Todo) /\ Top \in Step /\ Top \in Part(graph)
  <1>1. frames \in Seq(Frame)
    BY DEF TypeOK
  <1>2. Len(frames) \in Nat \ {0} /\ Len(frames) \in 1..Len(frames)
    BY <1>1, EmptySeq
  <1>3. frames[Len(frames)] \in Frame
    BY <1>1, <1>2, ElementOfSeq
  <1>4. Todo \in Seq(Step) /\ Todo = frames[Len(frames)].todo
    BY <1>3 DEF Todo, Depth, Frame
  <1>5. Len(Todo) \in Nat /\ (Todo # <<>> => Len(Todo) # 0)
    BY <1>4, EmptySeq, LenProperties
  <1>6. Todo # <<>> => Top \in Step
    BY <1>4, HeadTailProperties DEF Top
  <1>7. Todo \in Seq(Part(graph)) /\ \A s \in Step : s \in Part(graph)
    BY <1>4, StepsAreParts
  <1>8. QED
    BY <1>2, <1>4, <1>5, <1>6, <1>7

\* What is known of a walk between two steps, about to take one.
LEMMA IdleTracks ==
  ASSUME FlowInv, Tracks, HasNext, NEW log \in Seq(Event), Longer(log, events.log)
  PROVE  /\ Top \in Step /\ Todo \in Seq(Step) /\ 1 <= Len(Todo)
         /\ SubSeq(Todo, 2, Len(Todo)) \in Seq(Part(graph))
         /\ Len(events.log) + 1 \in 1..Len(log) + 1
         /\ \E on, back \in Following(log) :
              /\ FlowOf(graph, log)[1][Go(graph.start)] =
                   Via(graph, log, Top, on, back)[Len(events.log) + 1]
              /\ \A steps \in Seq(Step), on2 \in Following(log) :
                   (\A exit : Leads(graph, log, SubSeq(Todo, 2, Len(Todo)), on, exit, back) =>
                      Leads(graph, log, steps \o SubSeq(Todo, 2, Len(Todo)), on2, exit, back))
                   => GoesOn(graph, log, Stack(1, steps), on2, back)
  <1>1. TypeOK /\ frames # <<>> /\ Todo # <<>> /\ hand = None /\ raised = ""
    BY DEF FlowInv, HasNext
  <1>2. Todo \in Seq(Step) /\ Top \in Step /\ 1 <= Len(Todo)
    BY <1>1, TodoTyped
  <1>3. /\ graph \in Graph /\ Todo \in Seq(Part(graph)) /\ Top \in Part(graph)
        /\ Len(events.log) \in Nat
    BY <1>1, TodoTyped, StepsAreParts
  <1> DEFINE rest == SubSeq(Todo, 2, Len(Todo))
             told == Len(events.log)
  <1>4. rest \in Seq(Part(graph)) /\ rest \in Seq(Step)
    BY <1>1, <1>2, <1>3, WithoutFirst
  <1>5. told + 1 \in 1..Len(log) + 1
    BY <1>3, LenProperties DEF Longer
  <1>6. PICK c, back \in Following(log) :
          /\ GoesOn(graph, log, frames, c, back)
          /\ FlowOf(graph, log)[1][Go(graph.start)] = Here(log, c, back)
    BY <1>1 DEF Tracks, OnTrack, StillWalks
  <1>7. PICK exit :
          /\ Leads(graph, log, Todo, c, exit, back)
          /\ \A new, on2 :
               /\ Len(new) = Len(frames) /\ on2 \in Following(log)
               /\ \A d \in 1..Len(frames) - 1 : new[d] = frames[d]
               /\ new[Len(frames)].call = frames[Len(frames)].call
               /\ Leads(graph, log, new[Len(frames)].todo, on2, exit, back)
               => GoesOn(graph, log, new, on2, back)
    <2>1. Len(frames) \in Nat \ {0} /\ Todo = frames[Len(frames)].todo
      BY <1>1, TodoTyped
    <2>2. QED
      BY <1>6, <2>1, SameNest
  <1>8. PICK on \in Following(log) :
          Leads(graph, log, rest, on, exit, back) /\ c = Via(graph, log, Top, on, back)
    <2>1. PICK t \in Seq(Part(graph)) :
            t = Todo /\ t # <<>> /\ Leads(graph, log, t, c, exit, back)
      BY <1>1, <1>3, <1>7
    <2>2. \E on \in Following(log) :
            /\ Leads(graph, log, SubSeq(t, 2, Len(t)), on, exit, back)
            /\ c = Via(graph, log, Head(t), on, back)
      BY <1>3, <2>1, LeadsLess
    <2>3. QED
      BY <2>1, <2>2 DEF Top
  <1>9. FlowOf(graph, log)[1][Go(graph.start)] = Via(graph, log, Top, on, back)[told + 1]
    BY <1>1, <1>6, <1>8 DEF Here
  <1> HIDE DEF rest
  <1>10. ASSUME NEW steps \in Seq(Step), NEW on2 \in Following(log),
                \A x : Leads(graph, log, rest, on, x, back) =>
                         Leads(graph, log, steps \o rest, on2, x, back)
         PROVE  GoesOn(graph, log, Stack(1, steps), on2, back)
    <2>1. Leads(graph, log, steps \o rest, on2, exit, back)
      BY <1>8, <1>10
    <2>2. /\ Len(Stack(1, steps)) = Len(frames)
          /\ \A d \in 1..Len(frames) - 1 : Stack(1, steps)[d] = frames[d]
          /\ Stack(1, steps)[Len(frames)].call = frames[Len(frames)].call
          /\ Stack(1, steps)[Len(frames)].todo = steps \o rest
      <3>1. 1 \in {0, 1} /\ 1 + 1 = 2
        OBVIOUS
      <3>2. QED
        BY <1>1, <1>2, <3>1, StackElements DEF rest
    <2>3. QED
      BY <1>7, <2>1, <2>2
  <1>11. QED
    BY <1>2, <1>4, <1>5, <1>9, <1>10 DEF rest

\* A node starts.
LEMMA BeginTracks ==
  ASSUME FlowInv, Tracks, Begin, NEW log \in Seq(Event), Longer(log, events'.log)
  PROVE  OnTrack(log)'
  <1> DEFINE n == Top.node
             told == Len(events.log)
  <1>1. /\ HasNext /\ Top.step = "visit" /\ hand' = n /\ frames' = Stack(1, <<>>)
        /\ raised' = raised /\ graph' = graph
        /\ events' = [Tell(n, 0) EXCEPT !.lit = @ \cup {n}]
    BY DEF Begin, Idle
  <1>2. TypeOK /\ Top \in Step
    BY <1>1, TodoTyped DEF FlowInv, HasNext
  <1>3. n \in Node /\ n # None /\ Top \in Part(graph) /\ graph \in Graph
    BY <1>2, FlowAssumption, StepsAreParts DEF Step
  <1>4. events'.log = Append(events.log, <<n, 0>>)
    <2>1. Tell(n, 0) \in Told /\ Tell(n, 0).log = Append(events.log, <<n, 0>>)
      BY <1>2, <1>3, EventsTyped
    <2>2. QED
      BY <1>1, <2>1 DEF Told
  <1>5. /\ Longer(log, events.log) /\ Len(events'.log) = told + 1
        /\ told + 1 \in 1..Len(log) /\ log[told + 1] = <<n, 0>>
    BY <1>2, <1>4, ToldMore
  <1>6. PICK on, back \in Following(log) :
          /\ FlowOf(graph, log)[1][Go(graph.start)] = Via(graph, log, Top, on, back)[told + 1]
          /\ \A steps \in Seq(Step), on2 \in Following(log) :
               (\A exit : Leads(graph, log, SubSeq(Todo, 2, Len(Todo)), on, exit, back) =>
                  Leads(graph, log, steps \o SubSeq(Todo, 2, Len(Todo)), on2, exit, back))
               => GoesOn(graph, log, Stack(1, steps), on2, back)
    BY <1>1, <1>5, IdleTracks
  <1>7. GoesOn(graph, log, Stack(1, <<>>), on, back)
    <2>1. <<>> \in Seq(Step)
      OBVIOUS
    <2>2. SubSeq(Todo, 2, Len(Todo)) \in Seq(Part(graph))
      BY <1>1, <1>5, IdleTracks
    <2>3. <<>> \o SubSeq(Todo, 2, Len(Todo)) = SubSeq(Todo, 2, Len(Todo))
      BY <2>2
    <2>4. QED
      BY <1>6, <2>1, <2>3
  <1>8. Via(graph, log, Top, on, back)[told + 1] =
          After(FlowOf(graph, log)[told + 1][Go(n)], on, back)
    <2>1. Via(graph, log, Top, on, back) = Via(graph, log, Go(n), on, back)
      BY <1>1, <1>3, ViaStep
    <2>2. told + 1 \in 1..Len(log) + 1
      BY <1>5, LenProperties
    <2>3. QED
      BY <2>1, <2>2 DEF Via
  <1>9. Here(log, on, back)' = After(FlowOf(graph, log)[told + 1][Go(n)], on, back)
    BY <1>1, <1>3, <1>5 DEF Here
  <1>10. QED
    BY <1>1, <1>6, <1>7, <1>8, <1>9 DEF OnTrack

-----------------------------------------------------------------------------
(* The steps keep it there.                                                *)

\* The walk has nothing in hand and goes on, or back, from where it is.
LEMMA Arrives ==
  ASSUME NEW log, NEW on \in Following(log), NEW back \in Following(log),
         GoesOn(graph, log, frames', on, back), UNCHANGED graph, hand' = None,
         FlowOf(graph, log)[1][Go(graph.start)] =
           IF raised' = "" THEN on[Len(events'.log) + 1] ELSE back[Len(events'.log) + 1]
  PROVE  OnTrack(log)'
  <1>1. Here(log, on, back)' =
          IF raised' = "" THEN on[Len(events'.log) + 1] ELSE back[Len(events'.log) + 1]
    BY DEF Here
  <1>2. GoesOn(graph, log, frames, on, back)'
    BY Zenon
  <1>3. (FlowOf(graph, log)[1][Go(graph.start)] = Here(log, on, back))'
    BY <1>1
  <1>4. QED
    BY <1>2, <1>3 DEF OnTrack

\* A sequence goes on with its next branch.
LEMMA BranchTracks ==
  ASSUME FlowInv, Tracks, Branch, NEW log \in Seq(Event), Longer(log, events'.log)
  PROVE  OnTrack(log)'
  <1> DEFINE n == Top.node
             k == Top.index
             told == Len(events.log)
             rest == SubSeq(Todo, 2, Len(Todo))
             steps == IF k + 1 > Len(graph.next[n]) THEN <<>>
                      ELSE Visit(graph.next[n][k + 1]) \o BranchOf(n, k + 1)
  <1>1. /\ HasNext /\ Top.step = "branch" /\ frames' = Stack(1, steps)
        /\ UNCHANGED <<graph, hand, raised, events>>
    BY DEF Branch, Idle
  <1>2. TypeOK /\ Top \in Step /\ Top \in Part(graph) /\ graph \in Graph
    BY <1>1, TodoTyped, StepsAreParts DEF FlowInv, HasNext
  <1>3. n \in Node /\ k \in Nat /\ Len(graph.next[n]) \in Nat
    BY <1>2, Wires DEF Step
  <1>4. PICK on, back \in Following(log) :
          /\ FlowOf(graph, log)[1][Go(graph.start)] = Via(graph, log, Top, on, back)[told + 1]
          /\ \A s \in Seq(Step), on2 \in Following(log) :
               (\A exit : Leads(graph, log, rest, on, exit, back) =>
                  Leads(graph, log, s \o rest, on2, exit, back))
               => GoesOn(graph, log, Stack(1, s), on2, back)
    BY <1>1, IdleTracks
  <1>5. rest \in Seq(Part(graph)) /\ told + 1 \in 1..Len(log) + 1
    BY <1>1, IdleTracks
  <1> DEFINE on2 == Via(graph, log, Rest(n, k), on, back)
  <1>6. Via(graph, log, Top, on, back) = on2 /\ on2 \in Following(log)
    BY <1>1, <1>2, <1>3, ViaStep, ViaFollows, Parts
  <1>7. steps \in Seq(Step)
        /\ \A exit : Leads(graph, log, rest, on, exit, back) =>
                       Leads(graph, log, steps \o rest, on2, exit, back)
    <2>1. CASE k + 1 > Len(graph.next[n])
      <3>1. steps = <<>> /\ <<>> \in Seq(Step) /\ steps \o rest = rest
        BY <1>5, <2>1
      <3>2. on2 = on
        BY <1>2, <1>3, <2>1, ViaBranch
      <3> HIDE DEF steps, on2
      <3>3. QED
        BY <3>1, <3>2
    <2>2. CASE ~(k + 1 > Len(graph.next[n]))
      <3> DEFINE next == graph.next[n][k + 1]
                 more == Via(graph, log, Rest(n, k + 1), on, back)
                 visit == Visit(next)
                 branch == BranchOf(n, k + 1)
      <3>1. k + 1 \in 1..Len(graph.next[n]) /\ k + 1 \in Nat
        BY <1>3, <2>2
      <3>2. next \in Node \cup {None}
        BY <1>2, <1>3, <3>1, Wires
      <3>3. branch = <<Rest(n, k + 1)>> /\ Rest(n, k + 1) \in Part(graph)
        BY <1>2, <1>3, <3>1, Parts DEF BranchOf, Rest
      <3>4. visit \in Seq(Step) /\ branch \in Seq(Step)
        BY <1>2, <1>3, <3>1, <3>2, StepsTyped
      <3>5. more \in Following(log)
        BY <1>2, <3>3, ViaFollows
      <3>6. on2 = Via(graph, log, Go(next), more, back)
        <4>1. ~(k >= Len(graph.next[n]))
          BY <1>3, <2>2
        <4>2. QED
          BY <1>2, <1>3, <4>1, ViaBranch
      <3>7. steps = visit \o branch
        BY <2>2
      <3>8. steps \in Seq(Step) /\ steps \o rest = visit \o (branch \o rest)
        <4> HIDE DEF visit, branch, steps, rest
        <4>1. visit \o branch \in Seq(Step)
          BY <3>4, ConcatProperties
        <4>2. branch \o rest \in Seq(Part(graph))
          <5>1. branch \in Seq(Part(graph))
            BY <1>2, <3>4, StepsAreParts
          <5>2. QED
            BY <1>5, <5>1, ConcatProperties
        <4>3. visit \in Seq(Part(graph)) /\ branch \in Seq(Part(graph))
          BY <1>2, <3>4, StepsAreParts
        <4>4. (visit \o branch) \o rest = visit \o (branch \o rest)
          <5>1. \A a, m, z \in Seq(Part(graph)) : (a \o m) \o z = a \o (m \o z)
            BY ConcatAssociative
          <5>2. QED
            BY <1>5, <4>3, <5>1
        <4>5. QED
          BY <3>7, <4>1, <4>4
      <3>9. ASSUME NEW exit, Leads(graph, log, rest, on, exit, back)
            PROVE  Leads(graph, log, steps \o rest, on2, exit, back)
        <4> HIDE DEF rest, visit, branch, steps, next, more, on2
        <4>1. Leads(graph, log, branch \o rest, more, exit, back)
          BY <1>2, <1>5, <3>3, <3>9, LeadsMore DEF more
        <4>2. branch \o rest \in Seq(Part(graph))
          <5>1. branch \in Seq(Part(graph))
            BY <1>2, <3>4, StepsAreParts
          <5>2. QED
            BY <1>5, <5>1, ConcatProperties
        <4>3. Leads(graph, log, visit \o (branch \o rest), Via(graph, log, Go(next), more, back), exit, back)
          BY <1>2, <3>2, <3>5, <4>1, <4>2, LeadsVisit DEF visit
        <4>4. QED
          BY <3>6, <3>8, <4>3
      <3> HIDE DEF steps, on2
      <3>10. QED
        BY <3>8, <3>9
    <2>3. QED
      BY <2>1, <2>2
  <1> HIDE DEF steps, on2, rest
  <1>8. GoesOn(graph, log, Stack(1, steps), on2, back)
    BY <1>4, <1>6, <1>7
  <1>9. /\ GoesOn(graph, log, frames', on2, back) /\ UNCHANGED graph /\ hand' = None
        /\ raised' = "" /\ Len(events'.log) = told
        /\ FlowOf(graph, log)[1][Go(graph.start)] = on2[told + 1]
    BY <1>1, <1>4, <1>6, <1>8 DEF HasNext
  <1>10. QED
    BY <1>4, <1>6, <1>9, Arrives

\* A loop takes another lap, or goes on.
LEMMA LapTracks ==
  ASSUME FlowInv, Tracks, Lap, NEW log \in Seq(Event), Longer(log, events'.log)
  PROVE  OnTrack(log)'
  <1> DEFINE n == Top.node
             i == Top.index
             told == Len(events.log)
             rest == SubSeq(Todo, 2, Len(Todo))
  <1>1. /\ HasNext /\ Top.step = "lap" /\ UNCHANGED <<graph, hand, raised>>
        /\ \/ /\ frames' = Stack(1, Visit(graph.next[n][1]) \o HeadOf(n, i + 1))
              /\ events' = Tell(n, 1)
           \/ frames' = Stack(1, Visit(graph.next[n][2])) /\ events' = Tell(n, 2)
    BY DEF Lap
  <1>2. TypeOK /\ Top \in Step /\ Top \in Part(graph) /\ graph \in Graph
    BY <1>1, TodoTyped, StepsAreParts DEF FlowInv, HasNext
  <1>3. /\ n \in Node /\ i \in Nat /\ graph.kind[n] = "loop"
        /\ graph.next[n][1] \in Node \cup {None} /\ graph.next[n][2] \in Node \cup {None}
    <2>1. n \in Node /\ i \in Nat /\ graph.kind[n] = "loop"
      BY <1>1, <1>2 DEF Step
    <2>2. QED
      BY <1>2, <2>1, Wires
  <1>4. ASSUME NEW k \in {1, 2}, events' = Tell(n, k)
        PROVE  /\ Longer(log, events.log) /\ Len(events'.log) = told + 1
               /\ told + 1 \in 1..Len(log) /\ log[told + 1] = <<n, k>>
    <2>1. events'.log = Append(events.log, <<n, k>>)
      BY <1>2, <1>3, <1>4, EventsTyped
    <2>2. QED
      BY <1>2, <2>1, ToldMore
  <1>5. Longer(log, events.log) /\ Len(events'.log) = told + 1 /\ told + 1 \in 1..Len(log)
    BY <1>1, <1>4
  <1>6. PICK on, back \in Following(log) :
          /\ FlowOf(graph, log)[1][Go(graph.start)] = Via(graph, log, Top, on, back)[told + 1]
          /\ \A s \in Seq(Step), on2 \in Following(log) :
               (\A exit : Leads(graph, log, rest, on, exit, back) =>
                  Leads(graph, log, s \o rest, on2, exit, back))
               => GoesOn(graph, log, Stack(1, s), on2, back)
    BY <1>1, <1>5, IdleTracks
  <1>7. rest \in Seq(Part(graph))
    BY <1>1, <1>5, IdleTracks
  <1> DEFINE head == Via(graph, log, Laps(n), on, back)
  <1>8. Via(graph, log, Top, on, back) = head /\ head \in Following(log)
    BY <1>1, <1>2, <1>3, ViaStep, ViaFollows, Parts
  <1> HIDE DEF rest
  <1>9. CASE /\ frames' = Stack(1, Visit(graph.next[n][1]) \o HeadOf(n, i + 1))
             /\ events' = Tell(n, 1)
    <2> DEFINE next == graph.next[n][1]
               visit == Visit(next)
               lap == HeadOf(n, i + 1)
               p == [step |-> "lap", node |-> n, index |-> i + 1]
               on2 == Via(graph, log, Go(next), head, back)
    <2>1. visit \in Seq(Step) /\ lap \in Seq(Step)
      <3>1. i + 1 \in Nat
        BY <1>3
      <3>2. QED
        BY <1>3, <3>1, StepsTyped
    <2>2. lap = <<p>> /\ p \in Part(graph) /\ p.step = "lap" /\ p.node = n
      <3>1. n # None /\ i + 1 \in Nat
        BY <1>3, FlowAssumption
      <3> DEFINE q == [step |-> "lap", node |-> n, index |-> i + 1]
      <3>2. q \in Part(graph)
        <4> HIDE DEF n, i
        <4>1. QED
          BY <1>3, <3>1 DEF Part
      <3>3. QED
        BY <3>2 DEF HeadOf
    <2>3. Via(graph, log, p, on, back) = head
      <3> HIDE DEF p
      <3>1. QED
        BY <1>2, <2>2, ViaStep
    <2>4. visit \o lap \in Seq(Step) /\ (visit \o lap) \o rest = visit \o (lap \o rest)
      <3> HIDE DEF visit, lap
      <3>1. visit \in Seq(Part(graph)) /\ lap \in Seq(Part(graph))
        BY <1>2, <2>1, StepsAreParts
      <3>2. QED
        BY <1>7, <2>1, <3>1, ConcatProperties, ConcatAssociative
    <2>5. lap \o rest \in Seq(Part(graph))
      <3> HIDE DEF lap
      <3>1. lap \in Seq(Part(graph))
        BY <1>2, <2>1, StepsAreParts
      <3>2. QED
        BY <1>7, <3>1, ConcatProperties
    <2>6. on2 \in Following(log)
      BY <1>2, <1>3, <1>8, Parts, ViaFollows
    <2>7. ASSUME NEW exit, Leads(graph, log, rest, on, exit, back)
          PROVE  Leads(graph, log, (visit \o lap) \o rest, on2, exit, back)
      <3> HIDE DEF visit, lap, p, head, next, on2
      <3>1. Leads(graph, log, lap \o rest, head, exit, back)
        BY <1>2, <1>7, <2>2, <2>3, <2>7, LeadsMore
      <3>2. Leads(graph, log, visit \o (lap \o rest), Via(graph, log, Go(next), head, back), exit, back)
        BY <1>2, <1>3, <1>8, <2>5, <3>1, LeadsVisit DEF visit, next
      <3>3. QED
        BY <2>4, <3>2 DEF on2
    <2>8. head[told + 1] = on2[told + 2]
      <3>1. log[told + 1] = <<n, 1>>
        BY <1>4, <1>9
      <3>2. head[told + 1] = on2[(told + 1) + 1]
        BY <1>2, <1>3, <1>5, <3>1, ViaHead
      <3>3. (told + 1) + 1 = told + 2
        BY <1>2, StepsAreParts
      <3>4. QED
        BY <3>2, <3>3
    <2>9. GoesOn(graph, log, frames', on2, back)
      <3> HIDE DEF visit, lap, on2
      <3>1. frames' = Stack(1, visit \o lap)
        BY <1>9 DEF visit, lap
      <3>2. QED
        BY <1>6, <2>4, <2>6, <2>7, <3>1
    <2> HIDE DEF on2, head
    <2>10. Len(events'.log) + 1 = told + 2 /\ UNCHANGED graph /\ hand' = None /\ raised' = ""
      <3>1. told \in Nat
        BY <1>2, StepsAreParts
      <3>2. UNCHANGED graph /\ hand' = None /\ raised' = ""
        BY <1>1 DEF HasNext
      <3>3. Len(events'.log) + 1 = told + 2
        BY <1>5, <3>1
      <3>4. QED
        BY <3>2, <3>3
    <2>11. QED
      BY <1>6, <1>8, <2>6, <2>8, <2>9, <2>10, Arrives
  <1>10. CASE frames' = Stack(1, Visit(graph.next[n][2])) /\ events' = Tell(n, 2)
    <2> DEFINE next == graph.next[n][2]
               visit == Visit(next)
               on2 == Via(graph, log, Go(next), on, back)
    <2>1. visit \in Seq(Step)
      BY <1>2, <1>3, StepsTyped
    <2>2. on2 \in Following(log)
      BY <1>2, <1>3, Parts, ViaFollows
    <2>3. ASSUME NEW exit, Leads(graph, log, rest, on, exit, back)
          PROVE  Leads(graph, log, visit \o rest, on2, exit, back)
      BY <1>2, <1>3, <1>7, <2>3, LeadsVisit
    <2>4. head[told + 1] = on2[told + 2]
      <3>1. log[told + 1] = <<n, 2>>
        BY <1>4, <1>10
      <3>2. head[told + 1] = on2[(told + 1) + 1]
        BY <1>2, <1>3, <1>5, <3>1, ViaHead
      <3>3. (told + 1) + 1 = told + 2
        BY <1>2, StepsAreParts
      <3>4. QED
        BY <3>2, <3>3
    <2>5. GoesOn(graph, log, frames', on2, back)
      <3> HIDE DEF visit, on2
      <3>1. frames' = Stack(1, visit)
        BY <1>10 DEF visit
      <3>2. QED
        BY <1>6, <2>1, <2>2, <2>3, <3>1
    <2> HIDE DEF on2, head
    <2>6. Len(events'.log) + 1 = told + 2 /\ UNCHANGED graph /\ hand' = None /\ raised' = ""
      <3>1. told \in Nat
        BY <1>2, StepsAreParts
      <3>2. UNCHANGED graph /\ hand' = None /\ raised' = ""
        BY <1>1 DEF HasNext
      <3>3. Len(events'.log) + 1 = told + 2
        BY <1>5, <3>1
      <3>4. QED
        BY <3>2, <3>3
    <2>7. QED
      BY <1>6, <1>8, <2>2, <2>4, <2>5, <2>6, Arrives
  <1>11. QED
    BY <1>1, <1>9, <1>10

\* What is known of the node in hand: it was told of last, and the flow is at it.
LEMMA HandTracks ==
  ASSUME FlowInv, Tracks, hand # None, NEW log \in Seq(Event), Longer(log, events.log)
  PROVE  /\ TypeOK /\ graph \in Graph /\ hand \in Node /\ frames # <<>> /\ raised = ""
         /\ Len(events.log) \in 1..Len(log) /\ log[Len(events.log)] = <<hand, 0>>
         /\ \E on, back \in Following(log) :
              /\ GoesOn(graph, log, frames, on, back)
              /\ FlowOf(graph, log)[1][Go(graph.start)] =
                   After(FlowOf(graph, log)[Len(events.log)][Go(hand)], on, back)
  <1>1. /\ TypeOK /\ frames # <<>> /\ raised = "" /\ events.log # <<>>
        /\ events.log[Len(events.log)] = <<hand, 0>>
    BY DEF FlowInv, InHand
  <1>2. hand \in Node
    BY <1>1 DEF TypeOK
  <1>3. graph \in Graph /\ events.log \in Seq(Event)
    BY <1>1, StepsAreParts
  <1>4. Len(events.log) \in 1..Len(log) /\ log[Len(events.log)] = <<hand, 0>>
    <2>1. PICK old \in Seq(Event) : old = events.log
      BY <1>3
    <2>2. Len(old) \in Nat \ {0} /\ Len(log) \in Nat
      <3>1. old # <<>>
        BY <1>1, <2>1
      <3>2. QED
        BY <3>1, EmptySeq, LenProperties
    <2>3. Len(log) >= Len(old) /\ \A i \in 1..Len(old) : log[i] = old[i]
      BY <2>1 DEF Longer
    <2>4. Len(old) \in 1..Len(log) /\ log[Len(old)] = old[Len(old)]
      BY <2>2, <2>3
    <2>5. QED
      BY <1>1, <2>1, <2>4
  <1>5. OnTrack(log)
    BY <1>1 DEF Tracks, StillWalks
  <1>6. QED
    BY <1>1, <1>2, <1>3, <1>4, <1>5 DEF OnTrack, Here

\* The innermost walk goes on with more steps before the others.
LEMMA MoreSteps ==
  ASSUME TypeOK, frames # <<>>, NEW steps \in Seq(Step),
         NEW log \in Seq(Event), NEW on, NEW back, GoesOn(graph, log, frames, on, back),
         NEW on2 \in Following(log),
         \A exit : Leads(graph, log, Todo, on, exit, back) =>
                     Leads(graph, log, steps \o Todo, on2, exit, back)
  PROVE  GoesOn(graph, log, Stack(0, steps), on2, back)
  <1>1. Todo \in Seq(Step) /\ Len(Todo) \in Nat
    BY TodoTyped
  <1>2. SubSeq(Todo, 0 + 1, Len(Todo)) = Todo
    <2>1. PICK t \in Seq(Step) : t = Todo
      BY <1>1
    <2>2. SubSeq(t, 1, Len(t)) = t
      OBVIOUS
    <2>3. 0 + 1 = 1
      OBVIOUS
    <2>4. QED
      BY <2>1, <2>2, <2>3
  <1>3. PICK exit :
          /\ Leads(graph, log, Todo, on, exit, back)
          /\ \A c \in Following(log) :
               Leads(graph, log, steps \o SubSeq(Todo, 0 + 1, Len(Todo)), c, exit, back)
               => GoesOn(graph, log, Stack(0, steps), c, back)
    <2>1. 0 \in {0, 1} /\ 0 <= Len(Todo)
      BY <1>1
    <2>2. QED
      BY <2>1, TopGoesOn
  <1>4. QED
    BY <1>2, <1>3

\* The node in hand is done and leads to one node, or nowhere.
LEMMA LeadsToOne ==
  ASSUME TypeOK, frames # <<>>, NEW n \in Node \cup {None},
         NEW log \in Seq(Event), NEW on \in Following(log), NEW back \in Following(log),
         GoesOn(graph, log, frames, on, back)
  PROVE  /\ Via(graph, log, Go(n), on, back) \in Following(log)
         /\ GoesOn(graph, log, Stack(0, Visit(n)), Via(graph, log, Go(n), on, back), back)
  <1>1. graph \in Graph /\ Todo \in Seq(Part(graph))
    BY StepsAreParts, TodoTyped
  <1>2. Via(graph, log, Go(n), on, back) \in Following(log)
    BY <1>1, Parts, ViaFollows
  <1>3. Visit(n) \in Seq(Step)
    BY StepsTyped
  <1>4. ASSUME NEW exit, Leads(graph, log, Todo, on, exit, back)
        PROVE  Leads(graph, log, Visit(n) \o Todo, Via(graph, log, Go(n), on, back), exit, back)
    BY <1>1, <1>4, LeadsVisit
  <1>5. QED
    BY <1>2, <1>3, <1>4, MoreSteps

\* A plain node.
LEMMA PassTracks ==
  ASSUME FlowInv, Tracks, Pass, NEW log \in Seq(Event), Longer(log, events'.log)
  PROVE  OnTrack(log)'
  <1> DEFINE told == Len(events.log)
             next == graph.next[hand][1]
  <1>1. /\ hand # None /\ graph.kind[hand] = "plain" /\ frames' = Stack(0, Visit(next))
        /\ hand' = None /\ UNCHANGED <<raised, graph>> /\ events' = Off(hand)
    BY DEF Pass, Done, Quiet, IsKind
  <1>2. events'.log = events.log
    BY <1>1, EventsTyped DEF FlowInv, TypeOK
  <1>3. Longer(log, events.log)
    BY <1>2
  <1>4. /\ TypeOK /\ graph \in Graph /\ hand \in Node /\ frames # <<>> /\ raised = ""
        /\ told \in 1..Len(log) /\ log[told] = <<hand, 0>>
    BY <1>1, <1>3, HandTracks
  <1>5. PICK on, back \in Following(log) :
          /\ GoesOn(graph, log, frames, on, back)
          /\ FlowOf(graph, log)[1][Go(graph.start)] =
               After(FlowOf(graph, log)[told][Go(hand)], on, back)
    BY <1>1, <1>3, HandTracks
  <1>6. next \in Node \cup {None}
    <2>1. Len(graph.next[hand]) = 1
      BY <1>1, <1>4, Successors
    <2>2. 1 \in 1..Len(graph.next[hand])
      BY <2>1
    <2>3. QED
      BY <1>4, <2>2, Successors
  <1> DEFINE on2 == Via(graph, log, Go(next), on, back)
  <1>7. on2 \in Following(log) /\ GoesOn(graph, log, frames', on2, back)
    BY <1>1, <1>4, <1>5, <1>6, LeadsToOne
  <1>8. FlowOf(graph, log)[1][Go(graph.start)] = on2[told + 1]
    BY <1>1, <1>4, <1>5, ViaWire
  <1> HIDE DEF on2
  <1>9. QED
    BY <1>1, <1>2, <1>4, <1>7, <1>8, Arrives

\* A sequence opens its branches, a loop its laps.
LEMMA OpensTracks ==
  ASSUME FlowInv, Tracks, Opens, NEW log \in Seq(Event), Longer(log, events'.log)
  PROVE  OnTrack(log)'
  <1> DEFINE told == Len(events.log)
  <1>1. /\ hand # None /\ hand' = None /\ UNCHANGED <<raised, graph>> /\ events' = Off(hand)
        /\ \/ graph.kind[hand] = "sequence" /\ frames' = Stack(0, BranchOf(hand, 0))
           \/ graph.kind[hand] = "loop" /\ frames' = Stack(0, HeadOf(hand, 0))
    BY DEF Opens, Done, Quiet, IsKind
  <1>2. events'.log = events.log
    BY <1>1, EventsTyped DEF FlowInv, TypeOK
  <1>3. Longer(log, events.log)
    BY <1>2
  <1>4. /\ TypeOK /\ graph \in Graph /\ hand \in Node /\ frames # <<>> /\ raised = ""
        /\ told \in 1..Len(log) /\ log[told] = <<hand, 0>>
    BY <1>1, <1>3, HandTracks
  <1>5. PICK on, back \in Following(log) :
          /\ GoesOn(graph, log, frames, on, back)
          /\ FlowOf(graph, log)[1][Go(graph.start)] =
               After(FlowOf(graph, log)[told][Go(hand)], on, back)
    BY <1>1, <1>3, HandTracks
  <1>6. PICK p \in Part(graph) :
          /\ frames' = Stack(0, <<p>>) /\ <<p>> \in Seq(Step)
          /\ FlowOf(graph, log)[1][Go(graph.start)] = Via(graph, log, p, on, back)[told + 1]
    <2>1. CASE graph.kind[hand] = "sequence" /\ frames' = Stack(0, BranchOf(hand, 0))
      <3>1. BranchOf(hand, 0) = <<Rest(hand, 0)>> /\ Rest(hand, 0) \in Part(graph)
        BY <1>4, Parts DEF BranchOf, Rest
      <3>2. BranchOf(hand, 0) \in Seq(Step)
        BY <1>4, StepsTyped
      <3>3. FlowOf(graph, log)[1][Go(graph.start)] = Via(graph, log, Rest(hand, 0), on, back)[told + 1]
        BY <1>4, <1>5, <2>1, ViaSequence
      <3>4. QED
        BY <2>1, <3>1, <3>2, <3>3
    <2>2. CASE graph.kind[hand] = "loop" /\ frames' = Stack(0, HeadOf(hand, 0))
      <3>1. HeadOf(hand, 0) = <<Laps(hand)>> /\ Laps(hand) \in Part(graph)
        BY <1>4, <2>2, Parts DEF HeadOf, Laps
      <3>2. HeadOf(hand, 0) \in Seq(Step)
        BY <1>4, <2>2, StepsTyped
      <3>3. FlowOf(graph, log)[1][Go(graph.start)] = Via(graph, log, Laps(hand), on, back)[told + 1]
        BY <1>4, <1>5, <2>2, ViaLoop
      <3>4. QED
        BY <2>2, <3>1, <3>2, <3>3
    <2>3. QED
      BY <1>1, <2>1, <2>2
  <1> DEFINE on2 == Via(graph, log, p, on, back)
  <1>7. on2 \in Following(log)
    BY <1>4, ViaFollows
  <1>8. GoesOn(graph, log, frames', on2, back)
    <2>1. Todo \in Seq(Part(graph))
      BY <1>4, TodoTyped
    <2>2. ASSUME NEW exit, Leads(graph, log, Todo, on, exit, back)
          PROVE  Leads(graph, log, <<p>> \o Todo, on2, exit, back)
      BY <1>4, <2>1, <2>2, LeadsMore
    <2> HIDE DEF on2
    <2>3. GoesOn(graph, log, Stack(0, <<p>>), on2, back)
      BY <1>4, <1>5, <1>6, <1>7, <2>2, MoreSteps
    <2>4. QED
      BY <1>6, <2>3
  <1>9. FlowOf(graph, log)[1][Go(graph.start)] = on2[told + 1]
    BY <1>6
  <1> HIDE DEF on2
  <1>10. QED
    BY <1>1, <1>2, <1>4, <1>7, <1>8, <1>9, Arrives

\* What a decision read, or an agent, a judge or the user brought back, counts.
LEMMA TakeTracks ==
  ASSUME FlowInv, Tracks, Decides \/ Take, StillWalks', NEW log \in Seq(Event), Longer(log, events'.log)
  PROVE  OnTrack(log)'
  <1> DEFINE told == Len(events.log)
  <1>1. /\ hand # None /\ graph.kind[hand] \in {"agent", "decision", "ask"}
        /\ hand' = None /\ UNCHANGED graph
    <2>1. hand # None /\ graph.kind[hand] \in {"agent", "decision", "ask"}
      <3>1. Racing \/ IsKind(hand, "decision")
        BY DEF Decides, Take
      <3>2. QED
        BY <3>1 DEF Racing, Raced, IsKind
    <2>2. hand' = None
      BY DEF Decides, Take, Done, Raise
    <2>3. UNCHANGED graph
      BY DEF Decides, Take, Quiet
    <2>4. QED
      BY <2>1, <2>2, <2>3
  <1>2. PICK k \in 1..Len(graph.next[hand]) :
          /\ frames' = Stack(0, Visit(graph.next[hand][k])) /\ UNCHANGED raised
          /\ events' = IF IsKind(hand, "decision")
                       THEN [Off(hand) EXCEPT !.log = Append(@, <<hand, k>>)] ELSE Off(hand)
    <2>1. CASE Decides
      BY <2>1 DEF Decides, Done
    <2>2. CASE Take
      BY <2>2 DEF Take, Done, Raise, StillWalks
    <2>3. QED
      BY <2>1, <2>2
  <1>3. TypeOK /\ graph \in Graph /\ hand \in Node /\ Len(events.log) \in Nat
    <2>1. TypeOK
      BY DEF FlowInv
    <2>2. QED
      BY <1>1, <2>1, StepsAreParts DEF TypeOK
  <1>4. /\ graph.next[hand][k] \in Node \cup {None}
        /\ graph.kind[hand] = "decision" => k \in {1, 2}
        /\ graph.kind[hand] # "decision" => k = 1
    <2>1. graph.next[hand][k] \in Node \cup {None}
      BY <1>3, Successors
    <2>2. graph.kind[hand] = "decision" => Len(graph.next[hand]) = 2
      BY <1>3, Successors
    <2>3. graph.kind[hand] # "decision" => Len(graph.next[hand]) = 1
      BY <1>1, <1>3, Successors
    <2>4. (\A j \in 1..2 : j \in {1, 2}) /\ (\A j \in 1..1 : j = 1)
      OBVIOUS
    <2>5. PICK wires : wires = Len(graph.next[hand])
      OBVIOUS
    <2>6. k \in 1..wires
      BY <2>5
    <2>7. graph.kind[hand] = "decision" => k \in {1, 2}
      BY <2>2, <2>4, <2>5, <2>6
    <2>8. graph.kind[hand] # "decision" => k = 1
      BY <2>3, <2>4, <2>5, <2>6
    <2>9. QED
      BY <2>1, <2>7, <2>8
  <1>5. /\ graph.kind[hand] = "decision" => events'.log = Append(events.log, <<hand, k>>)
        /\ graph.kind[hand] # "decision" => events'.log = events.log
    <2>1. Off(hand) \in Told /\ Off(hand).log = events.log
      BY <1>3, EventsTyped
    <2>2. [Off(hand) EXCEPT !.log = Append(@, <<hand, k>>)].log = Append(events.log, <<hand, k>>)
      BY <2>1 DEF Told
    <2>3. IsKind(hand, "decision") <=> graph.kind[hand] = "decision"
      BY <1>1 DEF IsKind
    <2>4. QED
      BY <1>2, <2>1, <2>2, <2>3
  <1>6. /\ Longer(log, events.log)
        /\ graph.kind[hand] = "decision" =>
             /\ Len(events'.log) = told + 1 /\ told < Len(log) /\ log[told + 1] = <<hand, k>>
    <2>1. CASE graph.kind[hand] = "decision"
      <3>1. /\ Longer(log, events.log) /\ Len(events'.log) = told + 1
            /\ told + 1 \in 1..Len(log) /\ log[told + 1] = <<hand, k>>
        BY <1>3, <1>5, <2>1, ToldMore
      <3>2. Len(log) \in Nat
        BY LenProperties
      <3>3. told < Len(log)
        <4>1. \A a, b \in Nat : a + 1 \in 1..b => a < b
          OBVIOUS
        <4>2. QED
          BY <1>3, <3>1, <3>2, <4>1
      <3>4. QED
        BY <3>1, <3>3
    <2>2. CASE graph.kind[hand] # "decision"
      BY <1>5, <2>2
    <2>3. QED
      BY <2>1, <2>2
  <1>7. /\ frames # <<>> /\ raised = "" /\ told \in 1..Len(log) /\ log[told] = <<hand, 0>>
    BY <1>1, <1>6, HandTracks
  <1>8. PICK on, back \in Following(log) :
          /\ GoesOn(graph, log, frames, on, back)
          /\ FlowOf(graph, log)[1][Go(graph.start)] =
               After(FlowOf(graph, log)[told][Go(hand)], on, back)
    BY <1>1, <1>6, HandTracks
  <1> DEFINE next == graph.next[hand][k]
             on2 == Via(graph, log, Go(next), on, back)
  <1>9. on2 \in Following(log) /\ GoesOn(graph, log, frames', on2, back)
    BY <1>2, <1>3, <1>4, <1>7, <1>8, LeadsToOne
  <1>10. FlowOf(graph, log)[1][Go(graph.start)] = on2[Len(events'.log) + 1]
    <2>1. CASE graph.kind[hand] = "decision"
      <3>1. FlowOf(graph, log)[1][Go(graph.start)] = on2[told + 2]
        <4>1. After(FlowOf(graph, log)[told][Go(hand)], on, back) = on2[told + 2]
          <5>1. k \in {1, 2} /\ told < Len(log) /\ log[told + 1] = <<hand, k>>
            BY <1>4, <1>6, <2>1
          <5>2. QED
            BY <1>3, <1>7, <2>1, <5>1, ViaJudged
        <4>2. QED
          BY <1>8, <4>1
      <3>2. Len(events'.log) + 1 = told + 2
        <4>1. \A a \in Nat : (a + 1) + 1 = a + 2
          OBVIOUS
        <4>2. QED
          BY <1>3, <1>6, <2>1, <4>1
      <3>3. QED
        BY <3>1, <3>2
    <2>2. CASE graph.kind[hand] # "decision"
      <3>1. k = 1 /\ graph.kind[hand] \in {"plain", "agent", "ask"}
        BY <1>1, <1>4, <2>2
      <3>2. FlowOf(graph, log)[1][Go(graph.start)] = on2[told + 1]
        BY <1>3, <1>7, <1>8, <3>1, ViaWire
      <3>3. QED
        BY <1>5, <2>2, <3>2
    <2>3. QED
      BY <2>1, <2>2
  <1> HIDE DEF on2
  <1>11. QED
    BY <1>1, <1>2, <1>7, <1>8, <1>9, <1>10, Arrives

\* A Return goes where its call leads.
LEMMA ReturnsTracks ==
  ASSUME FlowInv, Tracks, Returns, NEW log \in Seq(Event), Longer(log, events'.log)
  PROVE  OnTrack(log)'
  <1> DEFINE told == Len(events.log)
  <1>1. /\ hand # None /\ graph.kind[hand] = "return" /\ frames' = frames
        /\ raised' = "return" /\ hand' = None /\ UNCHANGED graph /\ events' = Off(hand)
    BY DEF Returns, Raise, Quiet, IsKind
  <1>2. events'.log = events.log
    BY <1>1, EventsTyped DEF FlowInv, TypeOK
  <1>3. Longer(log, events.log)
    BY <1>2
  <1>4. graph \in Graph /\ hand \in Node /\ told \in 1..Len(log) /\ log[told] = <<hand, 0>>
    BY <1>1, <1>3, HandTracks
  <1>5. PICK on, back \in Following(log) :
          /\ GoesOn(graph, log, frames, on, back)
          /\ FlowOf(graph, log)[1][Go(graph.start)] =
               After(FlowOf(graph, log)[told][Go(hand)], on, back)
    BY <1>1, <1>3, HandTracks
  <1>6. FlowOf(graph, log)[1][Go(graph.start)] = back[told + 1]
    BY <1>1, <1>4, <1>5, ViaReturn
  <1>7. GoesOn(graph, log, frames', on, back)
    BY <1>1, <1>5
  <1>8. QED
    BY <1>1, <1>2, <1>6, <1>7, Arrives

\* A call goes into its function, which returns to what the call leads to.
LEMMA CallsTracks ==
  ASSUME FlowInv, Tracks, Calls, NEW log \in Seq(Event), Longer(log, events'.log)
  PROVE  OnTrack(log)'
  <1> DEFINE told == Len(events.log)
             next == graph.next[hand][1]
             into == graph.into[hand]
             walk == [call |-> hand, todo |-> Visit(into)]
  <1>1. /\ hand # None /\ graph.kind[hand] = "call" /\ frames' = Append(frames, walk)
        /\ UNCHANGED raised /\ hand' = None /\ UNCHANGED graph /\ events' = events
    BY DEF Calls, Quiet, IsKind
  <1>2. Longer(log, events.log)
    BY <1>1
  <1>3. /\ TypeOK /\ graph \in Graph /\ hand \in Node /\ frames # <<>> /\ raised = ""
        /\ told \in 1..Len(log) /\ log[told] = <<hand, 0>>
    BY <1>1, <1>2, HandTracks
  <1>4. PICK on, back \in Following(log) :
          /\ GoesOn(graph, log, frames, on, back)
          /\ FlowOf(graph, log)[1][Go(graph.start)] =
               After(FlowOf(graph, log)[told][Go(hand)], on, back)
    BY <1>1, <1>2, HandTracks
  <1>5. next \in Node \cup {None} /\ into \in Node \cup {None}
    <2>1. Len(graph.next[hand]) = 1 /\ into \in Node
      BY <1>1, <1>3, Wires
    <2>2. 1 \in 1..Len(graph.next[hand])
      BY <2>1
    <2>3. QED
      BY <1>3, <2>1, <2>2, Wires
  <1> DEFINE back2 == Via(graph, log, Go(next), on, back)
             on2 == Via(graph, log, Go(into), back2, back2)
  <1>6. back2 \in Following(log) /\ on2 \in Following(log)
    <2>1. Go(next) \in Part(graph) /\ Go(into) \in Part(graph)
      BY <1>3, <1>5, Parts
    <2>2. back2 \in Following(log)
      BY <1>3, <2>1, ViaFollows
    <2> HIDE DEF back2
    <2>3. QED
      BY <1>3, <2>1, <2>2, ViaFollows
  <1>7. FlowOf(graph, log)[1][Go(graph.start)] = on2[told + 1]
    BY <1>1, <1>3, <1>4, ViaCall
  <1>8. Leads(graph, log, walk.todo, on2, back2, back2)
    <2> HIDE DEF back2
    <2>1. <<>> \in Seq(Part(graph)) /\ Visit(into) \o <<>> = Visit(into)
      <3>1. Visit(into) \in Seq(Step)
        BY <1>5, StepsTyped
      <3>2. QED
        BY <3>1
    <2>2. Leads(graph, log, <<>>, back2, back2, back2)
      BY <1>6, LeadsIn
    <2>3. Leads(graph, log, Visit(into) \o <<>>, on2, back2, back2)
      BY <1>3, <1>5, <1>6, <2>1, <2>2, LeadsVisit
    <2>4. QED
      BY <2>1, <2>3
  <1>9. walk.call = hand
    OBVIOUS
  <1>10. /\ Len(frames) \in Nat \ {0} /\ Len(frames') = Len(frames) + 1
         /\ \A d \in 1..Len(frames) : frames'[d] = frames[d]
         /\ frames'[Len(frames) + 1] = walk
    <2> HIDE DEF walk
    <2>1. frames \in Seq(Frame)
      BY <1>3 DEF TypeOK
    <2>2. \A w : \A walks \in Seq(Frame) :
            /\ Len(Append(walks, w)) = Len(walks) + 1
            /\ Append(walks, w)[Len(walks) + 1] = w
            /\ \A d \in 1..Len(walks) : Append(walks, w)[d] = walks[d]
      OBVIOUS
    <2>3. Len(frames) \in Nat \ {0}
      BY <1>3, <2>1, EmptySeq
    <2>4. QED
      BY <1>1, <2>1, <2>2, <2>3
  <1> HIDE DEF walk, on2
  <1>11. GoesOn(graph, log, frames', on2, back2)
    <2>1. back2 = AfterCall(graph, log, walk, on, back)
      BY <1>9 DEF AfterCall
    <2>2. walk.call \in Node /\ graph.kind[walk.call] = "call"
      BY <1>1, <1>3, <1>9
    <2> HIDE DEF back2
    <2>3. Deeper(frames, walk, frames')
      BY <1>10 DEF Deeper
    <2>4. QED
      BY <1>3, <1>4, <1>6, <1>8, <2>1, <2>2, <2>3, DeeperNest
  <1> HIDE DEF back2
  <1>12. QED
    BY <1>1, <1>3, <1>6, <1>7, <1>11, Arrives

\* The walk below the innermost one takes these steps first.
LEMMA BelowElements ==
  ASSUME TypeOK, Depth > 1, NEW steps \in Seq(Step)
  PROVE  LET rest == SubSeq(frames, 1, Depth - 1)
         IN /\ Depth = Len(frames) /\ Len(frames) \in Nat /\ Len(rest) = Len(frames) - 1
            /\ \A d \in 1..Len(frames) - 1 : rest[d] = frames[d]
            /\ Len(Below(steps)) = Len(rest)
            /\ \A d \in 1..Len(rest) - 1 : Below(steps)[d] = rest[d]
            /\ Below(steps)[Len(rest)].call = rest[Len(rest)].call
            /\ Below(steps)[Len(rest)].todo = steps \o rest[Len(rest)].todo
            /\ rest[Len(rest)].todo \in Seq(Step)
  <1> DEFINE rest == SubSeq(frames, 1, Depth - 1)
  <1>1. frames \in Seq(Frame) /\ Len(frames) \in Nat /\ Depth = Len(frames)
    BY LenProperties DEF TypeOK, Depth
  <1>2. \A i \in 1..Depth - 1 : frames[i] \in Frame
    BY <1>1, ElementOfSeq
  <1>3. /\ rest \in Seq(Frame) /\ Len(rest) = Len(frames) - 1
        /\ \A i \in 1..Len(frames) - 1 : rest[i] = frames[i]
    BY <1>1, <1>2, SubSeqProperties
  <1>4. Depth - 1 = Len(rest) /\ Len(rest) \in 1..Len(rest)
    BY <1>1, <1>3
  <1> DEFINE last == rest[Len(rest)]
             new == [last EXCEPT !.todo = steps \o @]
  <1>5. /\ last.todo \in Seq(Step) /\ new.call = last.call
        /\ new.todo = steps \o last.todo
    <2>1. last \in Frame
      BY <1>3, <1>4, ElementOfSeq
    <2> HIDE DEF last
    <2>2. QED
      BY <2>1 DEF Frame
  <1>6. Below(steps) = [rest EXCEPT ![Len(rest)] = new]
    BY <1>4 DEF Below
  <1> HIDE DEF rest, new
  <1>7. /\ Len([rest EXCEPT ![Len(rest)] = new]) = Len(rest)
        /\ [rest EXCEPT ![Len(rest)] = new][Len(rest)] = new
        /\ \A d \in 1..Len(rest) - 1 : [rest EXCEPT ![Len(rest)] = new][d] = rest[d]
    BY <1>3, <1>4
  <1>8. QED
    BY <1>1, <1>3, <1>5, <1>6, <1>7 DEF rest

\* A call is over: the walk that made it goes where the call leads.
LEMMA CallDoneTracks ==
  ASSUME FlowInv, Tracks, CallDone, NEW log \in Seq(Event), Longer(log, events'.log)
  PROVE  OnTrack(log)'
  <1> DEFINE told == Len(events.log)
             next == graph.next[Caller][1]
             lower == SubSeq(frames, 1, Depth - 1)
  <1>1. /\ Depth > 1 /\ hand = None /\ hand' = None /\ UNCHANGED graph
        /\ raised = "return" \/ (raised = "" /\ Todo = <<>>)
        /\ frames' = Below(Visit(next)) /\ raised' = "" /\ events' = Off(Caller)
    BY DEF CallDone, Quiet
  <1>2. TypeOK /\ graph \in Graph /\ Len(frames) \in Nat /\ Depth = Len(frames)
    <2>1. TypeOK
      BY DEF FlowInv
    <2>2. frames \in Seq(Frame)
      BY <2>1 DEF TypeOK
    <2>3. Len(frames) \in Nat
      BY <2>2, LenProperties
    <2>4. QED
      BY <2>1, <2>3, StepsAreParts DEF Depth
  <1>3. frames # <<>> /\ Len(frames) \in 2..Len(frames)
    <2>1. Len(frames) \in 2..Len(frames)
      <3>1. \A a \in Nat : a > 1 => a \in 2..a
        OBVIOUS
      <3>2. QED
        BY <1>1, <1>2, <3>1
    <2>2. frames # <<>>
      <3>1. Len(<<>>) = 0 /\ Len(frames) # 0
        BY <1>2, <2>1
      <3>2. QED
        BY <3>1
    <2>3. QED
      BY <2>1, <2>2
  <1>4. Caller \in Node /\ graph.kind[Caller] = "call" /\ Caller = frames[Len(frames)].call
    BY <1>2, <1>3 DEF FlowInv, Walks, Caller
  <1>5. events'.log = events.log /\ next \in Node \cup {None}
    <2>1. Len(graph.next[Caller]) = 1
      BY <1>2, <1>4, Wires
    <2>2. 1 \in 1..Len(graph.next[Caller])
      BY <2>1
    <2>3. QED
      BY <1>1, <1>2, <1>4, <2>2, EventsTyped, Wires
  <1>6. PICK on, back \in Following(log) :
          /\ GoesOn(graph, log, frames, on, back)
          /\ FlowOf(graph, log)[1][Go(graph.start)] =
               IF raised = "" THEN on[told + 1] ELSE back[told + 1]
    <2>1. StillWalks /\ Longer(log, events.log)
      BY <1>1, <1>3, <1>5 DEF StillWalks
    <2>2. OnTrack(log)
      BY <2>1 DEF Tracks
    <2>3. QED
      BY <1>1, <2>2 DEF OnTrack, Here
  <1>7. Visit(next) \in Seq(Step)
    BY <1>5, StepsTyped
  <1>8. /\ Len(lower) = Len(frames) - 1 /\ \A d \in 1..Len(frames) - 1 : lower[d] = frames[d]
        /\ Len(frames') = Len(lower) /\ \A d \in 1..Len(lower) - 1 : frames'[d] = lower[d]
        /\ frames'[Len(lower)].call = lower[Len(lower)].call
        /\ frames'[Len(lower)].todo = Visit(next) \o lower[Len(lower)].todo
        /\ lower[Len(lower)].todo \in Seq(Step)
    BY <1>1, <1>2, <1>7, BelowElements
  <1> HIDE DEF lower, next
  <1>9. /\ \E on2, back2 \in Following(log) :
             GoesOn(graph, log, lower, on2, back2)
             /\ back = Via(graph, log, Go(next), on2, back2)
        /\ Todo = <<>> => on = back
    <2>1. Todo = frames[Len(frames)].todo
      BY <1>2, <1>3, TodoTyped
    <2>2. /\ \E on2, back2 \in Following(log) :
               /\ GoesOn(graph, log, lower, on2, back2)
               /\ back = AfterCall(graph, log, frames[Len(frames)], on2, back2)
          /\ frames[Len(frames)].todo = <<>> => on = back
      <3>1. Len(frames) > 1
        BY <1>1, <1>2
      <3>2. QED
        <4>1. Shallower(frames, lower)
          BY <1>2, <1>8, <3>1 DEF Shallower
        <4>2. GoesOn(graph, log, frames, on, back)
          BY <1>6
        <4>3. QED
          BY <4>1, <4>2, ShallowerNest
    <2>3. QED
      BY <1>4, <2>1, <2>2 DEF next, AfterCall
  <1>10. PICK on2, back2 \in Following(log) :
           /\ GoesOn(graph, log, lower, on2, back2)
           /\ back = Via(graph, log, Go(next), on2, back2)
    BY <1>9
  <1>11. GoesOn(graph, log, frames', back, back2)
    <2>1. Len(lower) \in Nat \ {0}
      <3>1. \A a \in Nat : a > 1 => a - 1 \in Nat \ {0}
        OBVIOUS
      <3>2. QED
        BY <1>1, <1>2, <1>8, <3>1
    <2>2. PICK exit :
            /\ Leads(graph, log, lower[Len(lower)].todo, on2, exit, back2)
            /\ \A new, on3 :
                 /\ Len(new) = Len(lower) /\ on3 \in Following(log)
                 /\ \A d \in 1..Len(lower) - 1 : new[d] = lower[d]
                 /\ new[Len(lower)].call = lower[Len(lower)].call
                 /\ Leads(graph, log, new[Len(lower)].todo, on3, exit, back2)
                 => GoesOn(graph, log, new, on3, back2)
      BY <1>10, <2>1, SameNest
    <2>3. lower[Len(lower)].todo \in Seq(Part(graph))
      BY <1>2, <1>8, StepsAreParts
    <2>4. Leads(graph, log, Visit(next) \o lower[Len(lower)].todo, back, exit, back2)
      BY <1>2, <1>5, <1>10, <2>2, <2>3, LeadsVisit
    <2>5. QED
      BY <1>6, <1>8, <2>2, <2>4
  <1>12. FlowOf(graph, log)[1][Go(graph.start)] = back[told + 1]
    BY <1>1, <1>6, <1>9
  <1>13. QED
    BY <1>1, <1>5, <1>10, <1>11, <1>12, Arrives

\* At the start the flow is at the start.
LEMMA InitTracks ==
  ASSUME Init, NEW log \in Seq(Event)
  PROVE  OnTrack(log)
  <1> DEFINE end == Len(log) + 1
             over == [i \in 1..end |-> On(i)]
             back == [i \in 1..end |-> Back(i)]
             start == Go(graph.start)
             on == Via(graph, log, start, over, back)
             walks == <<[call |-> None, todo |-> Visit(graph.start)]>>
  <1>1. /\ graph \in Graph /\ frames = walks /\ hand = None /\ raised = ""
        /\ events.log = <<>>
    BY DEF Init
  <1>2. graph.start \in Node /\ start \in Part(graph)
    <2>1. graph.start \in Node
      BY <1>1, FlowAssumption DEF Program
    <2>2. QED
      BY <1>1, <2>1, Parts
  <1>3. end \in Nat \ {0} /\ end \in 1..end /\ 1 \in 1..end
    BY LenProperties
  <1>4. over \in Following(log) /\ back \in Following(log)
    <2>1. \A i \in 1..end : On(i) \in Result /\ Back(i) \in Result
      BY <1>3, Results
    <2>2. On(end).how # "wrong" /\ Back(end).how # "wrong"
      BY Results
    <2>3. QED
      BY <1>3, <2>1, <2>2 DEF Following
  <1>5. on \in Following(log)
    BY <1>1, <1>2, <1>4, ViaFollows
  <1>6. Leads(graph, log, Visit(graph.start), on, over, back)
    <2> HIDE DEF over, back
    <2>1. <<>> \in Seq(Part(graph)) /\ Visit(graph.start) \o <<>> = Visit(graph.start)
      <3>1. Visit(graph.start) \in Seq(Step)
        BY <1>2, StepsTyped
      <3>2. QED
        BY <3>1
    <2>2. Leads(graph, log, <<>>, over, over, back)
      BY <1>4, LeadsIn
    <2>3. Leads(graph, log, Visit(graph.start) \o <<>>, on, over, back)
      BY <1>1, <1>2, <1>4, <2>1, <2>2, LeadsVisit
    <2>4. QED
      BY <2>1, <2>3
  <1>7. GoesOn(graph, log, walks, on, back)
    <2> DEFINE c == [d \in 1..1 |-> on]
               b == [d \in 1..1 |-> back]
    <2>1. Len(walks) = 1 /\ walks[1].todo = Visit(graph.start)
      OBVIOUS
    <2> HIDE DEF walks, on, back
    <2>2. c[1] = on /\ b[1] = back /\ c \in [1..1 -> Following(log)] /\ b \in [1..1 -> Following(log)]
      BY <1>4, <1>5
    <2>3. (\A d \in 1..1 : d = 1) /\ (\A d \in 2..1 : FALSE)
      OBVIOUS
    <2> HIDE DEF c, b
    <2>4. Nest(graph, log, walks, c, b)
      <3>1. \A d \in 1..1 :
              Leads(graph, log, walks[d].todo, c[d],
                    IF d = 1 THEN [i \in 1..Len(log) + 1 |-> On(i)] ELSE b[d], b[d])
        BY <1>6, <2>1, <2>2, <2>3
      <3>2. QED
        BY <2>1, <2>2, <2>3, <3>1 DEF Nest
    <2>5. QED
      BY <2>1, <2>2, <2>4 DEF GoesOn
  <1>8. FlowOf(graph, log)[1][start] = on[1]
    <2> DEFINE r == FlowOf(graph, log)[1][start]
    <2>1. r \in Ahead(log, 1)
      <3>1. ReadsAhead(graph, log, FlowOf(graph, log), 1)
        BY <1>1, FlowReads
      <3>2. QED
        BY <1>2, <1>3, <3>1 DEF ReadsAhead
    <2>2. on[1] = After(r, over, back)
      BY <1>3 DEF Via
    <2> HIDE DEF r
    <2>3. r \in Result /\ (r.how \in {"on", "back"} => r.at \in 1..end)
      BY <2>1 DEF Ahead
    <2>4. r.how = "on" => r = On(r.at)
      BY <2>3 DEF Result, On
    <2>5. r.how = "back" => r = Back(r.at)
      BY <2>3 DEF Result, Back
    <2>6. After(r, over, back) = r
      BY <2>3, <2>4, <2>5 DEF After
    <2>7. QED
      BY <2>2, <2>6 DEF r
  <1>9. Here(log, on, back) = on[1]
    <2> HIDE DEF on, back
    <2>1. Len(events.log) + 1 = 1
      <3>1. events.log = <<>>
        BY <1>1
      <3>2. QED
        BY <3>1
    <2>2. QED
      BY <1>1, <2>1 DEF Here
  <1> HIDE DEF on, back, walks, start
  <1>10. GoesOn(graph, log, frames, on, back)
    BY <1>1, <1>7
  <1>11. FlowOf(graph, log)[1][Go(graph.start)] = Here(log, on, back)
    BY <1>8, <1>9 DEF start
  <1>12. QED
    BY <1>4, <1>5, <1>10, <1>11 DEF OnTrack

\* A step that leaves the walks and the log alone leaves the flow where it is.
LEMMA SameTrack ==
  ASSUME Tracks, StillWalks, UNCHANGED <<graph, frames, hand, raised>>,
         events'.log = events.log, NEW log \in Seq(Event), Longer(log, events'.log)
  PROVE  OnTrack(log)'
  <1>1. Longer(log, events.log)
    BY Zenon
  <1>2. PICK on, back \in Following(log) :
          /\ GoesOn(graph, log, frames, on, back)
          /\ FlowOf(graph, log)[1][Go(graph.start)] = Here(log, on, back)
    BY <1>1 DEF Tracks, OnTrack
  <1>3. Here(log, on, back)' = Here(log, on, back)
    BY DEF Here
  <1>4. GoesOn(graph, log, frames, on, back)'
    BY <1>2
  <1>5. (FlowOf(graph, log)[1][Go(graph.start)] = Here(log, on, back))'
    BY <1>2, <1>3
  <1>6. QED
    BY <1>4, <1>5 DEF OnTrack

\* The walks stay where the call tree is.
LEMMA TracksStep == FlowInv /\ Tracks /\ [Next]_vars => Tracks'
  <1> SUFFICES ASSUME FlowInv, Tracks, [Next]_vars, StillWalks',
                      NEW log \in Seq(Event), Longer(log, events'.log)
               PROVE  OnTrack(log)'
    BY DEF Tracks
  <1>1. CASE Checkpoint
    BY <1>1 DEF Checkpoint, StillWalks
  <1>2. CASE Begin
    BY <1>2, BeginTracks
  <1>3. CASE Branch
    BY <1>3, BranchTracks
  <1>4. CASE Lap
    BY <1>4, LapTracks
  <1>5. CASE Pass
    BY <1>5, PassTracks
  <1>6. CASE Opens
    BY <1>6, OpensTracks
  <1>7. CASE Ends
    BY <1>7 DEF Ends, Raise, StillWalks
  <1>8. CASE Returns
    BY <1>8, ReturnsTracks
  <1>9. CASE Calls
    BY <1>9, CallsTracks
  <1>10. CASE Decides \/ Take
    BY <1>10, TakeTracks
  <1>11. CASE CallDone
    BY <1>11, CallDoneTracks
  <1>12. CASE Unwinds
    BY <1>12 DEF Unwinds, Outcome, StillWalks
  <1>13. CASE RunOver
    BY <1>13 DEF RunOver, StillWalks
  <1>14. CASE Pull \/ Reply \/ LetGo \/ Stop \/ UNCHANGED vars
    <2>1. UNCHANGED <<graph, frames, hand, raised, events>>
      BY <1>14 DEF Pull, Reply, LetGo, Quiet, Stop, vars
    <2>2. StillWalks
      BY <2>1 DEF StillWalks
    <2>3. QED
      BY <2>1, <2>2, SameTrack
  <1>15. QED
    BY <1>1, <1>2, <1>3, <1>4, <1>5, <1>6, <1>7, <1>8, <1>9, <1>10, <1>11, <1>12, <1>13, <1>14
       DEF Next, Walk

\* Only an End completes a run by an exception, and it was the last to start.
LEMMA EndIsLastStep == FlowInv /\ EndIsLast /\ [Next]_vars => EndIsLast'
  <1> SUFFICES ASSUME FlowInv, EndIsLast, [Next]_vars, raised' = "completed"
               PROVE  EndIsLast'
    BY DEF EndIsLast
  <1>1. TypeOK /\ (hand # None => raised = "")
    BY DEF FlowInv, InHand
  <1>2. CASE Ends
    <2>1. /\ hand # None /\ graph.kind[hand] = "end" /\ events' = Off(hand) /\ graph' = graph
      BY <1>2 DEF Ends, IsKind, Quiet
    <2>2. hand \in Node
      BY <1>1, <2>1 DEF TypeOK
    <2>3. events'.log = events.log
      BY <1>1, <2>1, <2>2, EventsTyped
    <2>4. events.log # <<>> /\ events.log[Len(events.log)] = <<hand, 0>>
      BY <2>1 DEF FlowInv, InHand
    <2>5. QED
      BY <2>1, <2>3, <2>4 DEF EndIsLast
  <1>3. CASE Unwinds
    <2>1. Depth > 1 /\ raised' = raised /\ events' = Off(Caller) /\ graph' = graph
      BY <1>3 DEF Unwinds, Quiet
    <2>2. Caller \in Node
      <3>1. frames \in Seq(Frame) /\ Depth = Len(frames)
        BY <1>1 DEF TypeOK, Depth
      <3>2. Len(frames) \in Nat
        BY <3>1, LenProperties
      <3>3. Len(frames) \in 2..Len(frames)
        BY <2>1, <3>1, <3>2
      <3>4. QED
        BY <3>1, <3>3 DEF FlowInv, Walks, Caller
    <2>3. events'.log = events.log
      BY <1>1, <2>1, <2>2, EventsTyped
    <2>4. QED
      BY <2>1, <2>3 DEF EndIsLast
  <1>4. CASE Reply \/ LetGo \/ Stop \/ UNCHANGED vars
    <2>1. UNCHANGED <<graph, raised, events>>
      BY <1>4 DEF Reply, LetGo, Quiet, Stop, vars
    <2>2. QED
      BY <2>1 DEF EndIsLast
  <1>5. CASE Checkpoint \/ Begin \/ Branch \/ Pull \/ Lap
    BY <1>5 DEF Checkpoint, Begin, Branch, Pull, Lap, Idle, HasNext
  <1>6. CASE Pass \/ Opens \/ Calls
    BY <1>1, <1>6 DEF Pass, Opens, Calls, Done, IsKind
  <1>7. CASE Returns \/ CallDone \/ RunOver
    BY <1>7 DEF Returns, Raise, CallDone, RunOver
  <1>8. CASE Decides \/ Take
    <2>1. hand # None
      BY <1>8 DEF Decides, Take, Racing, IsKind
    <2>2. raised' = raised \/ raised' \in {"failed", "stopped"}
      BY <1>8 DEF Decides, Take, Done, Raise
    <2>3. QED
      BY <1>1, <2>1, <2>2
  <1>9. QED
    BY <1>2, <1>3, <1>4, <1>5, <1>6, <1>7, <1>8 DEF Next, Walk

\* While it walks, what was told so far follows the call tree.
LEMMA NeverWrong ==
  ASSUME FlowInv, Tracks, StillWalks
  PROVE  FlowOf(graph, events.log)[1][Go(graph.start)].how # "wrong"
  <1>1. TypeOK /\ graph \in Graph /\ events.log \in Seq(Event) /\ Len(events.log) \in Nat
    <2>1. TypeOK
      BY DEF FlowInv
    <2>2. QED
      BY <2>1, StepsAreParts
  <1>2. PICK log \in Seq(Event) : log = events.log
    BY <1>1
  <1>3. Longer(log, events.log) /\ Len(log) \in Nat
    BY <1>1, <1>2 DEF Longer
  <1>4. PICK on, back \in Following(log) :
          FlowOf(graph, log)[1][Go(graph.start)] = Here(log, on, back)
    BY <1>3 DEF Tracks, OnTrack
  <1>5. CASE hand = None
    <2>1. Here(log, on, back) \in {on[Len(log) + 1], back[Len(log) + 1]}
      BY <1>2, <1>5 DEF Here
    <2>2. on[Len(log) + 1].how # "wrong" /\ back[Len(log) + 1].how # "wrong"
      BY DEF Following
    <2>3. QED
      BY <1>2, <1>4, <2>1, <2>2
  <1>6. CASE hand # None
    <2>1. hand \in Node /\ Len(log) \in 1..Len(log) /\ log[Len(log)] = <<hand, 0>>
      BY <1>2, <1>3, <1>6, HandTracks
    <2>2. After(FlowOf(graph, log)[Len(log)][Go(hand)], on, back).how # "wrong"
      BY <1>1, <2>1, ViaLast
    <2>3. Here(log, on, back) = After(FlowOf(graph, log)[Len(log)][Go(hand)], on, back)
      BY <1>2, <1>6 DEF Here
    <2>4. QED
      BY <1>2, <1>4, <2>2, <2>3
  <1>7. QED
    BY <1>5, <1>6

\* The invariant says what it is for.
LEMMA OrderFollows ==
  ASSUME FlowInv, OrderInv
  PROVE  FollowsGraph
  <1>1. CASE StillWalks
    <2>1. FlowOf(graph, events.log)[1][Go(graph.start)].how # "wrong"
      BY <1>1, NeverWrong DEF OrderInv
    <2>2. events.status = "running"
      BY <1>1 DEF FlowInv, OverIsEmpty, StillWalks
    <2>3. QED
      BY <2>1, <2>2 DEF FollowsGraph
  <1>2. CASE ~StillWalks
    BY <1>2 DEF OrderInv
  <1>3. QED
    BY <1>1, <1>2

\* The outermost walk has nothing left.
NothingLeft == Depth = 1 /\ hand = None /\ raised = "" /\ Todo = <<>>

\* A walk that has nothing left has gone through all that was told.
LEMMA AllTheWay ==
  ASSUME FlowInv, Tracks, NothingLeft
  PROVE  FlowOf(graph, events.log)[1][Go(graph.start)] = On(Len(events.log) + 1)
  <1>1. TypeOK /\ events.log \in Seq(Event) /\ Len(events.log) \in Nat
    <2>1. TypeOK
      BY DEF FlowInv
    <2>2. QED
      BY <2>1, StepsAreParts
  <1>2. Len(frames) = 1 /\ frames # <<>>
    <2>1. Len(frames) = 1
      BY DEF NothingLeft, Depth
    <2>2. frames # <<>>
      <3>1. Len(<<>>) = 0
        OBVIOUS
      <3>2. QED
        BY <2>1, <3>1
    <2>3. QED
      BY <2>1, <2>2
  <1>3. PICK log \in Seq(Event) : log = events.log
    BY <1>1
  <1>4. Longer(log, events.log) /\ Len(log) \in Nat
    BY <1>1, <1>3 DEF Longer
  <1>5. PICK on, back \in Following(log) :
          /\ GoesOn(graph, log, frames, on, back)
          /\ FlowOf(graph, log)[1][Go(graph.start)] = Here(log, on, back)
    <2>1. StillWalks
      BY <1>2 DEF NothingLeft, StillWalks
    <2>2. QED
      BY <1>4, <2>1 DEF Tracks, OnTrack
  <1>6. PICK exit :
          /\ Leads(graph, log, frames[Len(frames)].todo, on, exit, back)
          /\ Len(frames) = 1 => exit = [i \in 1..Len(log) + 1 |-> On(i)]
    <2>1. Len(frames) \in Nat \ {0}
      BY <1>2
    <2>2. GoesOn(graph, log, frames, on, back)
      BY <1>5
    <2>3. \E exit :
            /\ Leads(graph, log, frames[Len(frames)].todo, on, exit, back)
            /\ Len(frames) = 1 => exit = [i \in 1..Len(log) + 1 |-> On(i)]
            /\ \A new, on2 :
                 /\ Len(new) = Len(frames) /\ on2 \in Following(log)
                 /\ \A d \in 1..Len(frames) - 1 : new[d] = frames[d]
                 /\ new[Len(frames)].call = frames[Len(frames)].call
                 /\ Leads(graph, log, new[Len(frames)].todo, on2, exit, back)
                 => GoesOn(graph, log, new, on2, back)
      BY <2>1, <2>2, SameNest
    <2>4. QED
      BY <2>3
  <1>7. frames[Len(frames)].todo = <<>>
    BY <1>1, <1>2, TodoTyped DEF NothingLeft
  <1>8. on = [i \in 1..Len(log) + 1 |-> On(i)]
    BY <1>2, <1>6, <1>7, LeadsOut
  <1>9. Here(log, on, back) = on[Len(log) + 1]
    BY <1>3 DEF Here, NothingLeft
  <1>10. on[Len(log) + 1] = On(Len(log) + 1)
    BY <1>4, <1>8
  <1>11. QED
    BY <1>3, <1>5, <1>9, <1>10

\* A step keeps the order.
LEMMA OrderStep == FlowInv /\ OrderInv /\ [Next]_vars => OrderInv'
  <1> SUFFICES ASSUME FlowInv, OrderInv, [Next]_vars
               PROVE  OrderInv'
    OBVIOUS
  <1>1. Tracks' /\ EndIsLast'
    BY TracksStep, EndIsLastStep DEF OrderInv
  <1>2. FollowsGraph /\ TypeOK
    BY OrderFollows DEF FlowInv
  <1> SUFFICES ASSUME ~StillWalks'
               PROVE  FollowsGraph'
    BY <1>1 DEF OrderInv
  <1>3. ASSUME UNCHANGED graph, events'.log = events.log, events'.status = events.status
        PROVE  FollowsGraph'
    BY <1>2, <1>3 DEF FollowsGraph
  <1>4. ASSUME frames # <<>>, NEW used \in {0, 1}, used <= Len(Todo), NEW steps \in Seq(Step),
               frames' = Stack(used, steps), raised' = ""
        PROVE  FALSE
    <2>1. Len(Stack(used, steps)) \in Nat \ {0}
      BY <1>2, <1>4, StackElements
    <2>2. Stack(used, steps) # <<>>
      <3>1. Len(<<>>) = 0
        OBVIOUS
      <3>2. QED
        BY <2>1, <3>1
    <2>3. QED
      BY <1>4, <2>2 DEF StillWalks
  <1>5. hand # None => hand \in Node /\ frames # <<>> /\ raised = "" /\ Off(hand).log = events.log
                       /\ Off(hand).status = events.status
    <2>1. hand # None => hand \in Node /\ frames # <<>> /\ raised = ""
      BY <1>2 DEF FlowInv, InHand, TypeOK
    <2>2. QED
      BY <1>2, <2>1, EventsTyped
  <1>6. Depth > 1 => Off(Caller).log = events.log /\ Off(Caller).status = events.status
    <2> SUFFICES ASSUME Depth > 1
                 PROVE  Caller \in Node
      BY <1>2, EventsTyped
    <2>1. frames \in Seq(Frame) /\ Depth = Len(frames)
      BY <1>2 DEF TypeOK, Depth
    <2>2. Len(frames) \in Nat
      BY <2>1, LenProperties
    <2>3. Len(frames) \in 2..Len(frames)
      BY <2>1, <2>2
    <2>4. QED
      BY <2>1, <2>3 DEF FlowInv, Walks, Caller
  <1>7. CASE Begin \/ Lap
    <2>1. HasNext /\ raised' = ""
      BY <1>7 DEF Begin, Lap, Idle, HasNext
    <2>2. frames # <<>> /\ Todo # <<>> /\ hand = None /\ raised = ""
      BY <2>1 DEF HasNext
    <2>3. 1 <= Len(Todo) /\ Top \in Step
      BY <1>2, <2>2, TodoTyped
    <2>4. \E steps \in Seq(Step) : frames' = Stack(1, steps)
      <3>1. CASE Begin
        <4>1. frames' = Stack(1, <<>>) /\ <<>> \in Seq(Step)
          BY <3>1 DEF Begin
        <4>2. QED
          BY <4>1
      <3>2. CASE Lap
        <4> DEFINE n == Top.node
                   i == Top.index
        <4>1. /\ Top.step = "lap"
              /\ \/ frames' = Stack(1, Visit(graph.next[n][1]) \o HeadOf(n, i + 1))
                 \/ frames' = Stack(1, Visit(graph.next[n][2]))
          BY <3>2 DEF Lap
        <4>2. n \in Node /\ i + 1 \in Nat /\ graph.kind[n] = "loop"
          BY <2>3, <4>1 DEF Step
        <4>3. graph.next[n][1] \in Node \cup {None} /\ graph.next[n][2] \in Node \cup {None}
          <5>1. Len(graph.next[n]) = 2
            BY <1>2, <4>2, Successors
          <5>2. 1 \in 1..Len(graph.next[n]) /\ 2 \in 1..Len(graph.next[n])
            BY <5>1
          <5>3. QED
            BY <1>2, <4>2, <5>2, Successors
        <4>4. /\ Visit(graph.next[n][1]) \in Seq(Step) /\ Visit(graph.next[n][2]) \in Seq(Step)
              /\ HeadOf(n, i + 1) \in Seq(Step)
          BY <4>2, <4>3, StepsTyped
        <4>5. Visit(graph.next[n][1]) \o HeadOf(n, i + 1) \in Seq(Step)
          BY <4>4, ConcatProperties
        <4>6. QED
          BY <4>1, <4>4, <4>5
      <3>3. QED
        BY <1>7, <3>1, <3>2
    <2>5. QED
      BY <1>4, <2>1, <2>2, <2>3, <2>4
  <1>8. CASE Decides \/ Take
    <2>1. hand # None /\ UNCHANGED graph
      BY <1>8 DEF Decides, Take, Racing, IsKind, Quiet
    <2>2. CASE \E k \in 1..Len(graph.next[hand]) : Done(Visit(graph.next[hand][k]))
      <3>1. PICK k \in 1..Len(graph.next[hand]) : Done(Visit(graph.next[hand][k]))
        BY <2>2
      <3>2. Visit(graph.next[hand][k]) \in Seq(Step)
        BY <1>2, <1>5, <2>1, Successors, StepsTyped
      <3>3. 0 \in {0, 1} /\ 0 <= Len(Todo)
        <4>1. Len(Todo) \in Nat
          BY <1>2, <1>5, <2>1, TodoTyped
        <4>2. \A a \in Nat : 0 <= a
          OBVIOUS
        <4>3. QED
          BY <4>1, <4>2
      <3>4. raised' = "" /\ frames' = Stack(0, Visit(graph.next[hand][k]))
        BY <1>5, <2>1, <3>1 DEF Done
      <3>5. QED
        BY <1>4, <1>5, <2>1, <3>2, <3>3, <3>4
    <2>3. CASE events' = Off(hand)
      BY <1>3, <1>5, <2>1, <2>3
    <2>4. QED
      BY <1>8, <2>2, <2>3 DEF Decides, Take
  <1>9. CASE Checkpoint \/ Branch \/ Pull \/ Reply \/ LetGo \/ Stop \/ UNCHANGED vars
    <2>1. UNCHANGED <<graph, events>>
      BY <1>9 DEF Checkpoint, Branch, Pull, Reply, LetGo, Quiet, Stop, vars
    <2>2. QED
      BY <1>3, <2>1
  <1>10. CASE Calls
    <2>1. UNCHANGED <<graph, events>>
      BY <1>10 DEF Calls, Quiet
    <2>2. QED
      BY <1>3, <2>1
  <1>11. CASE Pass \/ Opens \/ Ends \/ Returns
    <2>1. hand # None /\ events' = Off(hand) /\ UNCHANGED graph
      BY <1>11 DEF Pass, Opens, Ends, Returns, IsKind, Quiet
    <2>2. QED
      BY <1>3, <1>5, <2>1
  <1>12. CASE CallDone \/ Unwinds
    <2>1. Depth > 1 /\ events' = Off(Caller) /\ UNCHANGED graph
      BY <1>12 DEF CallDone, Unwinds, Quiet
    <2>2. QED
      BY <1>3, <1>6, <2>1
  <1>13. CASE RunOver
    <2>1. /\ Depth = 1 /\ hand = None /\ UNCHANGED graph
          /\ raised \in Outcome \/ (raised = "" /\ Todo = <<>>)
          /\ events' = [events EXCEPT !.status = IF raised = "" THEN "completed" ELSE raised]
      BY <1>13 DEF RunOver, Quiet
    <2>2. /\ events'.log = events.log
          /\ events'.status = IF raised = "" THEN "completed" ELSE raised
      <3>1. events \in Told
        BY <1>2 DEF TypeOK
      <3>2. QED
        BY <2>1, <3>1 DEF Told
    <2>3. FlowOf(graph, events.log)[1][Go(graph.start)].how # "wrong"
      BY <1>2 DEF FollowsGraph
    <2>4. \/ FlowOf(graph, events.log)[1][Go(graph.start)] = On(Len(events.log) + 1)
          \/ events.log # <<>> /\ graph.kind[events.log[Len(events.log)][1]] = "end"
          \/ events'.status # "completed"
      <3>1. CASE raised = ""
        BY <2>1, <3>1, AllTheWay DEF OrderInv, Outcome, NothingLeft
      <3>2. CASE raised # ""
        BY <2>2, <3>2 DEF OrderInv, EndIsLast
      <3>3. QED
        BY <3>1, <3>2
    <2>5. QED
      BY <2>1, <2>2, <2>3, <2>4 DEF FollowsGraph
  <1>14. QED
    BY <1>7, <1>8, <1>9, <1>10, <1>11, <1>12, <1>13 DEF Next, Walk

\* The walk, with its stacks, goes where the call tree of its program goes.
THEOREM WalkFollowsGraph == Spec => []FollowsGraph
  <1>1. Init => OrderInv
    <2> SUFFICES ASSUME Init
                 PROVE  OrderInv
      OBVIOUS
    <2>1. Tracks
      BY InitTracks DEF Tracks
    <2>2. EndIsLast
      BY DEF Init, EndIsLast
    <2>3. StillWalks
      BY DEF Init, StillWalks
    <2>4. QED
      BY <2>1, <2>2, <2>3 DEF OrderInv
  <1>2. FlowInv /\ OrderInv => FollowsGraph
    BY OrderFollows
  <1>3. Spec => []OrderInv
    BY <1>1, FlowInvHolds, OrderStep, PTL DEF Spec
  <1>4. QED
    BY <1>2, <1>3, FlowInvHolds, PTL
=============================================================================
