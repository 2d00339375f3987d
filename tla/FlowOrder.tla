------------------------------ MODULE FlowOrder ------------------------------
(***************************************************************************)
(* The order a program's nodes run in, as a call tree: the flow from a node *)
(* is the node and then the flow from what it leads to, a branch, a body or *)
(* a function whole before what comes after it.  It reads a log of events   *)
(* and says where the flow would go on, or that it would not go there.      *)
(*                                                                         *)
(* What is read at an event rests on what is read at later ones: `later` is *)
(* the table of those, by position and part.                               *)
(***************************************************************************)
EXTENDS Flow

On(i) == [how |-> "on", at |-> i]
Back(i) == [how |-> "back", at |-> i]
Cut == [how |-> "cut", at |-> 0]
Wrong == [how |-> "wrong", at |-> 0]

\* What the flow can be asked to take: a node or a wire that leads nowhere,
\* the branches after the first `index`, the laps of a loop.
Go(n) == [step |-> "visit", node |-> n, index |-> 0]
Rest(n, k) == [step |-> "branch", node |-> n, index |-> k]
Laps(n) == [step |-> "lap", node |-> n, index |-> 0]
Part(g) ==
  {p \in [step : {"visit", "branch", "lap"}, node : Node \cup {None}, index : Nat] :
     /\ p.node = None => p.step = "visit"
     /\ p.step = "lap" => g.kind[p.node] = "loop"}

\* The flow from n, read from the i-th event on.
FromNode(g, log, later, n, i) ==
  IF n = None THEN On(i)
  ELSE IF i > Len(log) THEN Cut
  ELSE IF log[i] # <<n, 0>> THEN Wrong
  ELSE CASE g.kind[n] \in {"plain", "agent", "ask"} -> later[i + 1][Go(g.next[n][1])]
         [] g.kind[n] = "decision" ->
              IF i + 1 > Len(log) THEN Cut
              ELSE IF log[i + 1] \in {<<n, 1>>, <<n, 2>>}
              THEN later[i + 2][Go(g.next[n][log[i + 1][2]])] ELSE Wrong
         [] g.kind[n] = "sequence" -> later[i + 1][Rest(n, 0)]
         [] g.kind[n] = "loop" -> later[i + 1][Laps(n)]
         [] g.kind[n] = "call" ->
              LET body == later[i + 1][Go(g.into[n])]
              IN IF body.how \in {"on", "back"} THEN later[body.at][Go(g.next[n][1])] ELSE body
         [] g.kind[n] = "return" -> Back(i + 1)
         [] g.kind[n] = "end" -> IF i = Len(log) THEN Cut ELSE Wrong

\* The branches of n after the k-th: the first one wired, then the others.
WiredAfter(g, n, k) == {m \in k + 1..Len(g.next[n]) : g.next[n][m] # None}
First(S) == CHOOSE m \in S : \A o \in S : m <= o
FromBranch(g, log, later, n, k, i) ==
  IF WiredAfter(g, n, k) = {} THEN On(i)
  ELSE LET first == First(WiredAfter(g, n, k))
           branch == FromNode(g, log, later, g.next[n][first], i)
       IN IF branch.how = "on" THEN later[branch.at][Rest(n, first)] ELSE branch

\* The head of the loop n, before its next lap or what comes after it.
FromHead(g, log, later, n, i) ==
  IF i > Len(log) THEN Cut
  ELSE IF log[i] = <<n, 1>> THEN
    LET lap == later[i + 1][Go(g.next[n][1])]
    IN IF lap.how = "on" THEN later[lap.at][Laps(n)] ELSE lap
  ELSE IF log[i] = <<n, 2>> THEN later[i + 1][Go(g.next[n][2])]
  ELSE Wrong

FromPart(g, log, later, i) ==
  [p \in Part(g) |->
     CASE p.step = "visit" -> FromNode(g, log, later, p.node, i)
       [] p.step = "branch" -> FromBranch(g, log, later, p.node, p.index, i)
       [] p.step = "lap" -> FromHead(g, log, later, p.node, i)]

\* Where each part leads from each event of the log.
FlowOf(g, log) ==
  LET read[i \in 1..Len(log) + 1] == FromPart(g, log, read, i) IN read

\* The walk with its stacks goes where the call tree goes: never out of order,
\* and through all of it when nothing cut it short.
FollowsGraph ==
  LET log == events.log
      flow == FlowOf(graph, log)[1][Go(graph.start)]
      ended == log # <<>> /\ graph.kind[log[Len(log)][1]] = "end"
  IN /\ flow.how # "wrong"
     /\ events.status = "completed" /\ ~ended => flow = On(Len(log) + 1)
=============================================================================
