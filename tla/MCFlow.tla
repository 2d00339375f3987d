------------------------------- MODULE MCFlow -------------------------------
EXTENDS FlowOrder, TLC

Nodes == {"start", "seq", "loop", "work", "call", "if", "back", "ask", "last", "entry", "into"}

Of(default, given) == given @@ [n \in Nodes |-> default]
Kinds(given) == Of("plain", [seq |-> "sequence", loop |-> "loop", call |-> "call",
                             if |-> "decision", back |-> "return", work |-> "agent"] @@ given)

\* A sequence of a loop around a call, a question and End; the function
\* returns at once or falls through an agent.
Pipeline ==
  [start |-> "start",
   kind |-> Kinds([ask |-> "ask", last |-> "end"]), mode |-> Of("bool", <<>>),
   next |-> Of(<<None>>, [start |-> <<"seq">>, seq |-> <<"loop", "ask", "last">>,
                          loop |-> <<"call", None>>, entry |-> <<"if">>,
                          if |-> <<"back", "work">>]),
   into |-> Of("start", [call |-> "entry"])]

\* Wires that come back: a body that runs into its own loop, a decision that
\* starts over; the Return leaves a loop and a sequence inside the function.
Cycle ==
  [start |-> "start",
   kind |-> Kinds([ask |-> "agent", last |-> "call"]), mode |-> Of("judge", <<>>),
   next |-> Of(<<None>>, [start |-> <<"call">>, call |-> <<"if">>, if |-> <<"call", "last">>,
                          entry |-> <<"seq">>, seq |-> <<"loop", "back">>,
                          loop |-> <<"work", "back">>, work |-> <<"loop">>]),
   into |-> Of("start", [call |-> "entry", last |-> "entry"])]

\* A function that calls another in every lap, and goes on after its Return.
Nested ==
  [start |-> "start",
   kind |-> Kinds([ask |-> "call", last |-> "ask"]), mode |-> Of("judge", <<>>),
   next |-> Of(<<None>>, [start |-> <<"call">>, call |-> <<"last">>, entry |-> <<"loop">>,
                          loop |-> <<"ask", None>>, ask |-> <<"work">>, into |-> <<"seq">>,
                          seq |-> <<"if", "work">>, if |-> <<"back", None>>]),
   into |-> Of("start", [call |-> "entry", ask |-> "into"])]

Graphs == {Pipeline, Cycle, Nested}
=============================================================================
