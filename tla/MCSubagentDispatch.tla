------------------------- MODULE MCSubagentDispatch -------------------------
(* Small instances of SubagentDispatch.                                    *)
EXTENDS SubagentDispatch

CONSTANTS explorer, coder

\* Every batch of up to three requests, and one that exceeds MaxPerTurn = 3.
AllBatches ==
  UNION {[1..n -> Profile \cup {Unknown}] : n \in 1..3}
    \cup {<<explorer, explorer, coder, coder>>}

\* One wide batch: two profiles, more requests than slots.
WideBatch == {<<explorer, explorer, coder, coder, explorer, coder, explorer>>}
=============================================================================
