\* Three slots and one wide batch: calls admitted before the circuit opened
\* are still running when its probe is.
SPECIFICATION Spec
CONSTANTS
  explorer = explorer
  coder = coder
  Profile = {explorer, coder}
  Unknown = Unknown
  Batches <- WideBatch
  MaxConcurrent = 3
  MaxPerTurn = 7
  MaxAttempts = 1
  FailureThreshold = 1
  ResetTimeout = 1
INVARIANT SingleProbe
