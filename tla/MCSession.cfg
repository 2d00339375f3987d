\* Two messages, turns of two steps, one failure retried, one stop.
SPECIFICATION Spec
CONSTANTS
  MaxMessages = 2
  Batches <- SomeBatches
  MaxSteps = 2
  MaxFailures = 1
  RecentKept = 3
  MaxStops = 1
INVARIANTS
  TypeOK
  EachOnce
  ResultsFollowCalls
  RoundsClosed
PROPERTIES
  StopEndsTurn
  Heard
CHECK_DEADLOCK FALSE
