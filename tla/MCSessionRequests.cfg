\* A request is sent with calls that nobody answered.
SPECIFICATION Spec
CONSTANTS
  MaxMessages = 2
  Batches <- OneBatch
  MaxSteps = 1
  MaxFailures = 0
  RecentKept = 8
  MaxStops = 1
INVARIANT RequestsComplete
CHECK_DEADLOCK FALSE
