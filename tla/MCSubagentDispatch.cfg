\* Two profiles, two slots, batches of up to four requests, of which three run.
SPECIFICATION FairSpec
CONSTANTS
  explorer = explorer
  coder = coder
  Profile = {explorer, coder}
  Unknown = Unknown
  Batches <- AllBatches
  MaxConcurrent = 2
  MaxPerTurn = 3
  MaxAttempts = 2
  FailureThreshold = 2
  ResetTimeout = 1
INVARIANTS
  TypeOK
  SlotsBalanced
  HalfOpenIsProbed
  TripsAtThreshold
PROPERTIES
  DispatchReturns
  ProbeResolves
