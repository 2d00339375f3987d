\* A run over two tasks, two slots, two edits, a crash, two Plays; no planner.
SPECIFICATION Spec
CONSTANTS
  t1 = t1
  t2 = t2
  s1 = s1
  s2 = s2
  Task = {t1, t2}
  Sub = {s1, s2}
  DependsOn <- Chain
  SubDependsOn <- SubChain
  InitialBoard <- Boards
  MaxParallel = 2
  FixRounds = 1
  Job = {}
  MaxPlays = 2
  MaxEdits = 2
  MaxCrashes = 1
INVARIANTS
  TypeOK
  SlotsBalanced
  DependenciesFirst
PROPERTIES
  DoneIsComplete
  StopFreezesDone
  HeldNotEdited
  KeepsTaskLife
CHECK_DEADLOCK FALSE
