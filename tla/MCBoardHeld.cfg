\* A planner that begins between Play and the run lets an edit through.
SPECIFICATION Spec
CONSTANTS
  t1 = t1
  t2 = t2
  s1 = s1
  s2 = s2
  Task = {t1}
  Sub = {s1}
  DependsOn <- NoChain
  SubDependsOn <- Alone
  InitialBoard <- OneSub
  MaxParallel = 1
  FixRounds = 1
  Job = {"j1"}
  MaxPlays = 2
  MaxEdits = 1
  MaxCrashes = 0
PROPERTY HeldNotEdited
CHECK_DEADLOCK FALSE
