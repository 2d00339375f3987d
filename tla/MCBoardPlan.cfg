\* A planner at work between two Plays, a run over it and a crash; the run ends
\* when its agents do, and once it is stopped also when they end only then.
SPECIFICATION StopSpec
CONSTANTS
  t1 = t1
  t2 = t2
  s1 = s1
  s2 = s2
  Task = {t1, t2}
  Sub = {s1}
  DependsOn <- Chain
  SubDependsOn <- Alone
  InitialBoard <- WithDraft
  MaxParallel = 1
  FixRounds = 1
  Job = {"j1"}
  MaxPlays = 2
  MaxEdits = 1
  MaxCrashes = 1
INVARIANT
  BusyIsHeld
PROPERTIES
  DoneIsChecked
  StopEnds
  RunEnds
CHECK_DEADLOCK FALSE
