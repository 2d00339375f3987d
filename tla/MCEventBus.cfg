SPECIFICATION FairSpec
CONSTANTS
  Task = {t1, t2}
  Subscriber = {s1, s2}
  None = None
  MaxNested = 1
  MaxEmits = 3
INVARIANTS TypeOK NothingLeftBehind NothingVanishes
PROPERTIES OrdinaryInOrder EmitCompletes
