SPECIFICATION Spec
CONSTANTS
  Task = {t1}
  Subscriber = {s1, s2}
  None = None
  MaxNested = 1
  MaxEmits = 2
PROPERTY EmissionOrder
