SPECIFICATION Spec
CONSTANTS
  Server = {s1}
  Caller = {a1, a2}
  Task = {t1, t2, t3}
  Conn = {c1, c2, c3}
  None = None
  Retries = 2
  Attempts = 2
  OneAtATime = FALSE
INVARIANT CloseStops

CHECK_DEADLOCK FALSE
