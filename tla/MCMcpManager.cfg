SPECIFICATION FairSpec
CONSTANTS
  Server = {s1}
  Caller = {a1, a2}
  Task = {t1, t2}
  Conn = {c1, c2}
  None = None
  Retries = 2
  Attempts = 2
  OneAtATime = TRUE
INVARIANTS TypeOK OneConnection StoppedIsClean OnlyAllowed
PROPERTY CloseReturns

CHECK_DEADLOCK FALSE
