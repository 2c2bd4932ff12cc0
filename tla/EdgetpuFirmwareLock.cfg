SPECIFICATION Spec
CONSTANTS
  c1 = c1
  c2 = c2
  None = None
  Clients = {c1}
  Signaled = {}
INVARIANT NoLockCycle
CHECK_DEADLOCK FALSE
