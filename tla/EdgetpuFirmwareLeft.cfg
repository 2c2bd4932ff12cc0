SPECIFICATION Spec
CONSTANTS
  c1 = c1
  c2 = c2
  None = None
  Clients = {c1}
  Signaled = {"loader"}
INVARIANT LeftIsLoaded
CHECK_DEADLOCK FALSE
