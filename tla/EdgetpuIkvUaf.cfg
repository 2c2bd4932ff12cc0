SPECIFICATION Spec
CONSTANTS
  d1 = d1
  f1 = f1
  None = None
  Async = {d1, f1}
  NoTimeout = {}
  Fenced = {f1}
  Credits = 2
  Crashes = TRUE
INVARIANT FenceThreadSafe
CHECK_DEADLOCK FALSE
