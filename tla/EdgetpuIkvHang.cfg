SPECIFICATION FairSpec
CONSTANTS
  d1 = d1
  f1 = f1
  None = None
  Async = {d1, f1}
  NoTimeout = {}
  Fenced = {f1}
  Credits = 2
  Crashes = TRUE
PROPERTY AcceptedIsAnswered
CHECK_DEADLOCK FALSE
