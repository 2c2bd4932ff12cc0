SPECIFICATION FairSpec
CONSTANTS
  a1 = a1
  s1 = s1
  None = None
  Async = {a1}
  Sync = {s1}
  NoTimeout = {}
  Numbering = "client"
  UserSeq <- DistinctSeq
  HookPublishes = TRUE
  ReallocFails = FALSE
  BlockOff = FALSE
  QueueSize = 1
PROPERTIES
  SentIsSettled
  CallsReturn
  AwaiterFreed
CHECK_DEADLOCK FALSE
