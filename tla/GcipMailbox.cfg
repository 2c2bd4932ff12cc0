SPECIFICATION Spec
CONSTANTS
  a1 = a1
  s1 = s1
  None = None
  Async = {a1}
  Sync = {s1}
  NoTimeout = {}
  Numbering = "kci"
  UserSeq <- DistinctSeq
  HookPublishes = TRUE
  ReallocFails = TRUE
  BlockOff = TRUE
  QueueSize = 2
INVARIANTS
  TypeOK
  KrefExact
  NoUseAfterFree
  OwnResponse
  ListedIsTimed
PROPERTIES
  OneCallback
  ImplementsAwaiter
CHECK_DEADLOCK FALSE
