SPECIFICATION FairSpec
CONSTANTS
  c1 = c1
  c2 = c2
  None = None
  Clients = {c1}
  Signaled = {c1, "loader"}
INVARIANTS
  TypeOK
  OneRunner
  HolderPowered
  Watched
PROPERTIES
  HungIsRestarted
  TransitionsEnd
CHECK_DEADLOCK FALSE
