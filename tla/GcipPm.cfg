SPECIFICATION FairSpec
CONSTANTS
  MaxCount = 3
  MaxRetry = 1
INVARIANTS
  TypeOK
  RefsAccounted
  PoweredWhileHeld
  RetryNotLost
  SuspendNeedsConsent
PROPERTY AsyncPutServed
CHECK_DEADLOCK FALSE
