SPECIFICATION FairSpec
CONSTANTS
  d1 = d1
  f1 = f1
  None = None
  Async = {d1, f1}
  NoTimeout = {}
  Fenced = {f1}
  Credits = 2
  Crashes = TRUE
INVARIANTS
  TypeOK
  CreditsConserved
  NoUseAfterFree
  TrackedTaskAlive
  DisbandedIsEmpty
PROPERTIES
  CanceledStays
  AnsweredUnlessMissed
  DisbandReturns
CHECK_DEADLOCK FALSE
