SPECIFICATION FairSpec
CONSTANTS
  Jobs = {j1, j2}
  Processes = {w1}
  Owners = {w1}
  NoOwner = NoOwner
  Owner <- OwnersDistinct
  MaxAttempts = 2
  LeaseDuration = 2
  RetryUnit = 1
  MaxRetryDelay = 3
  Horizon = 1
  MaxCrashes = 1
  MaxClaims = 4
INVARIANT AttemptsBounded
PROPERTY EveryJobFinishes
CHECK_DEADLOCK FALSE
