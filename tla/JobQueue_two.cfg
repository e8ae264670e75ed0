SPECIFICATION Spec
CONSTANTS
  Jobs = {j1, j2}
  Processes = {w1, w2}
  Owners = {w1, w2}
  NoOwner = NoOwner
  Owner <- OwnersDistinct
  MaxAttempts = 2
  LeaseDuration = 1
  RetryUnit = 1
  MaxRetryDelay = 3
  Horizon = 0
  MaxCrashes = 1
  MaxClaims = 3
SYMMETRY SymmetryOfNames
INVARIANT TypeOK
INVARIANT LeaseFencing
PROPERTY FinishedRowsFinal
CHECK_DEADLOCK FALSE
