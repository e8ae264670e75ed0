SPECIFICATION PowerSpec
CONSTANTS
  Jobs = {o1}
  Processes = {w1}
  Owners = {"worker"}
  NoOwner = NoOwner
  Owner <- DefaultOwner
  MaxAttempts = 2
  LeaseDuration = 1
  RetryUnit = 0
  MaxRetryDelay = 0
  Horizon = 0
  MaxCrashes = 0
  MaxClaims = 3
  Servers = {s1}
  Clients = {c1}
  Home <- OneHome
  Keys = {k1}
  Actions = {"start"}
  RemoteStates <- StatesExplored
  NoValue = NoValue
  VerifyTimeout = 0
  MaxFaults = 0
  MaxDepartures = 1
INVARIANT QueuedAwaitsWorker
VIEW StateView
SYMMETRY SymmetryOfData
CHECK_DEADLOCK FALSE
