SPECIFICATION PowerSpec
CONSTANTS
  Jobs = {o1, o2}
  Processes = {w1}
  Owners = {"worker"}
  NoOwner = NoOwner
  Owner <- DefaultOwner
  MaxAttempts = 1
  LeaseDuration = 1
  RetryUnit = 0
  MaxRetryDelay = 0
  Horizon = 0
  MaxCrashes = 0
  MaxClaims = 3
  Servers = {s1}
  Clients = {c1, c2}
  Home <- OneHome
  Keys = {k1, k2}
  Actions = {"start"}
  RemoteStates <- StatesExplored
  NoValue = NoValue
  VerifyTimeout = 0
  MaxFaults = 0
  MaxDepartures = 1
INVARIANT PowerTypeOK
INVARIANT KeysIdentifyOperations
PROPERTY ImplementsLifecycle
VIEW StateView
SYMMETRY SymmetryOfData
CHECK_DEADLOCK FALSE
