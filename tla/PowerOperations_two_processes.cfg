SPECIFICATION PowerSpec
CONSTANTS
  Jobs = {o1}
  Processes = {w1, w2}
  Owners = {"worker"}
  NoOwner = NoOwner
  Owner <- DefaultOwner
  MaxAttempts = 2
  LeaseDuration = 1
  RetryUnit = 0
  MaxRetryDelay = 0
  Horizon = 0
  MaxCrashes = 0
  MaxClaims = 2
  Servers = {s1}
  Clients = {c1}
  Home <- OneHome
  Keys = {k1}
  Actions = {"stop", "reboot"}
  RemoteStates <- StatesExplored
  NoValue = NoValue
  VerifyTimeout = 0
  MaxFaults = 1
  MaxDepartures = 0
INVARIANT AcceptedIsQueued
INVARIANT WritesOncePerAttempt
VIEW WritesView
SYMMETRY SymmetryOfData
CHECK_DEADLOCK FALSE
