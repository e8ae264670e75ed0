SPECIFICATION FairSpec
CONSTANTS
  Tabs = {a, b}
  Slots = {1, 2}
  MaxCalls = 2
  MaxLogins = 2
  MaxReloads = 1
INVARIANT SessionTypeOK
INVARIANT TokenOnlyWhenAuthenticated
PROPERTY LogoutEndsSession
PROPERTY SetupSucceedsOnce
PROPERTY WaitsEnd
CHECK_DEADLOCK FALSE
