SPECIFICATION FairSpec
CONSTANTS
  InPage = {"a"}
  InWindow = {"b"}
  MaxCrashes = 1
INVARIANT ConsoleTypeOK
INVARIANT RunningStaysActive
INVARIANT HandoverReachesPopup
PROPERTY RestartEndsTickets
PROPERTY AttemptEnds
PROPERTY ProxiedSessionCloses
CHECK_DEADLOCK FALSE
