SPECIFICATION FairSpec
CONSTANTS
  Servers = {"s1", "s2"}
  Buffer = 1
  MaxChanges = 2
  MaxMoves = 1
  MaxDrops = 1
INVARIANT ServersTypeOK
INVARIANT StaleOnlyByLossOrOvertaking
INVARIANT OwnChangeShown
PROPERTY ButtonsReturn
CHECK_DEADLOCK FALSE
