SPECIFICATION FairSpec
CONSTANTS
  a = a
  b = b
  c = c
  SSIDs = {a, b, c}
  None = None
  MaxNetworks = 2
  MaxAttempts = 2
  QueueDepth = 1
  UserCommands <- FewCommands
  Surroundings <- FewPlaces
INVARIANT WifiTypeOK
PROPERTIES UplinkSpec NeverStranded TriesInOrder Reconnects
