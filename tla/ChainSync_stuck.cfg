SPECIFICATION FairSpec
CONSTANTS
  n1 = n1
  n2 = n2
  s1 = s1
  Genesis <- MCGenesis
  Chains <- PeerAboveFork
  Reward = 5
  NumberOfHashesInBucket = 1
  CurrentHeightOfNetwork = 2
  NonceHandlers = {n1, n2}
  SyncHandlers = {s1}
  Scenarios <- DeepFork
  MaxHeight = 4
  MaxInbox = 2
PROPERTIES
  CatchesUp
CHECK_DEADLOCK FALSE
