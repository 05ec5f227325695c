SPECIFICATION Spec
CONSTANTS
  n1 = n1
  n2 = n2
  s1 = s1
  Genesis <- MCGenesis
  Chains <- MCChains
  Reward = 5
  NumberOfHashesInBucket = 1
  CurrentHeightOfNetwork = 2
  NonceHandlers = {n1, n2}
  SyncHandlers = {s1}
  Scenarios <- Racing
  MaxHeight = 3
  MaxInbox = 2
INVARIANTS
  LinkedInRaces
CHECK_DEADLOCK FALSE
