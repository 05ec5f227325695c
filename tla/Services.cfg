SPECIFICATION MCSpec
CONSTANTS
  Default <- MCDefault
  Ids <- MCIds
  Me = 1
  Staked <- MCStaked
  VotingHeightDistance = 1
  Ballots <- MCBallots
  Headers <- MCHeaders
  MaxHeight = 2
INVARIANTS
  
  
  
  TreesMatchChain
  RootDeterminesTransactions
  WalletsResolve
  KeysOnDisk
  PeersAgree
  StreamPreserved
  HeapOrdered
PROPERTY
  ImplementsPool
CHECK_DEADLOCK FALSE
