SPECIFICATION Spec
CONSTANTS
  Amounts = {1, 2}
  MinStakingUser = 2
  MaxHeight = 4
  MaxStaked = 6
  MaxRewards = 2
  MaxLocks = 3
INVARIANT
  LockedIsStaked
