SPECIFICATION Spec
CONSTANTS
  op = op
  a = a
  b = b
  c = c
  dex = dex
  Users = {op, a, b}
  DexAccount = dex
  DelegatedAddresses = {1}
  Txs <- TxsEscrow
  GenesisBalance <- MCGenesisBalance
  GenesisStaking <- MCGenesisStaking
  GenesisDelay <- MCGenesisDelay
  GenesisMultiSign <- MCGenesisMultiSign
  MisreadBalances <- MCMisread
  RewardPercentages = {300}
  DexAmounts = {0}
  MinStakingUser = 2
  MinStakingForNode = 4
  MaxTransactionDelay = 3
  MaxTransactionInMultiSigPool = 2
  MaxTotalSupply = 40
  RewardDivisor = 5
  MaxHeight = 4
  MaxBlockTxs = 1
INVARIANTS
  OnceInChain
  BannedStaysOut
PROPERTY
  ExecutedWithConfirmations
