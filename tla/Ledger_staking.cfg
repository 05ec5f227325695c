SPECIFICATION Spec
CONSTANTS
  op = op
  a = a
  b = b
  c = c
  dex = dex
  Users = {op, a, b}
  DexAccount = dex
  DelegatedAddresses = {1, 257, 514}
  Txs <- TxsStaking
  GenesisBalance <- MCGenesisBalance
  GenesisStaking <- MCGenesisStaking
  GenesisDelay <- MCGenesisDelay
  GenesisMultiSign <- MCGenesisMultiSign
  MisreadBalances <- MCMisread
  RewardPercentages = {300, 600}
  DexAmounts = {0}
  MinStakingUser = 2
  MinStakingForNode = 4
  MaxTransactionDelay = 3
  MaxTransactionInMultiSigPool = 2
  MaxTotalSupply = 20
  RewardDivisor = 2
  MaxHeight = 2
  MaxBlockTxs = 2
INVARIANTS
  SupplyAccounted
  StoredAddsUp
  SupplyBounded
