CONSTANTS
  MaxTx = 0
  MaxL3Tx = 0
  Swing <- MCSwingNone
  GasFloor <- MCGasFloor
  InitGas = 3
  InitBalance <- MCBalance
  TxCost = 1
  StakeCost = 1
  Posts = {FALSE}
  Asserts = {FALSE}
  Values = {1, 2}
  Latency <- MCLatency
  CanRetry <- MCRetry
  RedeemDelay = 1
  MaxSent = 2
  Crashable = {1, 4}
  PartitionPairs = {}
  MinRestart = 1
  MaxRestart = 2
  MinHeal = 1
  MaxHeal = 2
  MaxFaults = 2
  Masks = {NoMask}
  NoMask = NoMask
  L1Grace = 1
  SeqGrace = 2
  PosterGrace = 99
  ValidatorGrace = 99
  L3Grace = 2
  StuckGrace = 99
  StuckAge = 1
  StuckLimit = 1
  MaxTicks = 6
SPECIFICATION Spec
INVARIANTS
  RedeemDeadline
  Conservation
  NoInflation
PROPERTIES
  LedgerSpec
