CONSTANTS
  MaxTx = 0
  MaxL3Tx = 0
  Swing <- MCSwingNone
  GasFloor <- MCGasFloor
  InitGas = 3
  InitBalance <- MCBalance
  TxCost = 1
  StakeCost = 1
  Posts = {FALSE}
  Asserts = {TRUE, FALSE}
  Values = {1}
  Latency <- MCLatencyNone
  CanRetry <- MCRetry
  RedeemDelay = 1
  MaxSent = 0
  Crashable = {1, 3}
  PartitionPairs = {}
  MinRestart = 1
  MaxRestart = 2
  MinHeal = 1
  MaxHeal = 2
  MaxFaults = 1
  Masks = {NoMask}
  NoMask = NoMask
  L1Grace = 1
  SeqGrace = 2
  PosterGrace = 99
  ValidatorGrace = 3
  L3Grace = 2
  StuckGrace = 99
  StuckAge = 1
  StuckLimit = 1
  MaxTicks = 5
SPECIFICATION Spec
INVARIANTS
  ValidatorAlarmIsTrue
