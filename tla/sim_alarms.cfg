CONSTANTS
  MaxTx = 1
  MaxL3Tx = 0
  Swing <- MCSwing
  GasFloor <- MCGasFloor
  InitGas = 2
  InitBalance <- MCBalance
  TxCost = 1
  StakeCost = 1
  Posts = {TRUE, FALSE}
  Asserts = {TRUE, FALSE}
  Values = {1}
  Latency <- MCLatencyNone
  CanRetry <- MCRetry
  RedeemDelay = 1
  MaxSent = 0
  Crashable = {1, 2, 3, 4}
  PartitionPairs = {}
  MinRestart = 1
  MaxRestart = 2
  MinHeal = 1
  MaxHeal = 2
  MaxFaults = 1
  Masks = {NoMask}
  NoMask = NoMask
  L1Grace = 0
  SeqGrace = 0
  PosterGrace = 1
  ValidatorGrace = 1
  L3Grace = 0
  StuckGrace = 99
  StuckAge = 1
  StuckLimit = 1
  MaxTicks = 4
SPECIFICATION Spec
INVARIANTS
  TypeOK
  OnlyPossibleAlarms
  PosterAlarmIsTrue
  ValidatorAlarmFalseOnlyAtStart
