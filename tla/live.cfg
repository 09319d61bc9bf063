CONSTANTS
  Worlds <- MCWorlds
  DepositValue = 3
  Claims = {1, 4}
  BridgeFunds = 2
  MaxFailures = 2
  Bidders = {ann, bob}
SPECIFICATION Spec
CHECK_DEADLOCK FALSE
INVARIANTS
  TypeOK
  ExitTellsTruth
  ExitZeroMeansHealthy
  BridgeAlarmMeansClaim
  WithdrawalAlarmNeedsIncome
  AuctionAlarmsExplained
  MonopolyIsReal
PROPERTIES
  RunEnds
