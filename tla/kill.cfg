CONSTANTS
  Containers = {"sequencer", "poster", "validator"}
  Attempts = 2
  Slack = 1
  MaxL1 = 4
  MaxL2 = 5
  MaxFailures = 2
SPECIFICATION Spec
CHECK_DEADLOCK FALSE
INVARIANTS
  TypeOK
  CleanUnlessError
  FalseBlameNeedsError
  QuietPassMeansResumed
PROPERTIES
  RunEnds
