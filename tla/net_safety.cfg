CONSTANTS
  Peers = {n1, n2, n3}
  MinLatency = 0
  MaxLatency = 2
  Loses = {TRUE, FALSE}
  Duplicates = {TRUE, FALSE}
  MaxSends = 2
  MaxCuts = 1
  MaxNow = 3
SPECIFICATION Spec
INVARIANTS
  TypeOK
  Accounting
  CopyAfterOriginal
  LatencyAsDrawn
  OvertakenOnlyByFaster
PROPERTIES
  InFlightArrives
