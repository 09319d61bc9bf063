CONSTANTS
  Containers = {sequencer, poster}
  Durations = {1, 2}
  MaxFaults = 3
  MaxFailures = 1
SPECIFICATION Spec
CHECK_DEADLOCK FALSE
PROPERTIES
  PartitionEnds
