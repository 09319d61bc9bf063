CONSTANTS
  Containers = {sequencer, poster}
  Durations = {1, 2}
  MaxFaults = 4
  MaxFailures = 1
SPECIFICATION Spec
CHECK_DEADLOCK FALSE
INVARIANTS
  TypeOK
  PausedIsHeld
  EarlyOnlyIfRestarted
PROPERTIES
  PausedResumes
