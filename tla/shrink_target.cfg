CONSTANTS
  Faults = {0, 1, 2}
  Kinds = {poster, validator}
SPECIFICATION Spec
INVARIANTS
  ReproducesTarget
