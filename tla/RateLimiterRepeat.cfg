SPECIFICATION Spec
CONSTANTS
  Dni = {d1, d2, d3}
  Config <- MCConfig
  Second = 2
  Minute = 2
  Hour = 4
  Block = 2
  MaxTime = 5
  MaxRequests = 4
SYMMETRY DniSymmetry
INVARIANTS
  RepeatNeverRefused
CHECK_DEADLOCK FALSE
