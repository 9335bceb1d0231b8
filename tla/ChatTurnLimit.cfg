SPECIFICATION Spec
CONSTANTS
  Conv = {c1}
  Turn = {t1, t2}
  None = None
  DailyLimit = 1
  CostCap = 1
  TurnCost = 0
  Overlap = TRUE
  WriteFaults = FALSE
  ReadFaults = FALSE
  Restarts = FALSE
  ServerAhead = FALSE
  MaxDay = 0
SYMMETRY TurnSymmetry
INVARIANTS
  LimitsHold
CHECK_DEADLOCK FALSE
