SPECIFICATION Spec
CONSTANTS
  Conv = {c1}
  Turn = {t1, t2, t3}
  None = None
  DailyLimit = 1
  CostCap = 1
  TurnCost = 2
  Overlap = FALSE
  WriteFaults = TRUE
  ReadFaults = FALSE
  Restarts = TRUE
  ServerAhead = FALSE
  MaxDay = 1
SYMMETRY TurnSymmetry
INVARIANTS
  PromptExact
  LimitsHold
  OneProjection
PROPERTIES
  GateStaysOpen
  StoredLogGrows
CHECK_DEADLOCK FALSE
