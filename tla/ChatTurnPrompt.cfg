SPECIFICATION Spec
CONSTANTS
  Conv = {c1}
  Turn = {t1, t2}
  None = None
  DailyLimit = 2
  CostCap = 1
  TurnCost = 0
  Overlap = TRUE
  WriteFaults = FALSE
  ReadFaults = FALSE
  Restarts = FALSE
  ServerAhead = FALSE
  MaxDay = 0
SYMMETRY TurnSymmetry
INVARIANTS
  PromptExact
CHECK_DEADLOCK FALSE
