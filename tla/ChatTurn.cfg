SPECIFICATION Spec
CONSTANTS
  Conv = {c1, c2}
  Turn = {t1, t2, t3}
  None = None
  DailyLimit = 1
  CostCap = 1
  TurnCost = 0
  Overlap = TRUE
  WriteFaults = FALSE
  ReadFaults = TRUE
  Restarts = TRUE
  ServerAhead = FALSE
  MaxDay = 0
SYMMETRY Symmetry
INVARIANTS
  TypeOK
  HistoriesCoherent
  GateNeedsProof
CHECK_DEADLOCK FALSE
