SPECIFICATION Spec
CONSTANTS
  Conv = {c1, c2}
  Turn = {t1, t2}
  NoId = NoId
  None = None
  Intent <- MCIntent
  Capability <- MCCapability
  Binding <- MCBinding
  CommitIntent <- MCCommitIntent
  ChainIntent <- MCChainIntent
  EscalatingIntent <- MCEscalatingIntent
  HandoffIntent = "derivar_asesor"
  HookHasPool = TRUE
  Overlap = TRUE
  Faults = TRUE
SYMMETRY TurnSymmetry
CHECK_DEADLOCK FALSE
INVARIANTS
  TypeOK VerdictIffClosed VerdictJournalled CapabilitiesJournalled DorisNeverAhead RegisteredIsJournalled
PROPERTY FirstCloseWins
