SPECIFICATION Spec
CONSTANTS
  Conv = {c1}
  Turn = {t1, t2}
  NoId = NoId
  None = None
  Intent <- MCIntent
  Capability <- MCCapability
  Binding <- MCBinding
  CommitIntent <- MCCommitIntent
  ChainIntent <- MCChainIntent
  EscalatingIntent <- MCEscalatingIntent
  HandoffIntent = "derivar_asesor"
  HookHasPool = TRUE
  Overlap = TRUE
  Faults = FALSE
SYMMETRY TurnSymmetry
CHECK_DEADLOCK FALSE
PROPERTY CapabilitiesAccumulate
