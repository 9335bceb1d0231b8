SPECIFICATION FairSpec
CONSTANTS
  Conv = {c1}
  Turn = {t1, t2, t3}
  NoId = NoId
  None = None
  Intent <- MCIntent
  Capability <- MCCapability
  Binding <- MCBinding
  CommitIntent <- MCCommitIntent
  ChainIntent <- MCChainIntent
  EscalatingIntent <- MCEscalatingIntent
  HandoffIntent = "derivar_asesor"
  HookHasPool = TRUE
  Overlap = FALSE
  Faults = FALSE
CHECK_DEADLOCK FALSE
INVARIANT JournalReplays
PROPERTY EveryConversationCloses
