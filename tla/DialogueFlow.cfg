SPECIFICATION Spec
CONSTANTS
  Field <- MCField
  Sentence <- MCSentence
  Asks <- MCAsks
  Intent <- MCIntent
  Told = {}
  Script <- MCScript
  FreeReply <- MCFreeReply
  Tool <- MCTool
  None = None
  MaxFlowTurns = 2
  MaxRetries = 2
INVARIANTS
  TypeOK
  WaitsForLastQuestion
  OneQuestionAtATime
  AccountDataNeedsIdentity
  FlowReleased
PROPERTY WishAnswered
