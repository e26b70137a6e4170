SPECIFICATION Spec
CONSTANTS
  Clients <- AllClients
  Prompts <- MCPrompts
  Outputs <- MCOutputs
  Answers <- MCAnswers
  MaxTurns = 5
INVARIANTS
  UpstreamAccepts
  NothingLost
CHECK_DEADLOCK FALSE
