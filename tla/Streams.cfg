SPECIFICATION Spec
CONSTANTS
  None = None
  IdA = IdA
  IdB = IdB
  ToolIds = {IdA, IdB}
  FinishUsage = {"absent", "real"}
  Routes <- MCRoutes
  Frames <- MCFrames
  Bodies <- MCBodies
  MaxFrames <- MCMaxFrames
INVARIANTS MessagesOrderKept ResponsesOrderKept NothingLost EndsOnce UsageTold EmptyIsEmpty
CHECK_DEADLOCK FALSE
