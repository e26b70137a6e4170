SPECIFICATION Spec
CONSTANTS
  None = None
  IdA = IdA
  IdB = IdB
  ToolIds = {IdA, IdB}
  FinishUsage = {"absent", "null", "real"}
  Routes <- MCConverted
  Frames <- MCFrames
  Bodies <- MCBodies
  MaxFrames <- MCShort
INVARIANT UsageTold
CHECK_DEADLOCK FALSE
