SPECIFICATION Spec
CONSTANTS
  N = 3
  S = 2
  NoWindow = NoWindow
  h1 = h1
  h2 = h2
  Hit = {h1, h2}
  MaxTime = 8
  MaxMove = 3
INVARIANTS CountsYoung ForgetsOld
SYMMETRY Symmetry
CHECK_DEADLOCK FALSE
