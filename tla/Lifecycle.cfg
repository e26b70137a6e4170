SPECIFICATION FairSpec
CONSTANTS
  Processes = 2
  Relay = {r1, r2}
  Stream = {s1}
  k1 = k1
  Key = {k1}
  KeyOf <- MCKeyOf
  FirstKeys = {}
  Nobody = Nobody
  Together = FALSE
INVARIANTS FileWhole SavedStays ExitKeepsAll
PROPERTIES ShutdownEnds RestartReturns
CHECK_DEADLOCK FALSE
