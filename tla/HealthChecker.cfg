SPECIFICATION FairSpec
CONSTANTS
  Main = main
  Handler = {h1, h2}
  Latch = 1
  MaxSaves = 2
INVARIANTS
  OneLoop
  QuietOnceDisabled
  FreshInterval
PROPERTIES
  SettingTakesEffect
  DisableReturns
  DueKeyIsProbed
