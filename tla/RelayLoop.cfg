SPECIFICATION FairSpec
CONSTANTS
  NoKey = NoKey
  NoRoute = NoRoute
  A = A
  B = B
  C = C
  k1 = k1
  k2 = k2
  r1 = r1
  r2 = r2
  Request = {r1}
  Route <- SoloRoutes
  Key <- SoloKeys
  KeysOf <- SoloKeysOf
  Priority <- SoloPriority
  Rank <- SoloRank
  Strategy <- SoloStrategy
  Converting <- SoloConverting
  Limit <- SoloLimit
  EmptyEnabled = TRUE
  EmptyThreshold = 0
  RetrySetting <- Settings
  DefaultRetries = 1
  MaxRetries = 1
  Kind = {"chat", "stream", "embed"}
  Reply <- AllReplies
INVARIANTS NoRepeat AttemptsPaid TerminalTellsLast
PROPERTIES SelectionFindsBest  EveryRequestEnds
