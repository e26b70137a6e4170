SPECIFICATION Spec
CONSTANTS
  NoKey = NoKey
  NoRoute = NoRoute
  A = A
  B = B
  C = C
  k1 = k1
  k2 = k2
  r1 = r1
  r2 = r2
  Request = {r1, r2}
  Route <- PairRoutes
  Key <- PairKeys
  KeysOf <- PairKeysOf
  Priority <- PairPriority
  Rank <- PairRank
  Strategy <- PairStrategy
  Converting <- PairConverting
  Limit <- PairLimit
  EmptyEnabled = TRUE
  EmptyThreshold = 1
  RetrySetting = {}
  DefaultRetries = 0
  MaxRetries = 1
  Kind = {"chat", "stream", "malformed"}
  Reply <- PairReply
INVARIANTS OvershootBounded
 
SYMMETRY Symmetry
