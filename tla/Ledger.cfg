SPECIFICATION MCSpec
CONSTANTS
  i1 = i1
  i2 = i2
  s1 = s1
  s2 = s2
  s3 = s3
  p1 = p1
  p2 = p2
  g1 = g1
  g2 = g2
  t = t
  Instance = {i1, i2}
  Slot = {s1, s2, s3}
  Anthropic = {s1, s3}
  Group = {g1, g2}
  Target = {t, g2}
  ProviderOf <- MCProviderOf
  Routes <- MCRoutes
  Legacy <- MCLegacy
  Rates = {0, 1}
  Nobody = Nobody
  Wildcard = Wildcard
  None = None
  Saved = Saved
  MaxRequests = 1
  MaxEdits = 1
SYMMETRY Processes
INVARIANT LedgerExact
PROPERTY NeverUnderbilled
