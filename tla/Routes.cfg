SPECIFICATION Spec
CONSTANTS
  e1 = e1
  e2 = e2
  p1 = p1
  p2 = p2
  g = g
  Tab = {1, 2}
  Editor = {e1, e2}
  Orders = Orders
  Route <- ThreeRoutes
  Group = {g}
  Provider = {p1, p2}
  First <- TwoRoutes
  Payload <- Payloads
  Ranking <- BothWays
  Free = Free
  Unused = Unused
  Deleted = Deleted
  Horizon = 3
  Clock <- SlowClocks
  MaxOrders <- OneEach
  MaxEdits = 2
INVARIANTS
  RefusedUnseen
  OrderWhole
  EditsShown
PROPERTIES
  OrdersAdvance
SYMMETRY Symmetry
