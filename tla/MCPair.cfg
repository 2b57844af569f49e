SPECIFICATION PairSpec
CONSTANTS
  OwnIds = {o1}
  PeerIds = {p1, p2}
  Quantities = {1, 4}
  Prices = {1, 2}
  Times = {1}
  DustLimit = 2
  Unit = 1
  MaxTakers = 2
INVARIANTS
  PairTypeOK
  HoldsCovered
  PeerOrdersIntact
PROPERTIES
  NoDustLeft
  BestOrdersFirst
SYMMETRY PeerSymmetry
\* Orders and taker orders are used up at the end.
CHECK_DEADLOCK FALSE
