SPECIFICATION PlaceSpec
CONSTANTS
  OwnIds = {o2}
  PeerIds = {p1, p2}
  NewId = o2
  Quantities = {4}
  Prices = {1}
  Times = {1}
  DustLimit = 2
  Unit = 1
  MaxTakers = 3
  Faults = {}
  Parts = {1}
  MinQuantity = 0
  MaxCalls = 3
INVARIANT InvalidatedStaysOut
SYMMETRY PeerSymmetry
\* The order is placed once: at the end nothing need happen.
CHECK_DEADLOCK FALSE
