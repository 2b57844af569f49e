SPECIFICATION PlaceSpec
CONSTANTS
  OwnIds = {o1, o2}
  PeerIds = {p1, p2}
  NewId = o2
  Quantities = {5}
  Prices = {1}
  Times = {1}
  DustLimit = 2
  Unit = 1
  MaxTakers = 3
  Faults = {"capacity", "db", "close"}
  Parts = {2}
  MinQuantity = 2
  MaxCalls = 3
INVARIANTS
  PlaceTypeOK
  OrderAccounted
  OffersRespected
  ReplacedOnce
SYMMETRY PeerSymmetry
\* The order is placed once: at the end nothing need happen.
CHECK_DEADLOCK FALSE
