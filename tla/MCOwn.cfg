SPECIFICATION OwnSpec
CONSTANTS
  OwnIds = {o1}
  PeerIds = {}
  Quantities = {1, 2, 4}
  Prices = {1}
  Times = {1}
  DustLimit = 1
  Unit = 2
  MaxTakers = 1
  Hashes = {h1, h2}
  Faults = {"db"}
  MaxRemovals = 2
INVARIANTS
  OwnTypeOK
  HoldsMatchSwaps
  SwapsNotOversold
  ReservedCovers
  CancelledNotOffered
SYMMETRY HashSymmetry
\* Order ids, hashes and takers are used up at the end.
CHECK_DEADLOCK FALSE
