SPECIFICATION TakerFairSpec
CONSTANTS
  Hashes = {h1}
  Faults = {"crash", "db", "client", "peer"}
INVARIANTS
  TakerTypeOK
  TakerSuccessIsReal
  TakerWritesAhead
  TakerTimersMatchDeals
PROPERTY TakerSwapsEnd
\* A system whose swaps are over may stop.
CHECK_DEADLOCK FALSE
