SPECIFICATION MakerFairSpec
CONSTANTS
  Hashes = {h1}
  Faults = {"crash", "db", "client", "peer"}
INVARIANTS
  MakerTypeOK
  MakerFundsSafe
  MakerFailureIsFinal
  MakerFollowsPayments
  MakerSuccessIsReal
  MakerTimersMatchDeals
PROPERTIES
  MakerPaysWhenCovered
  MakerIsPaid
  MakerKeepsDeals
\* A system whose swaps are over may stop.
CHECK_DEADLOCK FALSE
