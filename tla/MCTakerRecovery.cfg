SPECIFICATION TakerFairSpec
CONSTANTS
  Hashes = {h1}
  Faults = {"crash"}
PROPERTY TakerRecoveryEnds
\* A system whose swaps are over may stop.
CHECK_DEADLOCK FALSE
