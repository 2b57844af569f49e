SPECIFICATION SwapSpec
CONSTANTS
  Hashes = {h1}
  Faults = {}
INVARIANT TakerFailureIsDecisive
\* A system whose swaps are over may stop.
CHECK_DEADLOCK FALSE
