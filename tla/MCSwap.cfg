SPECIFICATION SwapSpec
CONSTANTS
  Hashes = {h1}
  Faults = {"crash", "client"}
INVARIANT NoVerdictAgainstTaker
PROPERTIES
  SwapIsAtomic
  MakerMeetsATaker
  TakerMeetsAMaker
\* A system whose swaps are over may stop.
CHECK_DEADLOCK FALSE
