SPECIFICATION PoolFairSpec
CONSTANTS
  Low = low
  High = high
  Instances = {low, high}
  Events = {"ManualBan", "ManualUnban"}
  MaxEvents = 2
  MaxConns = 2
  MaxFaults = 1
  Operated = {low}
INVARIANTS
  PoolTypeOK
  ActiveInPool
  BanCloses
PROPERTY KeepsOne
\* Both nodes may have shut down, or no socket be left.
CHECK_DEADLOCK FALSE
