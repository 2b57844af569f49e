SPECIFICATION LndFairSpec
CONSTANT MaxChanges = 2
INVARIANTS
  LndTypeOK
  LockedCanUnlock
PROPERTIES
  LossNoticed
  ComesBack
\* A client may stay in a status that nothing changes.
CHECK_DEADLOCK FALSE
