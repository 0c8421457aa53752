SPECIFICATION Spec
CONSTANTS
  NTRIES = 3
  MaxSpoilt = 3
  MaxDups = 1
INVARIANTS TypeOK DiedMeansSpoilt UnsolicitedExact LoopbackExact ConsistentExact
CHECK_DEADLOCK FALSE
