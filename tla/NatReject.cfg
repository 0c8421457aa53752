SPECIFICATION Spec
CONSTANTS
  Delay = 1
  NatKinds <- Kinds
  Wait = 5
  Timeout = 20
  Faults = {0}
  NTRIES = 20
  MaxExtra = 1
INVARIANT RejectDetected
CHECK_DEADLOCK FALSE
