SPECIFICATION FairSpec
CONSTANTS
  Delay = 1
  NatKinds <- Kinds
  Wait = 5
  Timeout = 20
  Faults = {0, 1, 2, 3}
  NTRIES = 20
  MaxExtra = 1
INVARIANTS TypeOK SoonMeansOpen AnsweredAfterCall OpenIsSoon VerdictUnlessRefused OtherVerdicts
PROPERTY Ends
CHECK_DEADLOCK FALSE
