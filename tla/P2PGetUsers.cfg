SPECIFICATION Spec
CONSTANTS
  a = a
  b = b
  na = na
  nb = nb
  Server = srv
  None = none
  Peer <- TwoPeers
  Name = {na, nb}
  NameOf <- TwoNames
  Open = {}
  InOrder = FALSE
  Lossy = TRUE
  MAXRETRY = 1
  MaxSend <- OnlyAOnce
  MaxGetu <- OnlyAOnce
  Timely = FALSE
  RecvErrors = TRUE
INVARIANTS TypeOK
PROPERTIES ListIsDirectory
CHECK_DEADLOCK FALSE
