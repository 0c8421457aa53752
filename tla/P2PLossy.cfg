SPECIFICATION FairSpec
CONSTANTS
  a = a
  b = b
  na = na
  nb = nb
  Server = srv
  None = none
  Peer <- TwoPeers
  Name = {na, nb}
  NameOf <- TwoNames
  Open = {b}
  InOrder = FALSE
  Lossy = TRUE
  MAXRETRY = 1
  MaxSend <- TwiceAndOnce
  MaxGetu <- Never
  Timely = FALSE
  RecvErrors = FALSE
INVARIANTS LoggedInListed OkaysEarned
PROPERTIES SendReturns
CHECK_DEADLOCK FALSE
