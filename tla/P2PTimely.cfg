SPECIFICATION FairSpec
CONSTANTS
  a = a
  b = b
  na = na
  nb = nb
  Server = srv
  None = none
  Peer <- TwoPeers
  Name = {na, nb}
  NameOf <- TwoNames
  Open = {}
  InOrder = TRUE
  Lossy = FALSE
  MAXRETRY = 5
  MaxSend <- OnlyATwice
  MaxGetu <- OnlyAOnce
  Timely = TRUE
  RecvErrors = TRUE
PROPERTIES OkMeansShown LastRoundMeansGone NoNodeMeansAbsent
CHECK_DEADLOCK FALSE
