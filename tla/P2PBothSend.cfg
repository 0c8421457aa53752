SPECIFICATION FairSpec
CONSTANTS
  a = a
  b = b
  na = na
  nb = nb
  Server = srv
  None = none
  Peer <- TwoPeers
  Name = {na, nb}
  NameOf <- TwoNames
  Open = {}
  InOrder = TRUE
  Lossy = FALSE
  MAXRETRY = 2
  MaxSend <- Once
  MaxGetu <- OnlyAOnce
  Timely = TRUE
  RecvErrors = FALSE
PROPERTIES OkMeansShown
CHECK_DEADLOCK FALSE
