CONSTANTS
  Main = main
  Thread = {main, t1}
  Monitor = monitor
  Clash = none
  Block = {b1, b2}
  Null = null
  Size = {1}
  NoSize = nosize
  None = none
  CheckPoints = {2}
  Unset = 1
  MaxCalls = 1
SPECIFICATION FairSpec
PROPERTY ExitReported
CHECK_DEADLOCK FALSE
