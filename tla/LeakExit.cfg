CONSTANTS
  Main = main
  Thread = {main, t1}
  Monitor = monitor
  Clash = t1
  Block = {b1}
  Null = null
  Size = {0, 1}
  NoSize = nosize
  None = none
  CheckPoints = {2}
  Unset = 2
  MaxCalls = 2
SPECIFICATION FairSpec
PROPERTY ExitReported
CHECK_DEADLOCK FALSE
