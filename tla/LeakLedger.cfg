CONSTANTS
  Main = main
  Thread = {main, t1}
  Monitor = monitor
  Clash = none
  Block = {b1, b2}
  Null = null
  Size = {1, 2}
  NoSize = nosize
  None = none
  CheckPoints = {2}
  Unset = 1
  MaxCalls = 2
SPECIFICATION Spec
INVARIANTS TypeOK MapIsHeap
PROPERTY ReportsAreExact
SYMMETRY Symmetry
CHECK_DEADLOCK FALSE
