SPECIFICATION Spec
CONSTANTS
  hi = hi
  ok = ok
  MAX_MSG_ITEMS = 3
  Msg = {hi, ok}
  NoMsg = none
  StrLen <- ShortAndLong
  BufferLen = {150, 200, 300}
  MaxCursor = 8
  ArrayVal = {1, 2, 3}
  Unset = unset
  FirstSizes = {1, 3, 8}
  MaxCapacity = 4
  HeapSize = 5
  HeapVal <- SmallInts
  HalfWord = 8
  Node = {n1, n2, n3, n4}
  Datum = {1, 2}
  Null = null
  Garbage = garbage
  TreeVal = {1, 2, 3, 4}
  MaxAdds = 2
INVARIANTS StorageTypeOK ArrayInBlock ListIsChain TreePrintsSorted
PROPERTIES RingIsLast ArrayIsList HeapKeepsValues ListIsList
CHECK_DEADLOCK FALSE
