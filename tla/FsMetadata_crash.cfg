SPECIFICATION Spec
CONSTANTS
  Nodes = {n1}
  MaxRanges = 2
  NodeSize = 1
  RangeSize = 1
  StoreBlock = 1
  ChunkSize = 2
  SerialMod = 4
  MaxSerial = 3
  MaxResets = 1
  WritesFail = TRUE
  None = None
INVARIANT GoodKept
INVARIANT FreshestChosen
CHECK_DEADLOCK FALSE
