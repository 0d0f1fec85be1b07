SPECIFICATION Spec
CONSTANTS
  Nodes = {n1}
  MaxRanges = 2
  NodeSize = 1
  RangeSize = 1
  StoreBlock = 1
  ChunkSize = 10
  SerialMod = 4
  MaxSerial = 3
  MaxResets = 1
  WritesFail = FALSE
  None = None
INVARIANT SavedSurvives
CHECK_DEADLOCK FALSE
