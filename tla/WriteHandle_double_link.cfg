SPECIFICATION Spec
CONSTANTS
  ObjectLen = 5
  DataBeg = 1
  DataEnd = 4
  BuffCap = 2
  OpSizes = {1, 4}
INVARIANT NotQueuedTwice
CHECK_DEADLOCK FALSE
