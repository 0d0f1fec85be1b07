SPECIFICATION FairSpec
CONSTANTS
  ObjectLen = 5
  DataBeg = 1
  DataEnd = 4
  BuffCap = 2
  OpSizes = {1, 4}
INVARIANT NothingLost
INVARIANT FinishedOnce
PROPERTY WritesAnswered
PROPERTY CloseFinishes
CHECK_DEADLOCK FALSE
