SPECIFICATION FairSpec
CONSTANTS
  HardLim = 3
  SoftLim = 2
  MaxMsgs = 7
INVARIANT InOrder
INVARIANT LossIsTold
INVARIANT RefusalEnds
PROPERTY StopReturns
CHECK_DEADLOCK FALSE
