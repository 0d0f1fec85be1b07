SPECIFICATION FairSpec
CONSTANTS
  Vols = {1, 2}
  Opens = {c1, c2}
  MaxErrors = 1
  None = None
INVARIANT OneSyncAtATime
INVARIANT AskedOnce
PROPERTY RoundComplete
PROPERTY OpenAnswered
PROPERTY BadIsClosed
CHECK_DEADLOCK FALSE
