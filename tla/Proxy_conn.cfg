SPECIFICATION Spec
CONSTANTS
  ClnCap = 2
  OrgCap = 3
  BpWindow = 2
  Worlds <- McWorlds
INVARIANT NoUnexpectedEvent
INVARIANT AssertsHold
INVARIANT StreamIntact
INVARIANT ObjectIntact
INVARIANT OneRequestAtATime
INVARIANT PausedWhileDeciding
PROPERTY WaitsForCacheEnd
PROPERTY ReceivedIsSent
PROPERTY EndIsPassedOn
CHECK_DEADLOCK FALSE
