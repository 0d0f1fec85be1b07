SPECIFICATION Spec
CONSTANTS
  ClnCap = 2
  OrgCap = 3
  BpWindow = 2
  Worlds <- McNoEntry
INVARIANT NoUnexpectedEvent
CHECK_DEADLOCK FALSE
