SPECIFICATION FairSpec
CONSTANTS
  Vols = {1, 2}
  Opens = {c1}
  MaxErrors = 1
  None = None
PROPERTY SyncGoesOn
CHECK_DEADLOCK FALSE
