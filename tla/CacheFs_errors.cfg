SPECIFICATION Spec
CONSTANTS
  Keys = {1}
  NFrags = 1
  NBlocks = 3
  Slots = 1
  ReadHandles = {r1, r2, r3}
  WriteHandles = {w1}
  MaxReaders = 2
  MaxEntries = 1
  NGens = 1
  Changing = {1}
  Failing = {"read", "write"}
  None = None
  AggWriter = AggWriter
SYMMETRY Symmetry
INVARIANT ReadersExact
