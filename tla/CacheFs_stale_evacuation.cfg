SPECIFICATION Spec
CONSTANTS
  Keys = {1}
  NFrags = 2
  NBlocks = 3
  Slots = 1
  ReadHandles = {r1}
  WriteHandles = {w1}
  MaxReaders = 2
  MaxEntries = 4
  NGens = 2
  Changing = {1}
  Failing = {}
  None = None
  AggWriter = AggWriter
INVARIANT EvacuationMoves
