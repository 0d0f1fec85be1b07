SPECIFICATION FairSpec
CONSTANTS
  Keys = {1}
  NFrags = 2
  NBlocks = 3
  Slots = 2
  ReadHandles = {r1}
  WriteHandles = {w1}
  MaxReaders = 2
  MaxEntries = 4
  NGens = 1
  Changing = {1}
  Failing = {}
  None = None
  AggWriter = AggWriter
INVARIANT TypeOK
INVARIANT InMemoryIsInBlock
INVARIANT NoUnexpectedEvent
INVARIANT EvacuationFits
INVARIANT OnDiskIsOnDisk
INVARIANT NothingPending
PROPERTY MarkedKept
PROPERTY CopiesLead
PROPERTY AggWriterReturns
PROPERTY WritesAnswered
