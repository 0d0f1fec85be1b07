SPECIFICATION Spec
CONSTANTS
  k1 = k1
  k2 = k2
  t1 = t1
  t2 = t2
  t3 = t3
  None = None
  Keys = {k1, k2}
  Readers = {t1, t2, t3}
  ObjSize <- McObjSize
  MaxObjSize = 5
  MaxFragSize = 3
  MinObjSize = 2
  MaxRanges = 4
  MaxReaders = 2
  MaxDataSize = 7
SYMMETRY Symmetry
INVARIANT CountsExact
INVARIANT ReadersExact
INVARIANT SearchesFind
INVARIANT WritesMissing
PROPERTY PinsWhatIsRead
