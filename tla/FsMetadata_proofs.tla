-------------------------- MODULE FsMetadata_proofs --------------------------
(***************************************************************************)
(* What FsMetadata promises, for any nodes, sizes and bounds: the counter  *)
(* of ranges is exact, the snapshot saved last is whole on the disk and    *)
(* chosen after a crash, and metadata that aren't dirty are saved.         *)
(***************************************************************************)
EXTENDS FsMetadata, FiniteSetTheorems, WellFoundedInduction, TLAPS

-----------------------------------------------------------------------------
(* Arithmetic.                                                             *)

LEMMA MulMono ==
  ASSUME NEW a \in Nat, NEW b \in Nat, NEW c \in Nat, a <= b
  PROVE  a * c <= b * c /\ a * c \in Nat
OBVIOUS

LEMMA DivMono ==
  ASSUME NEW a \in Nat, NEW b \in Nat, NEW c \in Nat \ {0}, a <= b
  PROVE  a \div c <= b \div c /\ a \div c \in Nat
OBVIOUS

LEMMA DivZero ==
  ASSUME NEW a \in Nat, NEW c \in Nat, a < c
  PROVE  a \div c = 0
OBVIOUS

LEMMA Turn ==
  ASSUME NEW a \in Nat
  PROVE  a % 2 \in Copy /\ (a + 1) % 2 = 1 - (a % 2)
BY DEF Copy

LEMMA SerialMoves ==
  ASSUME NEW s \in 0..(SerialMod - 1)
  PROVE  /\ s < MaxSerial => NextSerial(s) = s + 1
         /\ s > 0 => PrevSerial(s) = s - 1
<1>1. SerialMod \in Nat /\ MaxSerial \in Nat /\ MaxSerial <= SerialMod - 1
  BY SizesAssumption
<1>2. ASSUME s < MaxSerial PROVE (s + 1) % SerialMod = s + 1
  BY <1>1, <1>2
<1>3. ASSUME s > 0 PROVE (s + SerialMod - 1) % SerialMod = s - 1
  BY <1>1, <1>3
<1> QED  BY <1>2, <1>3 DEF NextSerial, PrevSerial

\* The greatest member of a set is what Max says.
LEMMA MaxIsMember ==
  ASSUME NEW n \in Nat, NEW S \in SUBSET (0..n), S # {}
  PROVE  Max(S) \in S /\ \A x \in S : x <= Max(S)
<1> DEFINE Less == OpToRel(<, Nat)
           T    == {n - x : x \in S}
<1>1. T \subseteq Nat /\ T # {}
  <2>1. \A x \in S : n - x \in Nat
    OBVIOUS
  <2> QED  BY <2>1
<1>2. PICK m \in T : \A y \in T : ~(<<y, m>> \in Less)
  <2>1. IsWellFoundedOn(Less, Nat)
    BY NatLessThanWellFounded, Zenon DEF Less
  <2> QED  BY <1>1, <2>1, WFMin
<1>3. ASSUME NEW y \in T PROVE m <= y
  <2>1. y < m => <<y, m>> \in Nat \X Nat /\ <<y, m>>[1] < <<y, m>>[2]
    BY <1>1
  <2>2. ~(y < m)
    BY <1>2, <2>1, Zenon DEF OpToRel
  <2> QED  BY <1>1, <2>2
<1>4. PICK x \in S : m = n - x
  BY <1>2
<1>5. ASSUME NEW z \in S PROVE x >= z
  BY <1>3, <1>4
<1> QED  BY <1>5 DEF Max

-----------------------------------------------------------------------------
(* Counting the ranges of a table.                                         *)

Cells  == Cardinality(Nodes) * MaxRanges
Counts == [Nodes -> 0..MaxRanges]
Tables == {t \in [Nodes -> RVec] : \A n \in Nodes : Size(t[n]) <= MaxRanges}

LEMMA TotalBounded ==
  ASSUME NEW f
  PROVE  Total(f) \in 0..Cells
<1>0. MaxRanges \in Nat /\ IsFiniteSet(Nodes)
  BY SizesAssumption
<1>1. /\ IsFiniteSet(1..MaxRanges) /\ Cardinality(1..MaxRanges) = MaxRanges
      /\ Cardinality(Nodes) \in Nat
  <2>1. 1 \in Int /\ MaxRanges \in Int /\ (1 > MaxRanges => MaxRanges = 0)
    BY <1>0
  <2>2. /\ IsFiniteSet(1..MaxRanges)
        /\ Cardinality(1..MaxRanges) = IF 1 > MaxRanges THEN 0 ELSE MaxRanges - 1 + 1
    BY <2>1, FS_Interval
  <2> QED  BY <1>0, <2>1, <2>2, FS_CardinalityType
<1>2. /\ IsFiniteSet(Nodes \X (1..MaxRanges))
      /\ Cardinality(Nodes \X (1..MaxRanges)) = Cells
  BY <1>0, <1>1, FS_Product DEF Cells
<1> DEFINE T == {x \in Nodes \X (1..MaxRanges) : x[2] <= f[x[1]]}
<1>3. IsFiniteSet(T) /\ Cardinality(T) <= Cells
  <2>1. T \in SUBSET (Nodes \X (1..MaxRanges))
    OBVIOUS
  <2> HIDE DEF T
  <2> QED  BY <1>2, <2>1, FS_Subset
<1> HIDE DEF T
<1>4. Cardinality(T) \in Nat
  BY <1>3, FS_CardinalityType
<1>5. Cells \in Nat
  BY <1>2, FS_CardinalityType
<1>6. Total(f) = Cardinality(T)
  BY DEF Total, T
<1> QED  BY <1>3, <1>4, <1>5, <1>6

\* The total of a function that changes at one node.
LEMMA TotalChanges ==
  ASSUME NEW f \in Counts, NEW n \in Nodes, NEW b \in 0..MaxRanges
  PROVE  Total([f EXCEPT ![n] = b]) = Total(f) - f[n] + b
<1> DEFINE Grid   == Nodes \X (1..MaxRanges)
           Rest   == {x \in Grid : x[1] # n /\ x[2] <= f[x[1]]}
           Row(k) == {n} \X (1..k)
<1>0. MaxRanges \in Nat /\ IsFiniteSet(Nodes)
  BY SizesAssumption
<1>1. IsFiniteSet(Grid)
  <2>1. 1 \in Int /\ MaxRanges \in Int
    BY <1>0
  <2>2. IsFiniteSet(1..MaxRanges)
    BY <2>1, FS_Interval
  <2> QED  BY <1>0, <2>2, FS_Product
<1>2. IsFiniteSet(Rest) /\ Cardinality(Rest) \in Nat
  <2>1. Rest \in SUBSET Grid
    OBVIOUS
  <2> HIDE DEF Rest, Grid
  <2> QED  BY <1>1, <2>1, FS_Subset, FS_CardinalityType
<1>3. ASSUME NEW k \in 0..MaxRanges
      PROVE  Cardinality(Rest \cup Row(k)) = Cardinality(Rest) + k
  <2>1. IsFiniteSet({n}) /\ Cardinality({n}) = 1
    BY FS_Singleton, Zenon
  <2>2. IsFiniteSet(1..k) /\ Cardinality(1..k) = k
    <3>1. 1 \in Int /\ k \in Int /\ (1 > k => k = 0)
      BY <1>0
    <3>2. IsFiniteSet(1..k) /\ Cardinality(1..k) = IF 1 > k THEN 0 ELSE k - 1 + 1
      BY <3>1, FS_Interval
    <3> QED  BY <1>0, <3>1, <3>2
  <2>3. IsFiniteSet(Row(k)) /\ Cardinality(Row(k)) = 1 * k
    BY <2>1, <2>2, FS_Product
  <2>4. Rest \cap Row(k) = {}
    OBVIOUS
  <2>5. Cardinality(Rest \cap Row(k)) = 0
    BY <2>4, FS_EmptySet, Zenon
  <2> HIDE DEF Rest, Row
  <2>6. Cardinality(Rest \cup Row(k))
          = Cardinality(Rest) + Cardinality(Row(k)) - Cardinality(Rest \cap Row(k))
    BY <1>2, <2>3, FS_Union
  <2>7. k \in Nat
    BY <1>0
  <2> QED  BY <1>2, <2>3, <2>5, <2>6, <2>7
<1>4. ASSUME NEW g \in Counts, \A m \in Nodes : m # n => g[m] = f[m]
      PROVE  Total(g) = Cardinality(Rest) + g[n]
  <2>1. {x \in Grid : x[2] <= g[x[1]]} = Rest \cup Row(g[n])
    <3>1. ASSUME NEW x \in Grid
          PROVE  x[2] <= g[x[1]] <=> x \in Rest \cup Row(g[n])
      <4>1. CASE x[1] = n
        BY <1>0, <4>1 DEF Counts
      <4>2. CASE x[1] # n
        BY <1>4, <4>2
      <4> QED  BY <4>1, <4>2
    <3>2. Rest \cup Row(g[n]) \subseteq Grid
      BY <1>0 DEF Counts
    <3> HIDE DEF Rest, Row, Grid
    <3> QED  BY <3>1, <3>2
  <2>2. g[n] \in 0..MaxRanges
    BY DEF Counts
  <2>3. Total(g) = Cardinality({x \in Grid : x[2] <= g[x[1]]})
    BY DEF Total
  <2> HIDE DEF Rest, Row, Grid
  <2> QED  BY <1>3, <2>1, <2>2, <2>3
<1> HIDE DEF Rest, Row, Grid
<1> DEFINE h == [f EXCEPT ![n] = b]
<1>5. h \in Counts /\ h[n] = b /\ \A m \in Nodes : m # n => h[m] = f[m]
  BY DEF Counts
<1> HIDE DEF h
<1>6. Total(f) = Cardinality(Rest) + f[n] /\ Total(h) = Cardinality(Rest) + b
  BY <1>4, <1>5
<1>7. f[n] \in Nat
  BY <1>0 DEF Counts
<1>8. Total(h) = Total(f) - f[n] + b
  BY <1>2, <1>6, <1>7
<1> QED  BY <1>8 DEF h
InCounts(t) == [n \in Nodes |-> InVectors(Size(t[n]))]

LEMMA SizeIsNat ==
  ASSUME NEW rv \in RVec
  PROVE  Size(rv) \in Nat /\ rv.dsk \in Nat /\ rv.mem \in Nat
BY SizesAssumption DEF RVec, Size

LEMMA TableIsCounted ==
  ASSUME NEW t \in Tables
  PROVE  InCounts(t) \in Counts
<1>1. ASSUME NEW n \in Nodes PROVE InVectors(Size(t[n])) \in 0..MaxRanges
  <2>1. t[n] \in RVec /\ Size(t[n]) <= MaxRanges /\ MaxRanges \in Nat
    BY SizesAssumption DEF Tables
  <2> QED  BY <2>1, SizeIsNat DEF InVectors
<1> QED  BY <1>1 DEF InCounts, Counts

\* The count of a table in which one node changes.
LEMMA CountedChanges ==
  ASSUME NEW t \in Tables, NEW n \in Nodes, NEW rv \in RVec,
         Size(rv) <= MaxRanges
  PROVE  /\ [t EXCEPT ![n] = rv] \in Tables
         /\ Counted([t EXCEPT ![n] = rv])
              = Counted(t) - InVectors(Size(t[n])) + InVectors(Size(rv))
<1> DEFINE u == [t EXCEPT ![n] = rv]
           b == InVectors(Size(rv))
<1>1. u \in Tables
  BY DEF Tables
<1>2. b \in 0..MaxRanges
  BY SizeIsNat, SizesAssumption DEF InVectors
<1>3. InCounts(u) = [InCounts(t) EXCEPT ![n] = b]
  BY DEF InCounts, Tables
<1>4. InCounts(t)[n] = InVectors(Size(t[n]))
  BY DEF InCounts
<1>5. Total([InCounts(t) EXCEPT ![n] = b]) = Total(InCounts(t)) - InCounts(t)[n] + b
  <2> HIDE DEF b
  <2> QED  BY <1>2, TableIsCounted, TotalChanges
<1> QED  BY <1>1, <1>3, <1>4, <1>5 DEF Counted, InCounts

\* What calc_inc and calc_dec add and take is what they should.
LEMMA IncCounts ==
  ASSUME NEW size \in Nat
  PROVE  InVectors(size) + CalcInc(size) = InVectors(size + 1)
BY DEF InVectors, CalcInc

LEMMA DecCounts ==
  ASSUME NEW size \in Nat, NEW dec \in 0..size
  PROVE  InVectors(size) - CalcDec(size, dec) = InVectors(size - dec)
BY DEF InVectors, CalcDec

LEMMA CommitKeepsCount ==
  ASSUME NEW t \in Tables
  PROVE  CommitAll(t) \in Tables /\ Counted(CommitAll(t)) = Counted(t)
<1>1. ASSUME NEW n \in Nodes
      PROVE  /\ CommitAll(t)[n] \in RVec
             /\ Size(CommitAll(t)[n]) = Size(t[n]) /\ Size(t[n]) <= MaxRanges
  <2>1. /\ CommitAll(t)[n] = [dsk |-> Size(t[n]), mem |-> 0]
        /\ t[n] \in RVec /\ Size(t[n]) <= MaxRanges /\ MaxRanges \in Nat
    BY SizesAssumption DEF CommitAll, Tables
  <2>2. Size(t[n]) \in 0..MaxRanges
    BY <2>1, SizeIsNat
  <2> QED  BY <2>1, <2>2 DEF RVec, Size
<1>2. CommitAll(t) \in [Nodes -> RVec]
  BY <1>1 DEF CommitAll
<1>3. InCounts(CommitAll(t)) = InCounts(t)
  BY <1>1 DEF InCounts
<1> QED  BY <1>1, <1>2, <1>3 DEF Tables, Counted, InCounts

LEMMA LoadKeepsCount ==
  ASSUME NEW t \in Tables
  PROVE  /\ Committed(t) \in Tables
         /\ Counted(Committed(t)) = LoadedRanges(t)
         /\ Committed(Committed(t)) = Committed(t)
<1>1. ASSUME NEW n \in Nodes
      PROVE  /\ Committed(t)[n] = [dsk |-> t[n].dsk, mem |-> 0]
             /\ Committed(t)[n] \in RVec
             /\ Size(Committed(t)[n]) = Size(t[n]) - t[n].mem
             /\ Size(t[n]) \in Nat /\ t[n].mem \in Nat
             /\ t[n].mem <= Size(t[n]) /\ Size(t[n]) <= MaxRanges
  BY SizesAssumption DEF Committed, Tables, RVec, Size
<1>2. Committed(t) \in [Nodes -> RVec]
  BY <1>1 DEF Committed
<1>3. ASSUME NEW n \in Nodes PROVE Size(Committed(t)[n]) <= MaxRanges
  <2>1. \A s, m, b \in Nat : m <= s /\ s <= b => s - m <= b
    OBVIOUS
  <2>2. /\ Size(t[n]) \in Nat /\ t[n].mem \in Nat /\ t[n].mem <= Size(t[n])
        /\ MaxRanges \in Nat
    BY <1>1, SizesAssumption
  <2>3. Size(t[n]) - t[n].mem <= MaxRanges
    BY <1>1, <2>1, <2>2
  <2> QED  BY <1>1, <2>3
<1>4. InCounts(Committed(t))
        = [n \in Nodes |-> InVectors(Size(t[n])) - CalcDec(Size(t[n]), t[n].mem)]
  <2>1. ASSUME NEW n \in Nodes PROVE t[n].mem \in 0..Size(t[n])
    <3>1. \A s, m \in Nat : m <= s => m \in 0..s
      OBVIOUS
    <3> QED  BY <1>1, <3>1
  <2> QED  BY <1>1, <2>1, DecCounts DEF InCounts
<1>5. Committed(Committed(t)) = Committed(t)
  <2>1. ASSUME NEW n \in Nodes
        PROVE  [Committed(t)[n] EXCEPT !.mem = 0] = Committed(t)[n]
    <3> DEFINE d == t[n].dsk
    <3>1. [[dsk |-> d, mem |-> 0] EXCEPT !.mem = 0] = [dsk |-> d, mem |-> 0]
      OBVIOUS
    <3>2. Committed(t)[n] = [dsk |-> d, mem |-> 0]
      BY <1>1
    <3> QED  BY <3>1, <3>2, Zenon
  <2>2. Committed(t) = [n \in Nodes |-> Committed(t)[n]]
    BY DEF Committed
  <2>3. Committed(Committed(t))
          = [n \in Nodes |-> [Committed(t)[n] EXCEPT !.mem = 0]]
    BY DEF Committed
  <2> QED  BY <2>1, <2>2, <2>3
<1> QED  BY <1>2, <1>3, <1>4, <1>5 DEF Tables, Counted, InCounts, LoadedRanges

LEMMA EmptyIsCounted ==
  /\ EmptyTable \in Tables
  /\ Counted(EmptyTable) = 0
  /\ CntNodes(EmptyTable) = 0
<1>1. EmptyTable \in Tables
  BY SizesAssumption DEF EmptyTable, Tables, RVec, Empty, Size
<1>2. CntNodes(EmptyTable) = 0
  <2>1. {n \in Nodes : EmptyTable[n] # Empty} = {}
    BY DEF EmptyTable
  <2> QED  BY <2>1, FS_EmptySet DEF CntNodes
<1>3. Counted(EmptyTable) = 0
  <2>1. ASSUME NEW n \in Nodes PROVE InCounts(EmptyTable)[n] = 0
    BY DEF EmptyTable, InCounts, Empty, Size, InVectors
  <2>2. {x \in Nodes \X (1..MaxRanges) : x[2] <= InCounts(EmptyTable)[x[1]]} = {}
    BY <2>1, SizesAssumption
  <2> QED  BY <2>2, FS_EmptySet DEF Counted, InCounts, Total
<1> QED  BY <1>1, <1>2, <1>3

-----------------------------------------------------------------------------
(* How many chunks a copy has.                                             *)

\* The snapshots that can be on the disk.
Saved == {s \in Snapshot : s.tbl \in Tables /\ s.ranges <= Cells}

LEMMA CellsIsNat == Cells \in Nat /\ Cardinality(Nodes) \in Nat
<1>1. Cardinality(Nodes) \in Nat /\ MaxRanges \in Nat
  BY FS_CardinalityType, SizesAssumption
<1> QED  BY <1>1, MulMono DEF Cells

LEMMA ChunksMono ==
  ASSUME NEW a \in Nat, NEW b \in Nat, a <= b
  PROVE  ChunksOf(a) \in 1..ChunksOf(b) /\ ChunksOf(b) \in Nat
<1>1. StoreBlock \in Nat \ {0} /\ ChunkSize \in Nat \ {0}
  BY SizesAssumption
<1> DEFINE q(x) == (x + StoreBlock - 1) \div StoreBlock
<1>2. q(a) <= q(b) /\ q(a) \in Nat /\ q(b) \in Nat
  <2>1. /\ a + StoreBlock - 1 \in Nat /\ b + StoreBlock - 1 \in Nat
        /\ a + StoreBlock - 1 <= b + StoreBlock - 1
    BY <1>1
  <2> QED  BY <1>1, <2>1, DivMono
<1> HIDE DEF q
<1>3. q(a) * StoreBlock <= q(b) * StoreBlock
      /\ q(a) * StoreBlock \in Nat /\ q(b) * StoreBlock \in Nat
  BY <1>1, <1>2, MulMono
<1>4. FtrOffs(a) = q(a) * StoreBlock /\ FtrOffs(b) = q(b) * StoreBlock
  BY DEF FtrOffs, q
<1>5. /\ FtrOffs(a) \div ChunkSize <= FtrOffs(b) \div ChunkSize
      /\ FtrOffs(a) \div ChunkSize \in Nat /\ FtrOffs(b) \div ChunkSize \in Nat
  BY <1>1, <1>3, <1>4, DivMono
<1> QED  BY <1>5 DEF ChunksOf

LEMMA ChunksBounded ==
  ASSUME NEW s \in Saved
  PROVE  Chunks(s) \in 1..MaxChunks /\ MaxChunks \in Nat
<1>1. s.ranges \in Nat /\ s.ranges <= Cells /\ NodeSize \in Nat /\ RangeSize \in Nat
  BY SizesAssumption DEF Saved, Snapshot
<1>2. CntNodes(s.tbl) \in Nat /\ CntNodes(s.tbl) <= Cardinality(Nodes)
  <2>1. {n \in Nodes : s.tbl[n] # Empty} \in SUBSET Nodes /\ IsFiniteSet(Nodes)
    BY SizesAssumption
  <2> QED  BY <2>1, FS_Subset, FS_CardinalityType DEF CntNodes
<1> DEFINE a1 == CntNodes(s.tbl) * NodeSize
           a2 == s.ranges * RangeSize
           b1 == Cardinality(Nodes) * NodeSize
           b2 == Cells * RangeSize
<1>3. a1 \in Nat /\ a2 \in Nat /\ b1 \in Nat /\ b2 \in Nat /\ a1 <= b1 /\ a2 <= b2
  BY <1>1, <1>2, CellsIsNat, MulMono
<1>4. /\ TableSize(s) = a1 + a2
      /\ DataSize(Cardinality(Nodes), Cardinality(Nodes) * MaxRanges) = b1 + b2
  BY DEF TableSize, DataSize, Cells
<1> HIDE DEF a1, a2, b1, b2
<1>5. TableSize(s) \in Nat /\ b1 + b2 \in Nat /\ TableSize(s) <= b1 + b2
  BY <1>3, <1>4
<1>6. MaxChunks = ChunksOf(b1 + b2)
  BY <1>4 DEF MaxChunks
<1> QED  BY <1>5, <1>6, ChunksMono DEF Chunks

LEMMA FreshIsSaved ==
  ASSUME NEW u \in 0..MaxResets
  PROVE  Fresh(u) \in Saved /\ Chunks(Fresh(u)) = 1
<1>1. Fresh(u) \in Saved
  <2>1. /\ SerialMod \in Nat /\ 0 <= SerialMod - 1 /\ EmptyTable \in [Nodes -> RVec]
    BY EmptyIsCounted, SizesAssumption DEF Tables
  <2>2. Fresh(u) \in Snapshot
    BY <2>1 DEF Fresh, Snapshot
  <2> QED  BY <2>2, EmptyIsCounted, CellsIsNat DEF Fresh, Saved
<1>2. TableSize(Fresh(u)) = 0
  <2>1. 0 * NodeSize + 0 * RangeSize = 0
    BY SizesAssumption
  <2> QED  BY <2>1, EmptyIsCounted DEF Fresh, TableSize, DataSize
<1>3. StoreBlock \in Nat \ {0} /\ ChunkSize \in Nat \ {0}
  BY SizesAssumption
<1>4. FtrOffs(0) = 0
  <2>1. (0 + StoreBlock - 1) \div StoreBlock = 0
    BY <1>3, DivZero
  <2> QED  BY <1>3, <2>1 DEF FtrOffs
<1>5. ChunksOf(0) = 1
  BY <1>3, <1>4, DivZero DEF ChunksOf
<1> QED  BY <1>1, <1>2, <1>5 DEF Chunks
-----------------------------------------------------------------------------
(* The invariant.                                                          *)

Jobs  == {j \in [snap : Saved, copy : Copy, done : Nat] : j.done < Chunks(j.snap)}
Disks == [Copy -> [1..MaxChunks -> Saved \cup {None}]]

Typed ==
  /\ tbl \in Tables /\ ranges = Counted(tbl)
  /\ uuid \in 0..MaxResets /\ serial \in 0..(SerialMod - 1)
  /\ dirty \in BOOLEAN /\ mode \in {"up", "close", "down", "reset"}
  /\ job \in Jobs \cup {None} /\ disk \in Disks
  /\ good \in Saved \cup {None} /\ unsaved \in BOOLEAN /\ revived \in BOOLEAN

\* A sync writes the copy after the good one, and has written some chunks of it.
SyncOf(g) ==
  /\ job.snap.serial = serial /\ serial = g.serial + 1 /\ job.copy = serial % 2
  /\ \A i \in 1..job.done : disk[job.copy][i] = job.snap

ResetOf(u) ==
  /\ good = None /\ serial = 0 /\ tbl = EmptyTable
  /\ job.snap = Fresh(u) /\ job.done = 0
  /\ job.copy = 1 => Hdr(disk, 0) = job.snap

Writing ==
  /\ mode \in {"up", "close"} => good # None
  /\ mode \in {"close", "reset"} => job # None
  /\ mode = "down" => job = None
  /\ mode = "up" /\ job = None => serial = good.serial
  /\ mode \in {"up", "close"} /\ job # None => SyncOf(good)
  /\ mode = "reset" => ResetOf(uuid)

\* The copy a snapshot's serial selects is that snapshot.
IsIn(s, d) == Whole(d, s.serial % 2) /\ Hdr(d, s.serial % 2) = s

\* Each copy begins with a snapshot that belongs there; B has one of a reset
\* only when A was not written by a sync.
Headers(d) ==
  /\ \A c \in Copy : /\ Hdr(d, c) # None
                     /\ Hdr(d, c).serial % 2 = c \/ (c = 1 /\ Hdr(d, c).serial = 0)
  /\ Hdr(d, 1).serial = 0 => Finished(d, 0)

Clean ==
  /\ mode = "up" /\ ~dirty /\ job # None => job.snap.tbl = tbl
  /\ CleanIsSaved

Inv == /\ Typed /\ Writing /\ Clean
       /\ Headers(disk) /\ (good # None => IsIn(good, disk))

LEMMA NoneIsOther ==
  /\ None \notin Saved /\ None \notin Jobs
  /\ \A s \in Saved : s # None /\ s.serial \in Nat /\ s.uuid \in 0..MaxResets
                      /\ s.tbl \in Tables /\ s.ranges \in Nat
<1>1. None \notin Saved
  BY NoneAssumption DEF Saved
<1>2. Jobs \subseteq Job
  <2>1. ASSUME NEW j \in Jobs PROVE j \in Job
    <3>1. /\ j \in [snap : Saved, copy : Copy, done : Nat]
          /\ j.done < Chunks(j.snap) /\ j.snap \in Saved /\ j.done \in Nat
      BY DEF Jobs
    <3>2. j.done \in 0..MaxChunks
      BY <3>1, ChunksBounded
    <3>3. j.snap \in Snapshot
      BY <3>1 DEF Saved
    <3> QED  BY <3>1, <3>2, <3>3 DEF Job
  <2> QED  BY <2>1
<1>3. \A s \in Saved : s.serial \in Nat /\ s.uuid \in 0..MaxResets
                       /\ s.tbl \in Tables /\ s.ranges \in Nat
  BY SizesAssumption DEF Saved, Snapshot
<1> QED  BY <1>1, <1>2, <1>3, NoneAssumption

LEMMA ChunksExist == MaxChunks \in Nat /\ 1 \in 1..MaxChunks
<1>1. 0 \in 0..MaxResets
  BY SizesAssumption
<1>2. Fresh(0) \in Saved
  BY <1>1, FreshIsSaved
<1> QED  BY <1>2, ChunksBounded

\* One chunk is written.
LEMMA ChunkWritten ==
  ASSUME NEW d \in Disks, NEW s \in Saved, NEW c \in Copy, NEW i \in 1..Chunks(s),
         NEW e, e = [d EXCEPT ![c][i] = s]
  PROVE  /\ e \in Disks /\ e[c][i] = s
         /\ \A j \in 1..MaxChunks : j # i => e[c][j] = d[c][j]
         /\ \A b \in Copy : b # c => e[b] = d[b]
<1>1. i \in 1..MaxChunks
  BY ChunksBounded
<1> QED  BY <1>1 DEF Disks

\* A copy made of a snapshot of one chunk is finished.
LEMMA FreshIsFinished ==
  ASSUME NEW d, NEW u \in 0..MaxResets, NEW c, Hdr(d, c) = Fresh(u)
  PROVE  Finished(d, c) /\ Whole(d, c)
<1>1. Chunks(Hdr(d, c)) = 1 /\ Fresh(u) # None
  BY FreshIsSaved, NoneIsOther
<1>2. \A i \in 1..1 : i = 1
  OBVIOUS
<1> QED  BY <1>1, <1>2 DEF Finished, Whole, Ftr, FtrAt, Hdr

LEMMA InitInv == Init => Inv
<1> SUFFICES ASSUME Init PROVE Inv
  OBVIOUS
<1>1. 0 \in 0..MaxResets /\ 0 \in 0..(SerialMod - 1)
  BY SizesAssumption
<1>2. Fresh(0) \in Saved /\ Chunks(Fresh(0)) = 1 /\ Fresh(0) # None
      /\ Fresh(0).serial = 0 /\ Fresh(0).tbl = EmptyTable
  BY <1>1, FreshIsSaved, NoneIsOther DEF Fresh
<1>3. disk \in Disks /\ \A c \in Copy : Hdr(disk, c) = Fresh(0)
  BY <1>2, ChunksExist DEF Init, Disks, Hdr
<1>4. Typed
  BY <1>1, <1>2, <1>3, EmptyIsCounted DEF Init, Typed
<1>5. Writing
  BY <1>2 DEF Init, Writing
<1>6. Clean
  BY <1>2 DEF Init, Clean, CleanIsSaved
<1>7. Headers(disk)
  <2>1. Finished(disk, 0)
    BY <1>1, <1>3, FreshIsFinished DEF Copy
  <2> QED  BY <1>2, <1>3, <2>1 DEF Headers, Copy
<1>8. IsIn(good, disk)
  <2>1. good = Fresh(0) /\ good.serial % 2 = 0 /\ 0 \in Copy
    BY <1>2 DEF Init, Copy
  <2> QED  BY <1>1, <1>3, <2>1, FreshIsFinished DEF IsIn
<1> QED  BY <1>4, <1>5, <1>6, <1>7, <1>8 DEF Inv

\* What a sync or a close writes leaves the good snapshot alone, and its last
\* chunk makes its own snapshot whole.
LEMMA SyncWrites ==
  ASSUME Inv, job # None, mode \in {"up", "close"}, NEW d, d = Write(job, disk)
  PROVE  /\ d \in Disks /\ Headers(d) /\ IsIn(good, d)
         /\ \A i \in 1..(job.done + 1) : d[job.copy][i] = job.snap
         /\ Last(job) => IsIn(job.snap, d)
         /\ ~Last(job) => [job EXCEPT !.done = @ + 1] \in Jobs
<1> DEFINE c == job.copy
           s == job.snap
           i == job.done + 1
<1>1. /\ job \in Jobs /\ s \in Saved /\ c \in Copy /\ job.done \in Nat
      /\ job.done < Chunks(s) /\ disk \in Disks /\ good \in Saved
      /\ SyncOf(good) /\ IsIn(good, disk) /\ Headers(disk)
  BY DEF Inv, Typed, Writing, Jobs
<1>2. /\ Chunks(s) \in 1..MaxChunks /\ MaxChunks \in Nat /\ i \in 1..Chunks(s)
      /\ i \in 1..MaxChunks /\ 1 \in 1..MaxChunks
  BY <1>1, ChunksBounded
<1>3. d = [disk EXCEPT ![c][i] = s]
  BY DEF Write
<1>4. /\ d \in Disks /\ d[c][i] = s
      /\ \A j \in 1..MaxChunks : j # i => d[c][j] = disk[c][j]
      /\ \A b \in Copy : b # c => d[b] = disk[b]
  <2> HIDE DEF c, s, i
  <2>1. disk \in Disks /\ s \in Saved /\ c \in Copy /\ i \in 1..Chunks(s)
    BY <1>1, <1>2
  <2> QED  BY <1>2, <1>3, <2>1, SMT DEF Disks
<1>5. ASSUME NEW j \in 1..i PROVE d[c][j] = s
  <2>1. CASE j = i
    BY <1>4, <2>1
  <2>2. CASE j # i
    <3>1. j \in 1..job.done /\ j \in 1..MaxChunks
      BY <1>1, <1>2, <2>2
    <3> QED  BY <1>1, <1>4, <2>2, <3>1 DEF SyncOf
  <2> QED  BY <2>1, <2>2
<1>6. Hdr(d, c) = s
  BY <1>1, <1>5 DEF Hdr
<1>7. /\ good.serial \in Nat /\ s.serial = good.serial + 1 /\ s.serial % 2 = c
      /\ good.serial % 2 \in Copy /\ c = 1 - (good.serial % 2) /\ s # None
  BY <1>1, NoneIsOther, Turn DEF SyncOf
<1> DEFINE b == good.serial % 2
<1>8. b \in Copy /\ b # c /\ d[b] = disk[b] /\ Hdr(d, b) = good
  BY <1>1, <1>4, <1>7 DEF Copy, Hdr, IsIn
<1>9. IsIn(good, d)
  BY <1>1, <1>8 DEF IsIn, Whole, Hdr
<1>10. Headers(d)
  <2>1. good.serial # 0 \/ b = 0
    BY <1>7
  <2>2. \A k \in Copy : k = b \/ k = c
    BY <1>7 DEF Copy
  <2>3. good # None
    BY <1>1, NoneIsOther
  <2>4. Hdr(d, 1).serial # 0
    BY <1>6, <1>7, <1>8, <2>1, <2>2 DEF Copy
  <2>5. ASSUME NEW k \in Copy
        PROVE  Hdr(d, k) # None /\ Hdr(d, k).serial % 2 = k
    <3>1. CASE k = b
      BY <1>8, <2>3, <3>1
    <3>2. CASE k = c
      BY <1>6, <1>7, <3>2
    <3> QED  BY <2>2, <3>1, <3>2
  <2> QED  BY <2>4, <2>5 DEF Headers
<1>11. ASSUME Last(job) PROVE IsIn(s, d)
  <2>1. i = Chunks(s)
    BY <1>11 DEF Last
  <2> QED  BY <1>5, <1>6, <1>7, <2>1 DEF IsIn, Whole
<1>12. ASSUME ~Last(job) PROVE [job EXCEPT !.done = @ + 1] \in Jobs
  <2>1. i < Chunks(s) /\ i \in Nat
    BY <1>1, <1>2, <1>12 DEF Last
  <2> QED  BY <1>1, <2>1 DEF Jobs
<1> QED  BY <1>4, <1>5, <1>9, <1>10, <1>11, <1>12
-----------------------------------------------------------------------------
(* The steps of the running volume.                                        *)

\* The table changes, its counter with it, and it is dirty.
LEMMA TableStep ==
  ASSUME Inv, mode = "up", tbl' \in Tables, ranges' = Counted(tbl'), dirty' = TRUE,
         UNCHANGED onDisk
  PROVE  Inv'
<1> USE DEF onDisk
<1>1. Typed'
  BY DEF Inv, Typed
<1>2. Writing'
  BY DEF Inv, Writing, SyncOf
<1>3. Clean'
  BY DEF Clean, CleanIsSaved
<1>4. Headers(disk)' /\ (good # None => IsIn(good, disk))'
  BY DEF Inv, Headers, IsIn, Whole, Hdr, Finished, Ftr, FtrAt
<1> QED  BY <1>1, <1>2, <1>3, <1>4 DEF Inv

LEMMA AddInv ==
  ASSUME Inv, NEW n \in Nodes, AddRange(n)
  PROVE  Inv'
<1> DEFINE rv   == tbl[n]
           rv2  == [dsk |-> rv.dsk, mem |-> rv.mem + 1]
<1>1. /\ tbl \in Tables /\ rv \in RVec /\ ranges = Counted(tbl)
      /\ Size(rv) < MaxRanges /\ MaxRanges \in Nat
  BY SizesAssumption DEF Inv, Typed, Tables, AddRange
<1>2. rv2 \in RVec /\ Size(rv2) = Size(rv) + 1 /\ Size(rv2) <= MaxRanges
      /\ Size(rv) \in Nat
  BY <1>1 DEF RVec, Size
<1>3. tbl' = [tbl EXCEPT ![n] = rv2]
  <2>1. [rv EXCEPT !.mem = rv.mem + 1] = rv2
    BY <1>1 DEF RVec
  <2>2. tbl' = [tbl EXCEPT ![n] = [rv EXCEPT !.mem = rv.mem + 1]]
    BY DEF AddRange
  <2> HIDE DEF rv, rv2
  <2> QED  BY <2>1, <2>2
<1> HIDE DEF rv, rv2
<1>4. /\ tbl' \in Tables
      /\ Counted(tbl') = Counted(tbl) - InVectors(Size(rv)) + InVectors(Size(rv2))
  BY <1>1, <1>2, <1>3, CountedChanges DEF rv
<1>5. InVectors(Size(rv)) + CalcInc(Size(rv)) = InVectors(Size(rv2))
  BY <1>2, IncCounts
<1>6. Counted(tbl) \in Int /\ InVectors(Size(rv)) \in Int /\ CalcInc(Size(rv)) \in Int
  BY <1>2, TotalBounded, CellsIsNat DEF Counted, InVectors, CalcInc
<1>7. ranges' = Counted(tbl) + CalcInc(Size(rv))
  BY <1>1 DEF AddRange, rv
<1>8. ranges' = Counted(tbl')
  BY <1>4, <1>5, <1>6, <1>7
<1> QED  BY <1>4, <1>8, TableStep DEF AddRange

\* Some ranges of a node go, and one more may come.
LEMMA RangesGo ==
  ASSUME Inv, NEW n \in Nodes, NEW rv \in RVec, Size(rv) <= MaxRanges,
         NEW dec \in Nat, dec <= Size(tbl[n]), NEW inc \in Int,
         InVectors(Size(tbl[n]) - dec) + inc = InVectors(Size(rv))
  PROVE  /\ [tbl EXCEPT ![n] = rv] \in Tables
         /\ ranges - CalcDec(Size(tbl[n]), dec) + inc = Counted([tbl EXCEPT ![n] = rv])
<1> DEFINE t == [tbl EXCEPT ![n] = rv]
<1>1. tbl \in Tables /\ tbl[n] \in RVec /\ ranges = Counted(tbl)
  BY DEF Inv, Typed, Tables
<1>2. PICK size : size = Size(tbl[n])
  OBVIOUS
<1>3. size \in Nat /\ dec <= size /\ Size(rv) \in Nat
  BY <1>1, <1>2, SizeIsNat
<1>4. t \in Tables /\ Counted(t) = Counted(tbl) - InVectors(size) + InVectors(Size(rv))
  BY <1>1, <1>2, CountedChanges
<1>5. InVectors(size) - CalcDec(size, dec) = InVectors(size - dec)
  BY <1>3, DecCounts
<1>6. /\ \A s \in Nat : InVectors(s) \in Int
      /\ Counted(tbl) \in Int /\ CalcDec(size, dec) \in Int
  BY <1>3, TotalBounded, CellsIsNat DEF InVectors, CalcDec, Counted
<1>7. InVectors(size - dec) + inc = InVectors(Size(rv)) /\ size - dec \in Nat
  BY <1>2, <1>3
<1> HIDE DEF t
<1>8. ranges - CalcDec(size, dec) + inc = Counted(t)
  BY <1>1, <1>3, <1>4, <1>5, <1>6, <1>7
<1> QED  BY <1>2, <1>4, <1>8 DEF t

LEMMA OverwriteInv ==
  ASSUME Inv, NEW n \in Nodes, OverwriteRanges(n)
  PROVE  Inv'
<1>1. PICK d \in 0..tbl[n].dsk, m \in 0..tbl[n].mem :
        /\ mode = "up" /\ d + m > 0
        /\ tbl' = [tbl EXCEPT ![n] = [dsk |-> @.dsk - d, mem |-> @.mem - m + 1]]
        /\ ranges' = ranges - CalcDec(Size(tbl[n]), d + m)
                            + CalcInc(Size(tbl[n]) - d - m)
        /\ dirty' = TRUE
        /\ UNCHANGED onDisk
  BY DEF OverwriteRanges
<1> DEFINE rv   == [dsk |-> tbl[n].dsk - d, mem |-> tbl[n].mem - m + 1]
           left == Size(tbl[n]) - (d + m)
<1>2. /\ rv \in RVec /\ Size(rv) <= MaxRanges /\ d + m \in Nat
      /\ d + m <= Size(tbl[n]) /\ Size(tbl[n]) - d - m = left
      /\ Size(rv) = left + 1 /\ left \in Nat
  <2>1. tbl[n] \in RVec /\ Size(tbl[n]) <= MaxRanges /\ MaxRanges \in Nat
    BY SizesAssumption DEF Inv, Typed, Tables
  <2> QED  BY <1>1, <2>1 DEF RVec, Size
<1>3. tbl' = [tbl EXCEPT ![n] = rv]
  BY <1>1
<1> HIDE DEF rv
<1>4. InVectors(left) + CalcInc(left) = InVectors(Size(rv)) /\ CalcInc(left) \in Int
  <2> HIDE DEF left
  <2> QED  BY <1>2, IncCounts DEF CalcInc
<1>5. /\ tbl' \in Tables
      /\ ranges - CalcDec(Size(tbl[n]), d + m) + CalcInc(left) = Counted(tbl')
  BY <1>2, <1>3, <1>4, RangesGo
<1>6. ranges' = Counted(tbl')
  BY <1>1, <1>2, <1>5
<1> QED  BY <1>1, <1>5, <1>6, TableStep

LEMMA RemoveInv ==
  ASSUME Inv, NEW n \in Nodes, RemoveRanges(n)
  PROVE  Inv'
<1>1. PICK d \in 0..tbl[n].dsk, m \in 0..tbl[n].mem :
        /\ mode = "up" /\ d + m > 0
        /\ tbl' = [tbl EXCEPT ![n] = [dsk |-> @.dsk - d, mem |-> @.mem - m]]
        /\ ranges' = ranges - CalcDec(Size(tbl[n]), d + m)
        /\ dirty' = TRUE
        /\ UNCHANGED onDisk
  BY DEF RemoveRanges
<1> DEFINE rv   == [dsk |-> tbl[n].dsk - d, mem |-> tbl[n].mem - m]
           left == Size(tbl[n]) - (d + m)
<1>2. /\ rv \in RVec /\ Size(rv) <= MaxRanges /\ d + m \in Nat
      /\ d + m <= Size(tbl[n]) /\ Size(rv) = left /\ left \in Nat
  <2>1. tbl[n] \in RVec /\ Size(tbl[n]) <= MaxRanges /\ MaxRanges \in Nat
    BY SizesAssumption DEF Inv, Typed, Tables
  <2> QED  BY <1>1, <2>1 DEF RVec, Size
<1>3. tbl' = [tbl EXCEPT ![n] = rv]
  BY <1>1
<1> HIDE DEF rv
<1>4. InVectors(left) + 0 = InVectors(Size(rv)) /\ 0 \in Int
  <2> HIDE DEF left
  <2> QED  BY <1>2 DEF InVectors
<1>5. /\ tbl' \in Tables
      /\ ranges - CalcDec(Size(tbl[n]), d + m) + 0 = Counted(tbl')
  BY <1>2, <1>3, <1>4, RangesGo
<1>6. ranges - CalcDec(Size(tbl[n]), d + m) \in Int
  <2>1. ranges \in Int /\ tbl[n] \in RVec
    BY TotalBounded, CellsIsNat DEF Inv, Typed, Tables, Counted
  <2>2. CalcDec(Size(tbl[n]), d + m) \in Int
    BY <1>2, <2>1, SizeIsNat DEF CalcDec
  <2> QED  BY <2>1, <2>2
<1>7. ranges' = Counted(tbl')
  BY <1>1, <1>5, <1>6
<1> QED  BY <1>1, <1>5, <1>7, TableStep

LEMMA CommitInv ==
  ASSUME Inv, CommitBlock
  PROVE  Inv'
<1>1. CommitAll(tbl) \in Tables /\ Counted(CommitAll(tbl)) = ranges
  BY CommitKeepsCount DEF Inv, Typed
<1> QED  BY <1>1, TableStep DEF CommitBlock
-----------------------------------------------------------------------------
(* Syncs, the close and the end of the process.                            *)

\* A sync begins with the serial after the good one.
LEMMA NewSync ==
  ASSUME Inv, NEW t \in Tables, NEW g, g = good, g \in Saved,
         NEW s \in 0..(SerialMod - 1), s = g.serial + 1, NEW r, r = Counted(t)
  PROVE  /\ NewJob(t, r, s) \in Jobs /\ NewJob(t, r, s).snap.serial = s
         /\ NewJob(t, r, s).copy = s % 2 /\ NewJob(t, r, s).done = 0
         /\ NewJob(t, r, s).snap.tbl = t
<1> DEFINE j == NewJob(t, r, s)
           p == [uuid |-> uuid, serial |-> s, tbl |-> t, ranges |-> r]
<1>1. r \in 0..Cells /\ Cells \in Nat
  BY TotalBounded, CellsIsNat DEF Counted
<1>2. uuid \in 0..MaxResets /\ t \in [Nodes -> RVec]
  BY DEF Inv, Typed, Tables
<1>3. p \in Saved
  <2>1. r \in Nat /\ r <= Cells
    BY <1>1
  <2> QED  BY <1>2, <2>1 DEF Saved, Snapshot
<1>4. j = [snap |-> p, copy |-> s % 2, done |-> 0]
  BY DEF NewJob
<1>5. s % 2 \in Copy
  BY SizesAssumption, Turn
<1>6. 0 < Chunks(p)
  <2> HIDE DEF p
  <2> QED  BY <1>3, ChunksBounded
<1> QED  BY <1>3, <1>4, <1>5, <1>6 DEF Jobs

LEMMA AsyncSyncInv ==
  ASSUME Inv, AsyncSync
  PROVE  Inv'
<1>1. /\ good \in Saved /\ serial = good.serial /\ serial \in Nat
      /\ serial < MaxSerial /\ serial \in 0..(SerialMod - 1)
      /\ tbl \in Tables /\ ranges = Counted(tbl)
  BY SizesAssumption DEF Inv, Typed, Writing, AsyncSync
<1>2. NextSerial(serial) = serial + 1 /\ serial + 1 \in 0..(SerialMod - 1)
  BY <1>1, SerialMoves, SizesAssumption
<1>3. PICK s : s = serial + 1
  OBVIOUS
<1>4. job' = NewJob(tbl, ranges, s) /\ serial' = s /\ s = good.serial + 1
  BY <1>1, <1>2, <1>3 DEF AsyncSync
<1>5. /\ NewJob(tbl, ranges, s) \in Jobs /\ NewJob(tbl, ranges, s).snap.serial = s
      /\ NewJob(tbl, ranges, s).copy = s % 2 /\ NewJob(tbl, ranges, s).done = 0
      /\ NewJob(tbl, ranges, s).snap.tbl = tbl
  BY <1>1, <1>2, <1>3, <1>4, NewSync
<1>6. /\ job' \in Jobs /\ job'.snap.serial = s /\ job'.copy = s % 2 /\ job'.done = 0
      /\ job'.snap.tbl = tbl
  BY <1>4, <1>5
<1>7. Typed'
  BY <1>2, <1>3, <1>4, <1>6 DEF Inv, Typed, AsyncSync
<1>8. Writing'
  <2>1. SyncOf(good)'
    BY <1>4, <1>6 DEF SyncOf, AsyncSync
  <2> QED  BY <1>6, <2>1, NoneIsOther DEF Inv, Writing, AsyncSync
<1>9. Clean'
  BY <1>6, NoneIsOther DEF Clean, CleanIsSaved, AsyncSync
<1>10. Headers(disk)' /\ (good # None => IsIn(good, disk))'
  BY DEF Inv, AsyncSync, Headers, IsIn, Whole, Hdr, Finished, Ftr, FtrAt
<1> QED  BY <1>7, <1>8, <1>9, <1>10 DEF Inv

\* A chunk of a sync or of a close is written.
LEMMA SyncChunkInv ==
  ASSUME Inv, SyncChunk \/ CloseChunk
  PROVE  Inv'
<1> DEFINE next == [job EXCEPT !.done = @ + 1]
<1>1. /\ job # None /\ job \in Jobs /\ mode \in {"up", "close"}
      /\ good \in Saved /\ SyncOf(good) /\ job.snap \in Saved
      /\ job.snap # None /\ job.done \in Nat
  BY NoneIsOther DEF Inv, Typed, Writing, SyncChunk, CloseChunk, Jobs
<1>2. PICK d : d = disk' /\ d = Write(job, disk)
  BY DEF SyncChunk, CloseChunk
<1>3. /\ d \in Disks /\ Headers(d) /\ IsIn(good, d)
      /\ \A i \in 1..(job.done + 1) : d[job.copy][i] = job.snap
      /\ Last(job) => IsIn(job.snap, d)
      /\ ~Last(job) => next \in Jobs
  BY <1>1, <1>2, SyncWrites
<1>4. /\ job' = IF Last(job) THEN None ELSE next
      /\ good' = IF Last(job) THEN job.snap ELSE good
      /\ unsaved' = (unsaved /\ ~Last(job))
      /\ UNCHANGED <<tbl, ranges, uuid, serial, dirty, revived>>
      /\ \/ mode = "up" /\ mode' = "up"
         \/ mode = "close" /\ mode' = IF Last(job) THEN "down" ELSE "close"
  BY DEF SyncChunk, CloseChunk
<1>5. Typed'
  <2>1. job' \in Jobs \cup {None} /\ good' \in Saved \cup {None}
    BY <1>1, <1>3, <1>4
  <2>2. unsaved' \in BOOLEAN
    BY <1>4
  <2>3. mode' \in {"up", "close", "down", "reset"}
    BY <1>4
  <2> QED  BY <1>2, <1>3, <1>4, <2>1, <2>2, <2>3 DEF Inv, Typed
<1>6. Writing'
  <2>1. CASE Last(job)
    <3>1. /\ job' = None /\ good' = job.snap /\ good' # None
          /\ serial' = good'.serial /\ mode' \in {"up", "down"}
      BY <1>1, <1>4, <2>1 DEF SyncOf
    <3> QED  BY <3>1 DEF Writing
  <2>2. CASE ~Last(job)
    <3>1. /\ job' = next /\ next \in Jobs /\ good' = good /\ serial' = serial
          /\ mode' = mode
      BY <1>3, <1>4, <2>2
    <3>2. /\ next.snap = job.snap /\ next.copy = job.copy
          /\ next.done = job.done + 1
      BY <1>1 DEF Jobs
    <3>3. SyncOf(good)'
      BY <1>1, <1>2, <1>3, <3>1, <3>2 DEF SyncOf
    <3>4. job' # None /\ good' # None /\ mode' \in {"up", "close"}
      BY <1>1, <3>1, NoneIsOther
    <3> QED  BY <3>3, <3>4 DEF Writing
  <2> QED  BY <2>1, <2>2
<1>7. Clean'
  <2>1. CASE Last(job)
    <3>1. job' = None /\ good' = job.snap /\ tbl' = tbl /\ dirty' = dirty
      BY <1>4, <2>1
    <3>2. mode' = "up" /\ ~dirty => job.snap.tbl = tbl
      BY <1>1, <1>4, <2>1 DEF Inv, Clean
    <3> QED  BY <3>1, <3>2 DEF Clean, CleanIsSaved
  <2>2. CASE ~Last(job)
    <3>1. /\ job' = next /\ next # None /\ tbl' = tbl /\ dirty' = dirty
          /\ mode' = mode /\ next.snap = job.snap
      BY <1>1, <1>3, <1>4, <2>2, NoneIsOther DEF Jobs
    <3> QED  BY <1>1, <3>1 DEF Inv, Clean, CleanIsSaved
  <2> QED  BY <2>1, <2>2
<1>8. Headers(disk)'
  BY <1>2, <1>3
<1>9. IsIn(good, disk)'
  <2>1. CASE Last(job)
    BY <1>2, <1>3, <1>4, <2>1
  <2>2. CASE ~Last(job)
    BY <1>2, <1>3, <1>4, <2>2
  <2> QED  BY <2>1, <2>2
<1> QED  BY <1>5, <1>6, <1>7, <1>8, <1>9 DEF Inv

\* A failed write gives the serial back.
LEMMA SyncFailsInv ==
  ASSUME Inv, SyncChunkFails \/ CloseChunkFails
  PROVE  Inv'
<1>1. /\ job # None /\ mode \in {"up", "close"} /\ good \in Saved
      /\ SyncOf(good) /\ serial \in 0..(SerialMod - 1) /\ good.serial \in Nat
  BY NoneIsOther DEF Inv, Typed, Writing, SyncChunkFails, CloseChunkFails
<1>2. PrevSerial(serial) = good.serial /\ good.serial \in 0..(SerialMod - 1)
  <2>1. serial = good.serial + 1 /\ serial > 0
    BY <1>1 DEF SyncOf
  <2>2. PrevSerial(serial) = serial - 1
    BY <1>1, <2>1, SerialMoves
  <2> QED  BY <1>1, <2>1, <2>2, SizesAssumption
<1>3. /\ serial' = good.serial /\ job' = None /\ unsaved' = TRUE
      /\ mode' \in {"up", "down"}
      /\ UNCHANGED <<tbl, ranges, uuid, dirty, disk, good, revived>>
  BY <1>2 DEF SyncChunkFails, CloseChunkFails
<1>4. Typed'
  BY <1>2, <1>3 DEF Inv, Typed
<1>5. Writing'
  BY <1>1, <1>3, NoneIsOther DEF Writing
<1>6. Clean'
  BY <1>3 DEF Clean, CleanIsSaved
<1>7. Headers(disk)' /\ (good # None => IsIn(good, disk))'
  BY <1>3 DEF Inv, Headers, IsIn, Whole, Hdr, Finished, Ftr, FtrAt
<1> QED  BY <1>4, <1>5, <1>6, <1>7 DEF Inv
LEMMA CloseInv ==
  ASSUME Inv, NEW flushed \in BOOLEAN, Close(flushed)
  PROVE  Inv'
<1>1. PICK aborted, t, sync : /\ aborted = (job # None)
                              /\ t = IF flushed THEN CommitAll(tbl) ELSE tbl
                              /\ sync = (aborted \/ dirty \/ flushed)
  OBVIOUS
<1>2. PICK s : s = NextSerial(SerialAtClose(aborted))
  OBVIOUS
<1>3. /\ mode = "up" /\ SerialAtClose(aborted) < MaxSerial
      /\ tbl' = t /\ dirty' = FALSE
      /\ mode' = IF sync THEN "close" ELSE "down"
      /\ serial' = IF sync THEN s ELSE serial
      /\ job' = IF sync THEN NewJob(t, ranges, s) ELSE None
      /\ UNCHANGED <<ranges, uuid, disk, good, unsaved, revived>>
  BY <1>1, <1>2 DEF Close
<1>4. /\ good \in Saved /\ good.serial \in Nat /\ serial \in 0..(SerialMod - 1)
      /\ tbl \in Tables /\ ranges = Counted(tbl)
  BY <1>3, NoneIsOther DEF Inv, Typed, Writing
<1>5. SerialAtClose(aborted) = good.serial /\ good.serial \in 0..(SerialMod - 1)
  <2>1. CASE aborted
    <3>1. serial = good.serial + 1 /\ serial > 0
      <4>1. job # None
        BY <1>1, <2>1, Zenon
      <4>2. SyncOf(good)
        BY <1>3, <4>1 DEF Inv, Writing
      <4> QED  BY <1>4, <4>2 DEF SyncOf
    <3>2. PrevSerial(serial) = serial - 1
      BY <1>4, <3>1, SerialMoves
    <3> QED  BY <1>4, <2>1, <3>1, <3>2, SizesAssumption DEF SerialAtClose
  <2>2. CASE ~aborted
    <3>1. serial = good.serial
      BY <1>1, <1>3, <2>2 DEF Inv, Writing
    <3> QED  BY <1>4, <2>2, <3>1 DEF SerialAtClose
  <2> QED  BY <1>1, <2>1, <2>2
<1>6. s = good.serial + 1 /\ s \in 0..(SerialMod - 1)
  <2>1. PICK g : g = good.serial
    OBVIOUS
  <2>2. NextSerial(g) = g + 1 /\ g < MaxSerial /\ g \in Nat
    BY <1>3, <1>4, <1>5, <2>1, SerialMoves
  <2> QED  BY <1>2, <1>5, <2>1, <2>2, SizesAssumption
<1>7. t \in Tables /\ ranges = Counted(t)
  BY <1>1, <1>4, CommitKeepsCount
<1>8. /\ NewJob(t, ranges, s) \in Jobs /\ NewJob(t, ranges, s).snap.serial = s
      /\ NewJob(t, ranges, s).copy = s % 2 /\ NewJob(t, ranges, s).done = 0
  BY <1>4, <1>6, <1>7, NewSync
<1>9. Typed'
  <2>1. mode' \in {"up", "close", "down", "reset"} /\ serial' \in 0..(SerialMod - 1)
        /\ job' \in Jobs \cup {None}
    BY <1>3, <1>4, <1>6, <1>8
  <2> QED  BY <1>3, <1>7, <2>1 DEF Inv, Typed
<1>10. Writing'
  <2>1. CASE sync
    <3>1. /\ mode' = "close" /\ job' # None /\ good' = good /\ good # None
          /\ job'.snap.serial = s /\ job'.copy = s % 2 /\ job'.done = 0
          /\ serial' = s
      BY <1>3, <1>4, <1>8, <2>1, NoneIsOther
    <3>2. SyncOf(good)'
      BY <1>6, <3>1 DEF SyncOf
    <3> QED  BY <3>1, <3>2 DEF Writing
  <2>2. CASE ~sync
    <3>1. mode' = "down" /\ job' = None
      BY <1>3, <2>2
    <3> QED  BY <3>1 DEF Writing
  <2> QED  BY <1>1, <2>1, <2>2
<1>11. Clean'
  <2>1. mode' # "up"
    BY <1>3
  <2> QED  BY <2>1 DEF Clean, CleanIsSaved
<1>12. Headers(disk)' /\ (good # None => IsIn(good, disk))'
  BY <1>3 DEF Inv, Headers, IsIn, Whole, Hdr, Finished, Ftr, FtrAt
<1> QED  BY <1>9, <1>10, <1>11, <1>12 DEF Inv

LEMMA CrashInv ==
  ASSUME Inv, Crash
  PROVE  Inv'
<1>1. Typed' /\ Writing' /\ Clean'
  BY DEF Inv, Typed, Writing, Clean, CleanIsSaved, Crash
<1>2. Headers(disk)' /\ (good # None => IsIn(good, disk))'
  BY DEF Inv, Crash, Headers, IsIn, Whole, Hdr, Finished, Ftr, FtrAt
<1> QED  BY <1>1, <1>2 DEF Inv

-----------------------------------------------------------------------------
(* The start.                                                              *)

LEMMA InitLoadInv ==
  ASSUME Inv, InitLoad
  PROVE  Inv'
<1>1. PICK c : c = ChooseCopy(disk)
  OBVIOUS
<1>2. PICK s : s = Hdr(disk, c)
  OBVIOUS
<1>3. /\ mode = "down" /\ c # None /\ Whole(disk, c) /\ LoadedRanges(s.tbl) = s.ranges
      /\ tbl' = Committed(s.tbl) /\ ranges' = s.ranges
      /\ uuid' = s.uuid /\ serial' = s.serial /\ dirty' = FALSE
      /\ mode' = "up" /\ good' = s /\ unsaved' = FALSE
      /\ revived' = (revived \/ s.uuid < NewestUuid)
      /\ UNCHANGED <<job, disk>>
  BY <1>1, <1>2 DEF InitLoad, Loads, TableLoads
<1>4. c \in Copy
  BY <1>1, <1>3 DEF ChooseCopy, Copy
<1>5. /\ disk \in Disks /\ Headers(disk) /\ job = None /\ revived \in BOOLEAN
  BY <1>3 DEF Inv, Typed, Writing
<1>6. s \in Saved
  BY <1>2, <1>4, <1>5, ChunksExist DEF Disks, Hdr, Headers
<1>7. /\ s # None /\ s.serial \in 0..(SerialMod - 1) /\ s.serial \in Nat
      /\ s.uuid \in 0..MaxResets /\ s.tbl \in Tables
  BY <1>6, NoneIsOther DEF Saved, Snapshot
<1>8. s.serial % 2 = c
  <2>1. \A k \in Copy : Hdr(disk, k) # None
    BY <1>5 DEF Headers
  <2>2. ASSUME c = 1, s.serial = 0 PROVE FALSE
    <3>1. Finished(disk, 0)
      BY <1>2, <1>5, <2>2 DEF Headers
    <3>2. Hdr(disk, 0) \in Saved
      BY <1>5, <2>1, ChunksExist DEF Disks, Hdr, Copy
    <3>3. Hdr(disk, 0).serial >= Hdr(disk, 1).serial
      BY <1>2, <2>2, <3>2, NoneIsOther
    <3>4. ~(\E k \in Copy : ~Current(disk, k))
      BY <1>1, <1>3 DEF ChooseCopy
    <3>5. ChooseCopy(disk) = 0
      BY <3>1, <3>3, <3>4 DEF ChooseCopy
    <3>6. c = 0
      BY <1>1, <3>5, Zenon
    <3> QED  BY <2>2, <3>6
  <2> QED  BY <1>2, <1>4, <1>5, <2>2 DEF Headers
<1>9. Typed'
  <2>1. Committed(s.tbl) \in Tables /\ Counted(Committed(s.tbl)) = s.ranges
    BY <1>3, <1>7, LoadKeepsCount
  <2>2. revived' \in BOOLEAN
    BY <1>3, <1>5
  <2> QED  BY <1>3, <1>5, <1>6, <1>7, <2>1, <2>2 DEF Typed
<1>10. Writing'
  BY <1>3, <1>5, <1>7 DEF Writing
<1>11. Clean'
  BY <1>3, <1>5, <1>7, LoadKeepsCount DEF Clean, CleanIsSaved
<1>12. Headers(disk)'
  BY <1>3, <1>5 DEF Headers, Hdr, Finished, Ftr, FtrAt
<1>13. IsIn(good, disk)'
  <2>1. IsIn(s, disk)
    BY <1>2, <1>3, <1>8 DEF IsIn
  <2> QED  BY <1>3, <2>1 DEF IsIn, Whole, Hdr
<1> QED  BY <1>9, <1>10, <1>11, <1>12, <1>13 DEF Inv

\* NewestUuid is the greatest uuid on the disk.
LEMMA NewestIsNewest ==
  ASSUME Inv
  PROVE  /\ NewestUuid \in 0..MaxResets
         /\ \A c \in Copy : \A i \in 1..MaxChunks :
              disk[c][i] # None => disk[c][i].uuid <= NewestUuid
<1> DEFINE chunks == {disk[c][i] : c \in Copy, i \in 1..MaxChunks} \ {None}
           uuids  == {s.uuid : s \in chunks}
<1>1. chunks \subseteq Saved
  <2>1. \A c \in Copy : \A i \in 1..MaxChunks : disk[c][i] \in Saved \cup {None}
    BY DEF Inv, Typed, Disks
  <2> QED  BY <2>1
<1>2. \A c \in Copy : \A i \in 1..MaxChunks :
        disk[c][i] # None => disk[c][i].uuid \in uuids
  OBVIOUS
<1>3. uuids \in SUBSET (0..MaxResets)
  <2> HIDE DEF chunks
  <2> QED  BY <1>1, NoneIsOther
<1>4. disk[0][1] \in chunks
  BY ChunksExist DEF Inv, Headers, Hdr, Copy
<1>5. uuids # {}
  <2> HIDE DEF chunks
  <2> QED  BY <1>4
<1>6. MaxResets \in Nat
  BY SizesAssumption
<1>7. NewestUuid = Max(uuids)
  BY DEF NewestUuid
<1> HIDE DEF uuids
<1>8. Max(uuids) \in uuids /\ \A x \in uuids : x <= Max(uuids)
  BY <1>3, <1>5, <1>6, MaxIsMember
<1> QED  BY <1>2, <1>3, <1>7, <1>8

LEMMA InitResetInv ==
  ASSUME Inv, InitReset
  PROVE  Inv'
<1>1. NewestUuid \in 0..MaxResets
  BY NewestIsNewest
<1>2. PICK u : u = NewestUuid + 1
  OBVIOUS
<1>3. u \in 0..MaxResets
  BY <1>1, <1>2, SizesAssumption DEF InitReset
<1>4. PICK j : j = [snap |-> Fresh(u), copy |-> 0, done |-> 0]
  OBVIOUS
<1>5. /\ tbl' = EmptyTable /\ ranges' = 0
      /\ uuid' = u /\ serial' = 0 /\ dirty' = FALSE
      /\ mode' = "reset" /\ good' = None /\ unsaved' = FALSE /\ job' = j
      /\ UNCHANGED <<disk, revived>>
  BY <1>2, <1>4 DEF InitReset
<1>6. j \in Jobs /\ j # None
  <2>1. Fresh(u) \in Saved /\ Chunks(Fresh(u)) = 1
    BY <1>3, FreshIsSaved
  <2>2. j \in Jobs
    BY <1>4, <2>1 DEF Jobs, Copy
  <2> QED  BY <2>2, NoneIsOther
<1>7. Typed'
  <2>1. /\ disk \in Disks /\ revived \in BOOLEAN
    BY DEF Inv, Typed
  <2>2. 0 \in 0..(SerialMod - 1)
    BY SizesAssumption
  <2>3. /\ tbl' \in Tables /\ ranges' = Counted(tbl')
    BY <1>5, EmptyIsCounted
  <2> QED  BY <1>3, <1>5, <1>6, <2>1, <2>2, <2>3 DEF Typed
<1>8. Writing'
  BY <1>4, <1>5, <1>6 DEF Writing, ResetOf
<1>9. Clean'
  BY <1>5 DEF Clean, CleanIsSaved
<1>10. Headers(disk)' /\ (good # None => IsIn(good, disk))'
  BY <1>5 DEF Inv, Headers, IsIn, Whole, Hdr, Finished, Ftr, FtrAt
<1> QED  BY <1>7, <1>8, <1>9, <1>10 DEF Inv

LEMMA ResetCopyInv ==
  ASSUME Inv, ResetCopy
  PROVE  Inv'
<1> DEFINE s == Fresh(uuid)
           c == job.copy
<1>1. /\ mode = "reset" /\ job # None /\ job \in Jobs /\ ResetOf(uuid)
      /\ uuid \in 0..MaxResets /\ c \in Copy /\ disk \in Disks /\ Headers(disk)
  BY DEF Inv, Typed, Writing, ResetCopy, Jobs
<1>2. /\ s \in Saved /\ Chunks(s) = 1 /\ s # None /\ s.serial = 0
      /\ s.tbl = EmptyTable /\ 1 \in 1..Chunks(s)
  BY <1>1, FreshIsSaved, NoneIsOther DEF Fresh
<1>3. PICK d : d = disk'
  OBVIOUS
<1>4. d = [disk EXCEPT ![c][1] = s]
  <2>1. disk' = [disk EXCEPT ![c][job.done + 1] = job.snap]
    BY DEF ResetCopy, Write
  <2>2. job.done + 1 = 1 /\ job.snap = s
    BY <1>1 DEF ResetOf
  <2> QED  BY <1>3, <2>1, <2>2
<1>5. /\ d \in Disks /\ d[c][1] = s
      /\ \A b \in Copy : b # c => d[b] = disk[b]
  BY <1>1, <1>2, <1>4, ChunksExist, SMT DEF Disks
<1>6. \A b \in Copy : /\ b = c => Hdr(d, b) = s
                      /\ b # c => Hdr(d, b) = Hdr(disk, b)
  BY <1>5 DEF Hdr
<1>7. Headers(d)
  <2>1. CASE c = 0
    <3>1. Hdr(d, 0) = s /\ Hdr(d, 1) = Hdr(disk, 1)
      BY <1>6, <2>1 DEF Copy
    <3>2. Finished(d, 0)
      BY <1>1, <3>1, FreshIsFinished
    <3> QED  BY <1>1, <1>2, <3>1, <3>2 DEF Headers, Copy
  <2>2. CASE c = 1
    <3>1. Hdr(d, 1) = s /\ Hdr(d, 0) = s
      BY <1>1, <1>6, <2>2 DEF Copy, ResetOf
    <3>2. Finished(d, 0)
      BY <1>1, <3>1, FreshIsFinished
    <3> QED  BY <1>2, <3>1, <3>2 DEF Headers, Copy
  <2> QED  BY <1>1, <2>1, <2>2 DEF Copy
<1>8. CASE c = 0
  <2>1. PICK j : j = [job EXCEPT !.copy = 1]
    OBVIOUS
  <2>2. /\ job' = j /\ UNCHANGED <<mode, good>>
        /\ UNCHANGED <<tbl, ranges, uuid, serial, dirty, unsaved, revived>>
    BY <1>8, <2>1 DEF ResetCopy
  <2>3. j \in Jobs /\ j # None /\ j.snap = job.snap /\ j.done = job.done
    <3>1. j \in Jobs /\ j.snap = job.snap /\ j.done = job.done
      BY <1>1, <2>1 DEF Jobs, Copy
    <3> QED  BY <3>1, NoneIsOther
  <2>4. Typed'
    BY <1>3, <1>5, <2>2, <2>3 DEF Inv, Typed
  <2>5. Hdr(d, 0) = j.snap
    BY <1>1, <1>6, <1>8, <2>3 DEF Copy, ResetOf
  <2>6. Writing'
    BY <1>1, <1>3, <2>2, <2>3, <2>5 DEF Writing, ResetOf
  <2>7. Clean'
    BY <1>1, <2>2 DEF Clean, CleanIsSaved
  <2>8. good' = None
    BY <1>1, <2>2 DEF ResetOf
  <2> QED  BY <1>3, <1>7, <2>4, <2>6, <2>7, <2>8 DEF Inv
<1>9. CASE c = 1
  <2>1. /\ job' = None /\ mode' = "up" /\ good' = s
        /\ UNCHANGED <<tbl, ranges, uuid, serial, dirty, unsaved, revived>>
    BY <1>1, <1>9 DEF ResetCopy, ResetOf
  <2>2. Typed'
    BY <1>2, <1>3, <1>5, <2>1 DEF Inv, Typed
  <2>3. Writing'
    BY <1>1, <1>2, <2>1 DEF Writing, ResetOf
  <2>4. Clean'
    BY <1>1, <1>2, <2>1 DEF Clean, CleanIsSaved, ResetOf
  <2>5. IsIn(s, d)
    <3>1. Hdr(d, 0) = s /\ 0 % 2 = 0
      BY <1>1, <1>6, <1>9 DEF Copy, ResetOf
    <3> QED  BY <1>1, <1>2, <3>1, FreshIsFinished DEF IsIn
  <2> QED  BY <1>3, <1>7, <2>1, <2>2, <2>3, <2>4, <2>5 DEF Inv
<1> QED  BY <1>1, <1>8, <1>9 DEF Copy

-----------------------------------------------------------------------------
(* Torn copies.                                                            *)

\* The last chunk of a snapshot, at its place: the snapshot was written whole.
IsFooter(s, i) == s # None /\ Chunks(s) = i

Bound(g) == IF g = None THEN 0 ELSE g.serial

\* No footer is of a sync after the good one.
Feet(d, u, b) ==
  \A c \in Copy : \A i \in 1..MaxChunks :
    IsFooter(d[c][i], i) => \/ d[c][i].uuid < u
                            \/ d[c][i].uuid = u /\ d[c][i].serial <= b

\* A copy with a header and a footer that fit is whole, and not after the good.
Untorn(d, g) ==
  \A c \in Copy : Current(d, c) /\ Finished(d, c) =>
    Whole(d, c) /\ (g # None => Hdr(d, c).serial <= g.serial)

\* A reset begins with metadata that could not be loaded.
Begun(d, g, u) == g = None => Hdr(d, 0) = Fresh(u) \/ ~Loads(d)

Uuids == /\ good # None => good.uuid = uuid
         /\ job # None => job.snap.uuid = uuid

CopyInv == /\ Inv /\ Uuids
           /\ ~revived => /\ Feet(disk, uuid, Bound(good))
                          /\ Untorn(disk, good)
                          /\ Begun(disk, good, uuid)

LEMMA FooterFits ==
  ASSUME NEW d, NEW c, Current(d, c)
  PROVE  /\ Ftr(d, c) = d[c][Chunks(Hdr(d, c))]
         /\ IsFooter(Ftr(d, c), Chunks(Hdr(d, c)))
         /\ Ftr(d, c).uuid = Hdr(d, c).uuid /\ Hdr(d, c) # None
BY DEF Current, HasFtr, Ftr, FtrAt, IsFooter, Chunks, ChunksOf

\* A whole copy has a footer.
LEMMA WholeHasFooter ==
  ASSUME NEW d, NEW c, Whole(d, c), Hdr(d, c) \in Saved
  PROVE  /\ d[c][Chunks(Hdr(d, c))] = Hdr(d, c)
         /\ IsFooter(Hdr(d, c), Chunks(Hdr(d, c)))
         /\ Chunks(Hdr(d, c)) \in 1..MaxChunks
         /\ Finished(d, c)
<1>1. Chunks(Hdr(d, c)) \in 1..MaxChunks /\ MaxChunks \in Nat
  BY ChunksBounded
<1>2. Chunks(Hdr(d, c)) \in 1..Chunks(Hdr(d, c))
  BY <1>1
<1> QED  BY <1>1, <1>2 DEF Whole, IsFooter, Finished, Ftr, FtrAt

\* The copy that is chosen is whole, and the good one.
LEMMA ChosenIsGood ==
  ASSUME Inv, Untorn(disk, good), ChooseCopy(disk) # None
  PROVE  /\ Whole(disk, ChooseCopy(disk))
         /\ good # None => Hdr(disk, ChooseCopy(disk)) = good
<1>1. PICK c : c = ChooseCopy(disk)
  OBVIOUS
<1>2. c \in Copy /\ \A k \in Copy : Current(disk, k)
  BY <1>1 DEF ChooseCopy, Copy
<1>3. /\ Finished(disk, c)
      /\ c = 0 => Hdr(disk, 0).serial >= Hdr(disk, 1).serial \/ ~Finished(disk, 1)
      /\ c = 1 => ~(/\ Finished(disk, 0)
                    /\ \/ Hdr(disk, 0).serial >= Hdr(disk, 1).serial
                       \/ ~Finished(disk, 1))
  BY <1>1, <1>2 DEF ChooseCopy
<1>4. Whole(disk, c) /\ (good # None => Hdr(disk, c).serial <= good.serial)
  BY <1>2, <1>3 DEF Untorn
<1>5. ASSUME good # None PROVE Hdr(disk, c) = good
  <2>1. PICK b : b = good.serial % 2
    OBVIOUS
  <2>2. /\ good \in Saved /\ good.serial \in Nat
        /\ Whole(disk, b) /\ Hdr(disk, b) = good
    BY <1>5, <2>1, NoneIsOther DEF Inv, Typed, IsIn
  <2>3. b \in Copy /\ Finished(disk, b)
    BY <2>1, <2>2, Turn, WholeHasFooter
  <2>4. ASSUME NEW k \in Copy PROVE Hdr(disk, k).serial \in Nat
    <3>1. Hdr(disk, k) \in Saved
      BY ChunksExist DEF Inv, Typed, Headers, Disks, Hdr
    <3> QED  BY <3>1, NoneIsOther
  <2>5. CASE c = 0 /\ b = 1
    <3>1. Hdr(disk, 0).serial = good.serial
      BY <1>3, <1>4, <1>5, <2>2, <2>3, <2>4, <2>5 DEF Copy
    <3>2. Hdr(disk, 0).serial % 2 = 0
      BY DEF Inv, Headers, Copy
    <3> QED  BY <2>1, <2>5, <3>1, <3>2
  <2>6. CASE c = 1 /\ b = 0
    <3>1. Hdr(disk, 0).serial < Hdr(disk, 1).serial
      BY <1>3, <2>3, <2>4, <2>6 DEF Copy
    <3> QED  BY <1>4, <1>5, <2>2, <2>4, <2>6, <3>1 DEF Copy
  <2>7. CASE c = b
    BY <2>2, <2>7
  <2> QED  BY <1>2, <2>3, <2>5, <2>6, <2>7 DEF Copy
<1> QED  BY <1>1, <1>4, <1>5

\* Steps that write nothing.
LEMMA NothingWritten ==
  ASSUME CopyInv, Inv', UNCHANGED <<disk, good, uuid, revived>>, Uuids'
  PROVE  CopyInv'
BY DEF CopyInv

LEMMA QuietCopyInv ==
  ASSUME CopyInv, Inv',
         \/ \E n \in Nodes : AddRange(n) \/ OverwriteRanges(n) \/ RemoveRanges(n)
         \/ CommitBlock \/ AsyncSync \/ SyncChunkFails \/ CloseChunkFails \/ Crash
         \/ \E flushed \in BOOLEAN : Close(flushed)
         \/ UNCHANGED vars
  PROVE  CopyInv'
<1>1. /\ UNCHANGED <<disk, good, uuid, revived>>
      /\ job' # None => job'.snap.uuid = uuid
  <2>1. CASE UNCHANGED vars
    BY <2>1 DEF CopyInv, Uuids, vars
  <2>2. CASE SyncChunkFails \/ CloseChunkFails \/ Crash
    BY <2>2 DEF SyncChunkFails, CloseChunkFails, Crash
  <2>3. CASE AsyncSync
    BY <2>3 DEF AsyncSync, NewJob
  <2>4. ASSUME NEW flushed \in BOOLEAN, Close(flushed)
        PROVE  /\ UNCHANGED <<disk, good, uuid, revived>>
               /\ job' # None => job'.snap.uuid = uuid
    BY <2>4 DEF Close, NewJob
  <2>5. CASE CommitBlock \/ \E n \in Nodes : AddRange(n) \/ OverwriteRanges(n)
                                             \/ RemoveRanges(n)
    <3>1. UNCHANGED onDisk
      BY <2>5 DEF CommitBlock, AddRange, OverwriteRanges, RemoveRanges
    <3> QED  BY <3>1 DEF CopyInv, Uuids, onDisk
  <2> QED  BY <2>1, <2>2, <2>3, <2>4, <2>5
<1>2. Uuids'
  BY <1>1 DEF CopyInv, Uuids
<1> QED  BY <1>1, <1>2, NothingWritten

\* A chunk of a sync or of a close: until the last is written, no footer fits
\* the new header, because a footer of this serial would be of a finished sync.
LEMMA ChunkCopyInv ==
  ASSUME CopyInv, Inv', SyncChunk \/ CloseChunk
  PROVE  CopyInv'
<1> DEFINE c == job.copy
           s == job.snap
           i == job.done + 1
<1>1. /\ job # None /\ job \in Jobs /\ mode \in {"up", "close"}
      /\ good # None /\ good \in Saved /\ SyncOf(good)
  BY NoneIsOther DEF CopyInv, Inv, Typed, Writing, SyncChunk, CloseChunk
<1>2. PICK d : d = disk' /\ d = Write(job, disk)
  BY DEF SyncChunk, CloseChunk
<1>3. /\ job' = IF Last(job) THEN None ELSE [job EXCEPT !.done = @ + 1]
      /\ good' = IF Last(job) THEN s ELSE good
      /\ UNCHANGED <<uuid, revived>>
  BY DEF SyncChunk, CloseChunk
<1>4. /\ s \in Saved /\ s # None /\ c \in Copy /\ job.done \in Nat
      /\ job.done < Chunks(s) /\ disk \in Disks
      /\ s.serial = good.serial + 1 /\ good.serial \in Nat
      /\ s.uuid = uuid /\ good.uuid = uuid /\ uuid \in Nat
      /\ good.serial % 2 \in Copy /\ c # good.serial % 2
  <2>1. s \in Saved /\ c \in Copy /\ job.done \in Nat /\ job.done < Chunks(s)
    BY <1>1 DEF Jobs
  <2>2. /\ s.serial = good.serial + 1 /\ good.serial \in Nat
        /\ c = (good.serial + 1) % 2
    BY <1>1, NoneIsOther DEF SyncOf
  <2>3. s.uuid = uuid /\ good.uuid = uuid
    BY <1>1 DEF CopyInv, Uuids
  <2>4. uuid \in Nat /\ disk \in Disks
    BY DEF CopyInv, Inv, Typed
  <2>5. good.serial % 2 \in Copy /\ c # good.serial % 2
    BY <2>2, Turn DEF Copy
  <2> QED  BY <2>1, <2>2, <2>3, <2>4, <2>5, NoneIsOther
<1>5. /\ d \in Disks /\ IsIn(good, d)
      /\ \A k \in 1..i : d[c][k] = s
      /\ Last(job) => IsIn(s, d)
  BY <1>1, <1>2, SyncWrites DEF CopyInv
<1>6. /\ i \in 1..MaxChunks /\ MaxChunks \in Nat /\ Chunks(s) \in 1..MaxChunks
      /\ \A k \in 1..MaxChunks : k # i => d[c][k] = disk[c][k]
      /\ \A b \in Copy : b # c => d[b] = disk[b]
  <2>1. i \in 1..Chunks(s)
    <3>1. Chunks(s) \in Nat
      BY <1>4, ChunksBounded
    <3> HIDE DEF s
    <3> QED  BY <1>4, <3>1
  <2> HIDE DEF c, s, i
  <2>2. d = [disk EXCEPT ![c][i] = s]
    BY <1>2 DEF Write, c, s, i
  <2>3. i \in 1..MaxChunks /\ MaxChunks \in Nat /\ Chunks(s) \in 1..MaxChunks
    BY <1>4, <2>1, ChunksBounded
  <2>4. /\ \A k \in 1..MaxChunks : k # i => d[c][k] = disk[c][k]
        /\ \A b \in Copy : b # c => d[b] = disk[b]
    BY <1>4, <2>1, <2>2, ChunkWritten
  <2> QED  BY <2>3, <2>4
<1>7. Hdr(d, c) = s /\ s = d[c][i]
  <2>1. 1 \in 1..i /\ i \in 1..i
    BY <1>4
  <2> QED  BY <1>5, <2>1 DEF Hdr
<1>8. Uuids'
  <2>1. CASE Last(job)
    BY <1>3, <1>4, <2>1 DEF Uuids
  <2>2. CASE ~Last(job)
    <3>1. [job EXCEPT !.done = @ + 1].snap = s
      BY <1>1 DEF Jobs
    <3> QED  BY <1>3, <1>4, <2>2, <3>1 DEF Uuids
  <2> QED  BY <2>1, <2>2
<1>9. Last(job) <=> Chunks(s) = i
  BY DEF Last
<1> HIDE DEF c, s, i
<1>10. SUFFICES ASSUME ~revived
                PROVE  /\ Feet(d, uuid, Bound(good'))
                       /\ Untorn(d, good')
                       /\ Begun(d, good', uuid)
  BY <1>2, <1>3, <1>8 DEF CopyInv
<1>11. Feet(disk, uuid, good.serial) /\ Untorn(disk, good)
  BY <1>1, <1>10 DEF CopyInv, Bound
<1>12. good' # None /\ Bound(good') = IF Last(job) THEN s.serial ELSE good.serial
  BY <1>1, <1>3, <1>4 DEF Bound
<1>13. ASSUME NEW b \in Copy, NEW k \in 1..MaxChunks, IsFooter(disk[b][k], k)
       PROVE  /\ \/ disk[b][k].uuid < uuid
                 \/ disk[b][k].uuid = uuid /\ disk[b][k].serial <= good.serial
              /\ disk[b][k].uuid \in Nat /\ disk[b][k].serial \in Nat
  <2>1. disk[b][k] \in Saved
    BY <1>4, <1>13 DEF Disks, IsFooter
  <2> QED  BY <1>11, <1>13, <2>1, NoneIsOther DEF Feet
<1>14. Feet(d, uuid, Bound(good'))
  <2> SUFFICES ASSUME NEW b \in Copy, NEW k \in 1..MaxChunks, IsFooter(d[b][k], k)
               PROVE  \/ d[b][k].uuid < uuid
                      \/ d[b][k].uuid = uuid /\ d[b][k].serial <= Bound(good')
    BY DEF Feet
  <2>1. CASE b = c /\ k = i
    <3>1. d[b][k] = s /\ Chunks(s) = i
      BY <1>7, <2>1 DEF IsFooter
    <3> QED  BY <1>4, <1>9, <1>12, <3>1
  <2>2. CASE ~(b = c /\ k = i)
    <3>1. d[b][k] = disk[b][k]
      BY <1>6, <2>2
    <3>2. IsFooter(disk[b][k], k)
      BY <3>1
    <3> QED  BY <1>4, <1>12, <1>13, <3>1, <3>2
  <2> QED  BY <2>1, <2>2
<1>15. Untorn(d, good')
  <2> SUFFICES ASSUME NEW b \in Copy, Current(d, b), Finished(d, b)
               PROVE  Whole(d, b) /\ Hdr(d, b).serial <= good'.serial
    BY DEF Untorn
  <2>1. CASE b # c
    <3>1. b = good.serial % 2
      BY <1>4, <2>1 DEF Copy
    <3>2. Whole(d, b) /\ Hdr(d, b) = good
      BY <1>5, <3>1 DEF IsIn
    <3>3. good.serial <= good'.serial
      BY <1>3, <1>4
    <3> QED  BY <3>2, <3>3
  <2>2. CASE b = c /\ Last(job)
    <3>1. Whole(d, b)
      <4>1. s.serial % 2 = c
        BY <1>1 DEF SyncOf, c, s
      <4> QED  BY <1>5, <2>2, <4>1 DEF IsIn
    <3>2. good' = s /\ s.serial <= s.serial
      BY <1>3, <1>4, <2>2
    <3> QED  BY <1>7, <2>2, <3>1, <3>2
  <2>3. CASE b = c /\ ~Last(job)
    <3> DEFINE k == Chunks(s)
    <3>1. k \in 1..MaxChunks /\ k # i
      BY <1>6, <1>9, <2>3
    <3>2. Ftr(d, c) = disk[c][k]
      BY <1>6, <1>7, <2>3, <3>1, FooterFits
    <3>3. IsFooter(disk[c][k], k) /\ disk[c][k].uuid = uuid
      BY <1>4, <1>7, <2>3, <3>2, FooterFits
    <3>4. disk[c][k].serial = good.serial + 1
      BY <1>4, <1>7, <2>3, <3>2 DEF Finished
    <3>5. FALSE
      <4> HIDE DEF k
      <4> QED  BY <1>4, <1>13, <3>1, <3>3, <3>4
    <3> QED  BY <3>5
  <2> QED  BY <2>1, <2>2, <2>3
<1> QED  BY <1>12, <1>14, <1>15 DEF Begun

\* The volume is loaded: the metadata chosen are the newest, or revived.
LEMMA LoadCopyInv ==
  ASSUME CopyInv, Inv', InitLoad
  PROVE  CopyInv'
<1>1. PICK c, s : c = ChooseCopy(disk) /\ s = Hdr(disk, c)
  OBVIOUS
<1>2. /\ Loads(disk) /\ c # None /\ Whole(disk, c) /\ job' = job /\ job = None
      /\ uuid' = s.uuid /\ good' = s /\ disk' = disk
      /\ revived' = (revived \/ s.uuid < NewestUuid)
  BY <1>1 DEF InitLoad, Loads, CopyInv, Inv, Writing
<1>3. c \in Copy /\ \A k \in Copy : Current(disk, k)
  BY <1>1, <1>2 DEF ChooseCopy, Copy
<1>4. /\ \A k \in Copy : \A i \in 1..MaxChunks : disk[k][i] \in Saved \cup {None}
      /\ \A k \in Copy : Hdr(disk, k) \in Saved
  BY ChunksExist DEF CopyInv, Inv, Typed, Headers, Disks, Hdr
<1>5. s \in Saved /\ s # None /\ s.serial \in Nat /\ s.uuid \in 0..MaxResets
  BY <1>1, <1>3, <1>4, NoneIsOther
<1>6. Uuids'
  BY <1>2 DEF Uuids
<1>7. SUFFICES ASSUME ~revived, ~(s.uuid < NewestUuid)
               PROVE  /\ Feet(disk, s.uuid, Bound(s))
                      /\ Untorn(disk, s)
                      /\ Begun(disk, s, s.uuid)
  BY <1>2, <1>6 DEF CopyInv
<1>8. /\ Feet(disk, uuid, Bound(good)) /\ Untorn(disk, good)
      /\ Begun(disk, good, uuid)
  BY <1>7 DEF CopyInv
<1>9. ASSUME NEW k \in Copy, NEW i \in 1..MaxChunks, disk[k][i] # None
      PROVE  disk[k][i].uuid <= s.uuid /\ disk[k][i].uuid \in Nat
             /\ disk[k][i].serial \in Nat
  <2>1. disk[k][i].uuid <= NewestUuid /\ NewestUuid \in 0..MaxResets
    BY <1>9, NewestIsNewest DEF CopyInv
  <2>2. disk[k][i].uuid \in 0..MaxResets /\ disk[k][i].serial \in Nat
    BY <1>4, <1>9, NoneIsOther
  <2> QED  BY <1>5, <1>7, <2>1, <2>2
<1>10. s.uuid = uuid /\ Bound(good) <= s.serial /\ Bound(good) \in Nat
  <2>1. CASE good # None
    <3>1. s = good
      BY <1>1, <1>2, <1>8, <2>1, ChosenIsGood DEF CopyInv
    <3> QED  BY <1>5, <2>1, <3>1 DEF CopyInv, Uuids, Bound
  <2>2. CASE good = None
    <3>1. Hdr(disk, 0) = Fresh(uuid) /\ Hdr(disk, 0) # None /\ Fresh(uuid).uuid = uuid
      BY <1>2, <1>4, <1>8, <2>2, NoneIsOther DEF Begun, Copy, Fresh
    <3>2. uuid <= s.uuid
      BY <1>9, <3>1, ChunksExist DEF Hdr, Copy
    <3>3. /\ disk[c][Chunks(s)] = s /\ IsFooter(s, Chunks(s))
          /\ Chunks(s) \in 1..MaxChunks
      BY <1>1, <1>2, <1>5, WholeHasFooter
    <3>4. s.uuid < uuid \/ s.uuid = uuid
      BY <1>3, <1>8, <3>3 DEF Feet
    <3>5. uuid \in Nat
      BY DEF CopyInv, Inv, Typed
    <3> QED  BY <1>5, <2>2, <3>2, <3>4, <3>5 DEF Bound
  <2> QED  BY <2>1, <2>2
<1>11. Feet(disk, s.uuid, Bound(s))
  <2>1. Bound(s) = s.serial
    BY <1>5 DEF Bound
  <2> SUFFICES ASSUME NEW k \in Copy, NEW i \in 1..MaxChunks, IsFooter(disk[k][i], i)
               PROVE  \/ disk[k][i].uuid < s.uuid
                      \/ disk[k][i].uuid = s.uuid /\ disk[k][i].serial <= s.serial
    BY <2>1 DEF Feet
  <2>2. \/ disk[k][i].uuid < uuid
        \/ disk[k][i].uuid = uuid /\ disk[k][i].serial <= Bound(good)
    BY <1>8 DEF Feet
  <2>3. disk[k][i].serial \in Nat
    BY <1>9 DEF IsFooter
  <2> QED  BY <1>5, <1>10, <2>2, <2>3
<1>12. Untorn(disk, s)
  <2> SUFFICES ASSUME NEW k \in Copy, Current(disk, k), Finished(disk, k)
               PROVE  Whole(disk, k) /\ Hdr(disk, k).serial <= s.serial
    BY DEF Untorn
  <2>1. Whole(disk, k)
    BY <1>8 DEF Untorn
  <2>2. /\ Hdr(disk, 0).serial \in Nat /\ Hdr(disk, 1).serial \in Nat
    BY <1>4, NoneIsOther DEF Copy
  <2>3. Hdr(disk, k).serial <= Hdr(disk, c).serial
    BY <1>1, <1>2, <1>3, <2>2 DEF ChooseCopy, Copy
  <2> QED  BY <1>1, <2>1, <2>3
<1>13. Begun(disk, s, s.uuid)
  BY <1>5 DEF Begun
<1> QED  BY <1>11, <1>12, <1>13

\* A reset begins: its uuid is newer than any chunk.
LEMMA ResetCopyBegins ==
  ASSUME CopyInv, Inv', InitReset
  PROVE  CopyInv'
<1>1. PICK u : u = NewestUuid + 1
  OBVIOUS
<1>2. /\ ~Loads(disk) /\ disk' = disk /\ uuid' = u /\ good' = None
      /\ revived' = revived /\ job'.snap.uuid = u
  BY <1>1 DEF InitReset, Fresh
<1>3. Uuids'
  BY <1>2 DEF Uuids
<1>4. Feet(disk, u, 0)
  <2> SUFFICES ASSUME NEW k \in Copy, NEW i \in 1..MaxChunks, disk[k][i] # None
               PROVE  disk[k][i].uuid < u
    BY DEF Feet, IsFooter
  <2>1. disk[k][i].uuid <= NewestUuid /\ NewestUuid \in 0..MaxResets
    BY NewestIsNewest DEF CopyInv
  <2>2. disk[k][i].uuid \in 0..MaxResets
    BY NoneIsOther DEF CopyInv, Inv, Typed, Disks
  <2> QED  BY <1>1, <2>1, <2>2
<1>5. ~revived => Untorn(disk, None)
  BY DEF CopyInv, Untorn
<1> QED  BY <1>2, <1>3, <1>4, <1>5 DEF CopyInv, Bound, Begun

\* One copy of a reset is written.
LEMMA ResetCopyWritten ==
  ASSUME CopyInv, Inv', ResetCopy
  PROVE  CopyInv'
<1> DEFINE s == Fresh(uuid)
           c == job.copy
<1>1. /\ job # None /\ job \in Jobs /\ ResetOf(uuid)
      /\ uuid \in 0..MaxResets /\ c \in Copy /\ disk \in Disks
  BY DEF CopyInv, Inv, Typed, Writing, ResetCopy, Jobs
<1>2. /\ s \in Saved /\ Chunks(s) = 1 /\ s # None /\ s.serial = 0 /\ s.uuid = uuid
      /\ 1 \in 1..Chunks(s)
  BY <1>1, FreshIsSaved, NoneIsOther DEF Fresh
<1>3. PICK d : d = disk' /\ d = [disk EXCEPT ![c][1] = s]
  <2>1. disk' = [disk EXCEPT ![c][job.done + 1] = job.snap]
    BY DEF ResetCopy, Write
  <2>2. job.done + 1 = 1 /\ job.snap = s
    BY <1>1 DEF ResetOf
  <2> QED  BY <2>1, <2>2
<1>4. /\ d[c][1] = s /\ Hdr(d, c) = s
      /\ \A k \in 1..MaxChunks : k # 1 => d[c][k] = disk[c][k]
      /\ \A b \in Copy : b # c => d[b] = disk[b]
  <2> HIDE DEF s, c
  <2>1. disk \in Disks /\ s \in Saved /\ c \in Copy
    BY <1>1, <1>2
  <2>2. /\ d[c][1] = s
        /\ \A k \in 1..MaxChunks : k # 1 => d[c][k] = disk[c][k]
        /\ \A b \in Copy : b # c => d[b] = disk[b]
    BY <1>3, <2>1, ChunksExist, SMT DEF Disks
  <2>3. Hdr(d, c) = d[c][1]
    BY DEF Hdr
  <2> QED  BY <2>2, <2>3
<1>5. /\ UNCHANGED <<uuid, revived>> /\ good = None
      /\ good' \in {None, s} /\ (job' # None => job'.snap = s)
      /\ good' = None => c = 0
  <2>1. CASE c = 0
    <3>1. job' = [job EXCEPT !.copy = 1] /\ good' = good /\ UNCHANGED <<uuid, revived>>
      BY <2>1 DEF ResetCopy
    <3>2. job'.snap = s
      BY <1>1, <3>1 DEF ResetOf, Jobs
    <3> QED  BY <1>1, <2>1, <3>1, <3>2 DEF ResetOf
  <2>2. CASE c # 0
    <3>1. /\ job' = None /\ good' = job.snap /\ UNCHANGED <<uuid, revived>>
      BY <2>2 DEF ResetCopy
    <3>2. good' = s /\ good = None /\ s # None
      BY <1>1, <1>2, <3>1 DEF ResetOf
    <3> QED  BY <3>1, <3>2
  <2> QED  BY <2>1, <2>2
<1>6. Uuids'
  BY <1>2, <1>5 DEF Uuids
<1>7. Bound(good) = 0 /\ Bound(good') = 0
  BY <1>2, <1>5 DEF Bound
<1>8. SUFFICES ASSUME ~revived
               PROVE  /\ Feet(d, uuid, 0) /\ Untorn(d, good')
                      /\ Begun(d, good', uuid)
  BY <1>3, <1>5, <1>6, <1>7 DEF CopyInv
<1> HIDE DEF s, c
<1>9. Feet(disk, uuid, 0) /\ Untorn(disk, good)
  BY <1>7, <1>8 DEF CopyInv
<1>10. Feet(d, uuid, 0)
  <2> SUFFICES ASSUME NEW b \in Copy, NEW k \in 1..MaxChunks, IsFooter(d[b][k], k)
               PROVE  \/ d[b][k].uuid < uuid
                      \/ d[b][k].uuid = uuid /\ d[b][k].serial <= 0
    BY DEF Feet
  <2>1. CASE b = c /\ k = 1
    BY <1>2, <1>4, <2>1
  <2>2. CASE ~(b = c /\ k = 1)
    <3>1. d[b][k] = disk[b][k]
      BY <1>4, <2>2
    <3> QED  BY <1>9, <3>1 DEF Feet
  <2> QED  BY <2>1, <2>2
<1>11. Untorn(d, good')
  <2> SUFFICES ASSUME NEW b \in Copy, Current(d, b), Finished(d, b)
               PROVE  Whole(d, b) /\ (good' # None => Hdr(d, b).serial <= 0)
    BY <1>2, <1>5 DEF Untorn
  <2>1. CASE b = c
    <3>1. Whole(d, c)
      BY <1>1, <1>4, FreshIsFinished DEF s
    <3> QED  BY <1>2, <1>4, <2>1, <3>1
  <2>2. CASE b # c
    <3>1. d[b] = disk[b]
      BY <1>4, <2>2
    <3>2. Current(disk, b) /\ Finished(disk, b) /\ Hdr(d, b) = Hdr(disk, b)
      BY <3>1 DEF Current, HasFtr, Finished, Ftr, FtrAt, Hdr
    <3>3. Whole(d, b)
      BY <1>9, <3>1, <3>2 DEF Untorn, Whole, Hdr
    <3>4. ASSUME good' # None PROVE Hdr(d, b).serial <= 0
      <4>1. c = 1
        BY <1>1, <3>4 DEF ResetCopy, ResetOf, c
      <4>2. b = 0 /\ Hdr(disk, 0) = s
        BY <1>1, <2>2, <4>1 DEF Copy, ResetOf, c, s
      <4> QED  BY <1>2, <3>2, <4>2
    <3> QED  BY <3>3, <3>4
  <2> QED  BY <2>1, <2>2
<1>12. Begun(d, good', uuid)
  BY <1>4, <1>5 DEF Begun, s
<1> QED  BY <1>10, <1>11, <1>12

LEMMA InitCopyInv == Init => CopyInv
<1> SUFFICES ASSUME Init PROVE CopyInv
  OBVIOUS
<1>1. 0 \in 0..MaxResets
  BY SizesAssumption
<1> DEFINE s == Fresh(0)
<1>2. /\ s \in Saved /\ Chunks(s) = 1 /\ s # None /\ s.serial = 0 /\ s.uuid = 0
  BY <1>1, FreshIsSaved, NoneIsOther DEF Fresh
<1>3. good = s /\ uuid = 0 /\ job = None /\ Bound(good) = 0
  BY <1>2 DEF Init, Bound
<1>4. /\ \A c \in Copy : Hdr(disk, c) = s
      /\ \A c \in Copy : \A i \in 1..MaxChunks : disk[c][i] \in {s, None}
  BY <1>2, ChunksExist DEF Init, Hdr
<1>5. Feet(disk, uuid, Bound(good))
  BY <1>2, <1>3, <1>4 DEF Feet, IsFooter
<1>6. Untorn(disk, good)
  <2>1. \A c \in Copy : Whole(disk, c)
    BY <1>1, <1>4, FreshIsFinished
  <2> QED  BY <1>2, <1>3, <1>4, <2>1 DEF Untorn
<1> HIDE DEF s
<1> QED  BY <1>2, <1>3, <1>5, <1>6, InitInv DEF CopyInv, Uuids, Begun

-----------------------------------------------------------------------------
(* Theorems.                                                               *)

LEMMA InvStep == Inv /\ [Next]_vars => Inv'
<1> SUFFICES ASSUME Inv, [Next]_vars PROVE Inv'
  OBVIOUS
<1>1. CASE Next
  BY <1>1, AddInv, OverwriteInv, RemoveInv, CommitInv, AsyncSyncInv, SyncChunkInv,
     SyncFailsInv, CloseInv, CrashInv, InitLoadInv, InitResetInv, ResetCopyInv
     DEF Next
<1>2. CASE UNCHANGED vars
  <2>1. Typed' /\ Writing' /\ Clean'
    BY <1>2 DEF vars, Inv, Typed, Writing, SyncOf, ResetOf, Clean, CleanIsSaved, Hdr
  <2>2. Headers(disk)' /\ (good # None => IsIn(good, disk))'
    BY <1>2 DEF vars, Inv, Headers, IsIn, Whole, Hdr, Finished, Ftr, FtrAt
  <2> QED  BY <2>1, <2>2 DEF Inv
<1> QED  BY <1>1, <1>2

\* The counter, the serial, the write in progress and the two copies fit each
\* other in every state.
THEOREM Invariance == Spec => []Inv
BY InvStep, InitInv, PTL DEF Spec

\* No unfinished write leaves a copy that looks finished.
THEOREM CopyInvariance == Spec => []CopyInv
<1>1. CopyInv /\ [Next]_vars => CopyInv'
  <2> SUFFICES ASSUME CopyInv, [Next]_vars PROVE CopyInv'
    OBVIOUS
  <2>1. Inv'
    BY InvStep DEF CopyInv
  <2> QED  BY <2>1, QuietCopyInv, ChunkCopyInv, LoadCopyInv, ResetCopyBegins,
              ResetCopyWritten DEF Next
<1> QED  BY <1>1, InitCopyInv, PTL DEF Spec

\* The counter that add_entry, rem_entries and load keep is the one save must
\* write (fs_table.cpp, calc_inc and calc_dec).
THEOREM CountAlwaysExact == Spec => []CountExact
<1>1. Inv => CountExact
  BY DEF Inv, Typed, CountExact
<1> QED  BY <1>1, Invariance, PTL

\* Syncs, failed and aborted syncs, crashes, loads and resets leave the snapshot
\* saved last whole in one of the copies (async_sync_metadata, task_md_sync,
\* cache_fs::close and init).
THEOREM GoodAlwaysKept == Spec => []GoodKept
<1>1. Inv => GoodKept
  <2> SUFFICES ASSUME Inv, good # None
               PROVE  \E c \in Copy : Whole(disk, c) /\ Hdr(disk, c) = good
    BY DEF GoodKept
  <2>1. good.serial % 2 \in Copy
    <3>1. good.serial \in Nat
      BY NoneIsOther DEF Inv, Typed
    <3> QED  BY <3>1, Turn
  <2>2. IsIn(good, disk)
    BY DEF Inv
  <2> QED  BY <2>1, <2>2 DEF IsIn
<1> QED  BY <1>1, Invariance, PTL

\* Metadata that aren't dirty are those saved last, unless a sync failed
\* (fs_metadata::is_dirty_, cache_fs::close).
THEOREM CleanAlwaysSaved == Spec => []CleanIsSaved
<1>1. Inv => CleanIsSaved
  BY DEF Inv, Clean
<1> QED  BY <1>1, Invariance, PTL

\* The copy chosen after a crash is the snapshot saved last, not a mixture
\* (load_check_metadata_hdr_ftr), unless an older uuid was loaded before.
THEOREM FreshestAlwaysChosen == Spec => []FreshestChosen
<1>1. CopyInv => FreshestChosen
  BY ChosenIsGood DEF CopyInv, FreshestChosen
<1> QED  BY <1>1, CopyInvariance, PTL
=============================================================================
