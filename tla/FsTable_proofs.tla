---------------------------- MODULE FsTable_proofs ----------------------------
(***************************************************************************)
(* Proofs about FsTable, for any keys, sizes, readers and limits.          *)
(*                                                                         *)
(* The invariant says of every object that its vector is sorted, that the  *)
(* readers counts are exact and that what a transaction reads is there.    *)
(* The last two need each other: a new fragment can be put over a reader's *)
(* range only where an element of it is, and that has its count.  Every    *)
(* action that changes a vector drops elements without readers and adds at *)
(* most one without them (ChangeKeeps), or counts a reader.  With sorted   *)
(* vectors the searches find what they should, a write gets what is        *)
(* missing, and the counts the table keeps are those of its contents.      *)
(***************************************************************************)
EXTENDS FsTable, SequenceTheorems, FiniteSetTheorems, WellFoundedInduction, TLAPS

-----------------------------------------------------------------------------
(* What the searches and changes of RangeVector do, for every vector.      *)

RangeElem == [beg : Nat, end : Nat, rd : Nat]
Bounds    == [beg : Nat, end : Nat]

\* A vector: elements that aren't empty, one after the other.
Vector(es) ==
    /\ es \in Seq(RangeElem)
    /\ \A i \in 1..Len(es) : es[i].beg < es[i].end
    /\ \A i, j \in 1..Len(es) : i < j => es[i].end <= es[j].beg

Less == OpToRel(<, Nat)

LEMMA LessIsLess ==
  /\ IsWellFoundedOn(Less, Nat)
  /\ \A x, y \in Nat : x < y => <<x, y>> \in Less
<1>1. IsWellFoundedOn(Less, Nat)
  BY NatLessThanWellFounded, Zenon DEF Less
<1>2. ASSUME NEW x \in Nat, NEW y \in Nat, x < y PROVE <<x, y>> \in Less
  <2>1. <<x, y>> \in Nat \X Nat /\ <<x, y>>[1] < <<x, y>>[2]
    BY <1>2
  <2> QED  BY <2>1, Zenon DEF Less, OpToRel
<1> QED  BY <1>1, <1>2

\* The least and the greatest member of a set are what Min and Max say.
LEMMA MinProperties ==
  ASSUME NEW S \in SUBSET Nat, S # {}
  PROVE  Min(S) \in S /\ \A x \in S : Min(S) <= x
<1>1. PICK m \in S : \A x \in S : ~(<<x, m>> \in Less)
  <2>1. IsWellFoundedOn(Less, Nat) /\ S \subseteq Nat /\ S # {}
    BY LessIsLess, Zenon
  <2> QED  BY <2>1, WFMin
<1>2. ASSUME NEW x \in S PROVE m <= x
  <2>1. m \in Nat /\ x \in Nat
    OBVIOUS
  <2>2. ~(x < m)
    BY <1>1, <2>1, LessIsLess, Zenon
  <2> QED  BY <2>1, <2>2
<1> QED  BY <1>2 DEF Min

LEMMA MaxProperties ==
  ASSUME NEW n \in Nat, NEW S \in SUBSET (0..n), S # {}
  PROVE  Max(S) \in S /\ \A x \in S : x <= Max(S)
<1> DEFINE T == {n - x : x \in S}
<1>1. T \in SUBSET Nat /\ T # {}
  <2>1. \A x \in S : n - x \in Nat
    OBVIOUS
  <2> QED  BY <2>1
<1>2. PICK m \in S : n - m = Min(T)
  BY <1>1, MinProperties
<1>3. \A x \in S : n - m <= n - x
  BY <1>1, <1>2, MinProperties
<1>4. \A x \in S : x <= m
  BY <1>3
<1> QED  BY <1>4 DEF Max

LEMMA LenOf ==
  ASSUME NEW es, Vector(es)
  PROVE  /\ Len(es) \in Nat /\ DOMAIN es = 1..Len(es)
         /\ \A i \in 1..Len(es) : /\ es[i] \in RangeElem
                                  /\ es[i].beg \in Nat /\ es[i].end \in Nat
                                  /\ es[i].rd \in Nat /\ es[i].beg < es[i].end
<1>1. es \in Seq(RangeElem) /\ \A i \in 1..Len(es) : es[i].beg < es[i].end
  BY DEF Vector
<1>2. Len(es) \in Nat /\ DOMAIN es = 1..Len(es)
  BY <1>1, LenProperties
<1>3. \A i \in 1..Len(es) : es[i] \in RangeElem
  BY <1>1, ElementOfSeq
<1> QED  BY <1>1, <1>2, <1>3 DEF RangeElem

\* The binary search splits the vector.
LEMMA LowerBoundSplits ==
  ASSUME NEW es, Vector(es), NEW beg \in Nat
  PROVE  /\ LowerBound(es, beg) \in 1..(Len(es) + 1)
         /\ \A i \in 1..Len(es) : i < LowerBound(es, beg) <=> es[i].beg < beg
<1> DEFINE S == {i \in DOMAIN es : es[i].beg >= beg} \cup {Len(es) + 1}
           m == Min(S)
<1>1. S \in SUBSET Nat /\ S # {} /\ S \subseteq 1..(Len(es) + 1)
  BY LenOf
<1>2. m \in S /\ \A x \in S : m <= x
  BY <1>1, MinProperties
<1>5. m \in 1..(Len(es) + 1) /\ Len(es) \in Nat
  BY <1>1, <1>2, LenOf
<1>6. m = LowerBound(es, beg)
  BY DEF LowerBound
<1> HIDE DEF m
<1>3. ASSUME NEW i \in 1..Len(es), i < m PROVE es[i].beg < beg
  <2>1. i \notin S
    BY <1>2, <1>3, <1>5
  <2>2. ~(es[i].beg >= beg)
    BY <2>1, LenOf
  <2> QED  BY <2>2, LenOf
<1>4. ASSUME NEW i \in 1..Len(es), m <= i PROVE ~(es[i].beg < beg)
  <2>1. m \in 1..Len(es) /\ es[m].beg >= beg
    BY <1>2, <1>4, <1>5, LenOf
  <2> QED  BY <1>4, <1>5, <2>1, LenOf, SMTT(60) DEF Vector
<1>7. \A i \in 1..Len(es) : i < m <=> es[i].beg < beg
  BY <1>3, <1>4, <1>5, LenOf
<1> QED  BY <1>5, <1>6, <1>7

\* With a member there is a least one, between the bounds of the set.
LEMMA MinBetween ==
  ASSUME NEW a \in Nat, NEW b \in Nat, NEW S \in SUBSET (a..b), S # {}
  PROVE  Min(S) \in S /\ Min(S) \in a..b /\ \A x \in S : Min(S) <= x
<1>1. S \in SUBSET Nat
  OBVIOUS
<1> QED  BY <1>1, MinProperties

-----------------------------------------------------------------------------
(* The searches.                                                           *)

Overlapping(es, r) == {i \in 1..Len(es) : Overlap(r, es[i])}

\* Where a search starts: what is before doesn't reach the range.
LEMMA FirstInStarts ==
  ASSUME NEW es, Vector(es), NEW r \in Bounds, r.beg < r.end
  PROVE  LET first == FirstIn(es, r)
         IN  /\ first \in 1..(Len(es) + 1)
             /\ \A i \in 1..Len(es) : i < first => ~Overlap(r, es[i]) \/ first = Len(es) + 1
             /\ first = Len(es) + 1 => \A i \in 1..Len(es) : es[i].beg < r.beg
             /\ first <= Len(es) => r.beg < es[first].end
<1> DEFINE lb == LowerBound(es, r.beg)
<1>1. r.beg \in Nat /\ r.end \in Nat
  BY DEF Bounds
<1>2. /\ lb \in 1..(Len(es) + 1)
      /\ \A i \in 1..Len(es) : i < lb <=> es[i].beg < r.beg
  BY <1>1, LowerBoundSplits
<1> HIDE DEF lb
<1>3. Len(es) \in Nat
  BY LenOf
<1>4. CASE lb \in 2..Len(es) /\ es[lb].beg > r.beg /\ r.beg < es[lb - 1].end
  <2>1. FirstIn(es, r) = lb - 1
    BY <1>4 DEF FirstIn, lb
  <2>2. lb - 1 \in 1..Len(es) /\ es[lb - 1].beg < r.beg
    BY <1>2, <1>3, <1>4
  <2>3. ASSUME NEW i \in 1..Len(es), i < lb - 1 PROVE ~Overlap(r, es[i])
    <3>1. es[i].end <= es[lb - 1].beg
      BY <2>2, <2>3 DEF Vector
    <3> QED  BY <1>1, <2>2, <3>1, LenOf DEF Overlap
  <2> QED  BY <1>3, <1>4, <2>1, <2>2, <2>3
<1>5. CASE ~(lb \in 2..Len(es) /\ es[lb].beg > r.beg /\ r.beg < es[lb - 1].end)
  <2>1. FirstIn(es, r) = lb
    BY <1>5 DEF FirstIn, lb
  <2>2. ASSUME lb <= Len(es), NEW i \in 1..Len(es), i < lb
        PROVE  ~Overlap(r, es[i])
    <3>1. lb \in 2..Len(es) /\ lb - 1 \in 1..Len(es)
      BY <1>2, <1>3, <2>2
    <3>2. es[lb].beg >= r.beg
      BY <1>2, <3>1, LenOf, <1>1
    <3>3. es[lb - 1].end <= r.beg
      <4>1. es[lb - 1].end <= es[lb].beg
        BY <3>1 DEF Vector
      <4> QED  BY <1>1, <1>5, <3>1, <3>2, <4>1, LenOf
    <3>4. es[i].end <= es[lb - 1].end
      <4>1. CASE i = lb - 1
        BY <3>1, <4>1, LenOf
      <4>2. CASE i < lb - 1
        BY <3>1, <4>2, LenOf, SMTT(60) DEF Vector
      <4> QED  BY <2>2, <3>1, <4>1, <4>2
    <3> QED  BY <1>1, <3>1, <3>3, <3>4, LenOf DEF Overlap
  <2>3. lb = Len(es) + 1 => \A i \in 1..Len(es) : es[i].beg < r.beg
    BY <1>2, <1>3
  <2>4. lb <= Len(es) => r.beg < es[lb].end
    BY <1>1, <1>2, <1>3, LenOf
  <2> QED  BY <1>2, <1>3, <2>1, <2>2, <2>3, <2>4
<1> QED  BY <1>4, <1>5

\* find_in_range returns what overlaps the range.
LEMMA FindInRangeFinds ==
  ASSUME NEW es, Vector(es), NEW r \in Bounds, r.beg < r.end
  PROVE  FindInRange(es, r) = Overlapping(es, r)
<1> DEFINE n     == Len(es)
           first == FirstIn(es, r)
           ends  == Reaching(es, r, first)
<1>1. r.beg \in Nat /\ r.end \in Nat /\ n \in Nat
  BY LenOf DEF Bounds
<1>2. /\ first \in 1..(n + 1)
      /\ \A i \in 1..n : i < first => ~Overlap(r, es[i]) \/ first = n + 1
      /\ first = n + 1 => \A i \in 1..n : es[i].beg < r.beg
      /\ first <= n => r.beg < es[first].end
  BY FirstInStarts
<1> HIDE DEF first
<1>3. CASE first > n
  <2>1. FindInRange(es, r) = {i \in {n} : n > 0 /\ es[n].beg <= r.beg /\ r.beg < es[n].end}
    BY <1>3 DEF FindInRange, first
  <2>2. ASSUME NEW i \in 1..n, i < n PROVE ~Overlap(r, es[i])
    <3>1. es[i].end <= es[n].beg /\ es[n].beg < r.beg
      BY <1>1, <1>2, <1>3, <2>2 DEF Vector
    <3> QED  BY <1>1, <2>2, <3>1, LenOf DEF Overlap
  <2>3. n > 0 => (Overlap(r, es[n]) <=> es[n].beg <= r.beg /\ r.beg < es[n].end)
    <3> SUFFICES ASSUME n > 0
                 PROVE  Overlap(r, es[n]) <=> es[n].beg <= r.beg /\ r.beg < es[n].end
      OBVIOUS
    <3>1. n \in 1..n /\ es[n].beg < r.beg
      BY <1>1, <1>2, <1>3
    <3> QED  BY <1>1, <3>1, LenOf DEF Overlap
  <2> QED  BY <1>1, <2>1, <2>2, <2>3 DEF Overlapping
<1>4. CASE first <= n /\ ~Overlap(r, es[first])
  <2>1. FindInRange(es, r) = {}
    BY <1>1, <1>2, <1>4 DEF FindInRange, first
  <2>2. first \in 1..n /\ r.end <= es[first].beg
    BY <1>1, <1>2, <1>4, LenOf DEF Overlap
  <2>3. ASSUME NEW i \in 1..n, i > first PROVE ~Overlap(r, es[i])
    <3>1. es[first].end <= es[i].beg /\ es[first].beg < es[first].end
      BY <2>2, <2>3 DEF Vector
    <3> QED  BY <1>1, <2>2, <3>1, LenOf DEF Overlap
  <2>4. \A i \in 1..n : i < first => ~Overlap(r, es[i])
    BY <1>1, <1>2, <1>4
  <2> QED  BY <1>1, <1>4, <2>1, <2>2, <2>3, <2>4 DEF Overlapping
<1>5. CASE first <= n /\ Overlap(r, es[first])
  <2> DEFINE last == LastIn(es, r, first)
  <2>1. FindInRange(es, r) = first..last
    BY <1>1, <1>2, <1>5 DEF FindInRange, first
  <2>2. first \in 1..n /\ \A i \in 1..n : i < first => ~Overlap(r, es[i])
    BY <1>1, <1>2, <1>5
  \* From first on, an element overlaps when it begins before the range's end.
  <2>3. ASSUME NEW i \in first..n PROVE Overlap(r, es[i]) <=> es[i].beg < r.end
    <3>1. i \in 1..n /\ r.beg < es[first].end
      BY <1>1, <1>2, <2>2
    <3>2. es[first].end <= es[i].end
      <4>1. CASE i = first
        BY <2>2, <4>1, LenOf
      <4>2. CASE i # first
        <5>1. es[first].end <= es[i].beg
          BY <2>2, <3>1, <4>2 DEF Vector
        <5> QED  BY <2>2, <3>1, <5>1, LenOf
      <4> QED  BY <4>1, <4>2
    <3> QED  BY <1>1, <2>2, <3>1, <3>2, LenOf DEF Overlap
  <2>4. CASE ends = {}
    <3>1. last = n
      BY <2>4 DEF LastIn
    <3>2. ASSUME NEW i \in first..n PROVE es[i].beg < r.end
      <4>1. i \in 1..n
        BY <1>1, <2>2
      <4>2. ~(es[i].end >= r.end)
        BY <2>4 DEF Reaching
      <4> QED  BY <1>1, <4>1, <4>2, LenOf
    <3> QED  BY <1>1, <2>1, <2>2, <2>3, <3>1, <3>2 DEF Overlapping
  <2>5. CASE ends # {}
    <3> DEFINE m == Min(ends)
    <3>1. m \in ends /\ m \in first..n /\ \A x \in ends : m <= x
      <4>1. ends \in SUBSET (first..n) /\ first \in Nat
        BY <1>2, <1>1 DEF Reaching
      <4> HIDE DEF ends
      <4> QED  BY <1>1, <2>5, <4>1, MinBetween
    <3>2. last = IF es[m].beg >= r.end THEN m - 1 ELSE m
      BY <2>5 DEF LastIn
    <3> HIDE DEF m
    <3>3. m \in 1..n /\ es[m].end >= r.end
      BY <1>1, <2>2, <3>1 DEF Reaching
    <3>4. ASSUME NEW i \in first..n, i < m PROVE es[i].beg < r.end
      <4>1. i \in 1..n
        BY <1>1, <2>2
      <4>2. ~(es[i].end >= r.end)
        BY <1>1, <2>2, <3>1, <3>4 DEF Reaching
      <4> QED  BY <1>1, <4>1, <4>2, LenOf
    <3>5. ASSUME NEW i \in first..n, i > m PROVE ~(es[i].beg < r.end)
      <4>1. i \in 1..n
        BY <1>1, <2>2
      <4>2. es[m].end <= es[i].beg
        BY <3>3, <3>5, <4>1 DEF Vector
      <4> QED  BY <1>1, <3>3, <4>1, <4>2, LenOf
    <3> HIDE DEF last
    <3>6. \A i \in first..n : es[i].beg < r.end <=> i <= last
      BY <1>1, <2>2, <3>1, <3>2, <3>3, <3>4, <3>5, LenOf
    <3>7. last <= n /\ last \in Int
      BY <1>1, <3>2, <3>3
    <3> QED  BY <1>1, <2>1, <2>2, <2>3, <3>6, <3>7 DEF Overlapping
  <2> QED  BY <2>4, <2>5
<1> QED  BY <1>1, <1>2, <1>3, <1>4, <1>5

\* x is a byte that the vector has, and all of r's are.
Held(es, x)    == \E i \in 1..Len(es) : es[i].beg <= x /\ x < es[i].end
Complete(es, r) == \A x \in r.beg .. (r.end - 1) : Held(es, x)

\* Elements without a hole between them hold all the bytes between them.
LEMMA NoHoleHolds ==
  ASSUME NEW es, Vector(es), NEW a \in 1..Len(es), NEW b \in a..Len(es),
         Holes(es, a..b) = {}, NEW x \in Nat, es[a].beg <= x, x < es[b].end
  PROVE  Held(es, x)
<1> DEFINE S == {i \in a..b : es[i].beg <= x}
           m == Max(S)
<1>1. /\ Len(es) \in Nat /\ a \in Nat /\ b \in Nat
      /\ a \in S /\ S \in SUBSET (0..b)
  BY LenOf
<1>2. m \in S /\ \A i \in S : i <= m
  <2>1. S # {}
    BY <1>1
  <2> HIDE DEF S
  <2> QED  BY <1>1, <2>1, MaxProperties
<1> HIDE DEF m
<1>3. m \in a..b /\ es[m].beg <= x /\ m \in 1..Len(es)
  BY <1>1, <1>2
<1>4. CASE m = b
  BY <1>3, <1>4 DEF Held
<1>5. CASE m # b
  <2>1. m + 1 \in a..b /\ m + 1 \in 1..Len(es) /\ m + 1 \notin S
    BY <1>1, <1>2, <1>3, <1>5
  <2>2. ~(es[m + 1].beg <= x)
    BY <2>1
  <2>3. ~(es[m].end < es[m + 1].beg)
    BY <1>3, <2>1 DEF Holes
  <2>4. x < es[m].end
    BY <1>3, <2>1, <2>2, <2>3, LenOf
  <2> QED  BY <1>3, <2>4 DEF Held
<1> QED  BY <1>4, <1>5

\* find_full_range returns what overlaps the range when all of it is there, and
\* nothing otherwise.
LEMMA FindFullRangeFinds ==
  ASSUME NEW es, Vector(es), NEW r \in Bounds, r.beg < r.end
  PROVE  FindFullRange(es, r) =
            IF Complete(es, r) THEN Overlapping(es, r) ELSE {}
<1> DEFINE n     == Len(es)
           lb    == LowerBound(es, r.beg)
           first == FirstFull(es, r)
           ends  == {i \in first..n : es[i].end >= r.end}
           found == first..Min(ends)
<1>1. r.beg \in Nat /\ r.end \in Nat /\ n \in Nat
      /\ r.beg \in r.beg..(r.end - 1) /\ r.end - 1 \in r.beg..(r.end - 1)
  BY LenOf DEF Bounds
<1>2. /\ lb \in 1..(n + 1)
      /\ \A i \in 1..n : i < lb <=> es[i].beg < r.beg
  BY <1>1, LowerBoundSplits
<1> HIDE DEF lb
<1>3. first = IF lb \in 2..n /\ es[lb].beg > r.beg THEN lb - 1 ELSE lb
  BY DEF FirstFull, lb
<1>4. first \in 1..(n + 1)
  BY <1>1, <1>2, <1>3
<1> HIDE DEF first
<1>5. CASE first > n
  <2>1. FindFullRange(es, r) = {i \in {n} : n > 0 /\ Inside(r, es[n])}
    BY <1>5 DEF FindFullRange, first
  <2>2. \A i \in 1..n : es[i].beg < r.beg
    BY <1>1, <1>2, <1>3, <1>5
  <2>3. ASSUME NEW i \in 1..n, i < n PROVE es[i].end < r.beg
    <3>1. es[i].end <= es[n].beg /\ n \in 1..n
      BY <1>1, <2>3 DEF Vector
    <3> QED  BY <1>1, <2>2, <3>1, LenOf
  <2>4. CASE n > 0 /\ Inside(r, es[n])
    <3>1. n \in 1..n /\ es[n].beg <= r.beg /\ r.end <= es[n].end
      BY <1>1, <2>4 DEF Inside
    <3>2. Complete(es, r)
      BY <1>1, <3>1, LenOf DEF Complete, Held
    <3>3. \A i \in 1..n : Overlap(r, es[i]) <=> i = n
      BY <1>1, <2>3, <3>1, LenOf, SMTT(60) DEF Overlap
    <3> QED  BY <1>1, <2>1, <2>4, <3>1, <3>2, <3>3 DEF Overlapping
  <2>5. CASE n = 0
    <3>1. ~Held(es, r.beg)
      BY <2>5 DEF Held
    <3> QED  BY <1>1, <2>1, <2>5, <3>1 DEF Complete
  <2>6. CASE n > 0 /\ ~Inside(r, es[n])
    <3>1. n \in 1..n /\ es[n].end < r.end
      BY <1>1, <2>2, <2>6, LenOf DEF Inside
    <3> DEFINE x == IF es[n].end <= r.beg THEN r.beg ELSE es[n].end
    <3>2. x \in r.beg..(r.end - 1) /\ ~(x < es[n].end)
      BY <1>1, <3>1, LenOf
    <3>3. ~Held(es, x)
      <4> SUFFICES ASSUME NEW i \in 1..n, x < es[i].end PROVE FALSE
        BY DEF Held
      <4>1. CASE i = n
        BY <3>2, <4>1
      <4>2. CASE i < n
        BY <1>1, <2>3, <3>2, <4>2, LenOf
      <4> QED  BY <1>1, <4>1, <4>2
    <3>4. ~Complete(es, r)
      BY <3>2, <3>3 DEF Complete
    <3>5. FindFullRange(es, r) = {}
      BY <2>1, <2>6
    <3> QED  BY <3>4, <3>5
  <2> QED  BY <1>1, <2>4, <2>5, <2>6
<1>6. CASE first <= n
  <2> DEFINE ok == /\ es[first].beg <= r.beg /\ r.beg < es[first].end
                   /\ ends # {} /\ Holes(es, found) = {}
  <2>1. FindFullRange(es, r) = IF ok THEN found ELSE {}
    BY <1>1, <1>4, <1>6 DEF FindFullRange, first
  <2>2. first \in 1..n
    BY <1>1, <1>4, <1>6
  \* What begins before first ends before it does.
  <2>3. ASSUME NEW i \in 1..n, i < first PROVE es[i].end <= es[first].beg
    BY <2>2, <2>3 DEF Vector
  <2>4. ASSUME NEW i \in 1..n, i > first PROVE es[first].end <= es[i].beg
    BY <2>2, <2>4 DEF Vector
  <2>5. ends \in SUBSET (first..n) /\ first \in Nat
    BY <1>1, <1>4
  <2>6. ends # {} => /\ Min(ends) \in ends /\ Min(ends) \in first..n
                     /\ \A x \in ends : Min(ends) <= x
    <3> HIDE DEF ends
    <3> QED  BY <1>1, <2>5, MinBetween
  <2> DEFINE m == Min(ends)
  <2>7. found = first..m
    OBVIOUS
  <2> HIDE DEF m, found
  <2>8. CASE ok
    <3>5. /\ es[first].beg <= r.beg /\ r.beg < es[first].end /\ first..m = found
          /\ Holes(es, first..m) = {}
      BY <2>7, <2>8
    <3>1. m \in first..n /\ m \in 1..n /\ es[m].end >= r.end
      BY <1>1, <2>2, <2>6, <2>8 DEF m
    <3>2. ASSUME NEW i \in first..n, i < m PROVE es[i].end < r.end /\ i \in 1..n
      <4>2. i \in 1..n
        BY <1>1, <2>2
      <4>3. ~(es[i].end >= r.end)
        <5>1. i \notin ends
          <6>1. i \in Nat /\ m \in Nat
            BY <1>1, <2>2, <3>1
          <6>2. i \in ends => m <= i
            BY <2>6, <2>8 DEF m
          <6> QED  BY <3>2, <6>1, <6>2
        <5> QED  BY <5>1
      <4>1. i \in 1..n /\ ~(es[i].end >= r.end)
        BY <4>2, <4>3
      <4> QED  BY <1>1, <4>1, LenOf
    <3>3. Complete(es, r)
      <4> SUFFICES ASSUME NEW x \in r.beg..(r.end - 1) PROVE Held(es, x)
        BY DEF Complete
      <4>1. x \in Nat /\ es[first].beg <= x /\ x < es[m].end
        BY <1>1, <2>2, <3>5, <3>1, LenOf, SMTT(60)
      <4> QED  BY <2>2, <3>5, <3>1, <4>1, NoHoleHolds
    <3>4. ASSUME NEW i \in 1..n PROVE Overlap(r, es[i]) <=> i \in first..m
      <4>1. CASE i < first
        BY <1>1, <2>2, <2>3, <2>8, <4>1, LenOf DEF Overlap
      <4>2. CASE i > m
        <5>1. es[m].end <= es[i].beg
          BY <3>1, <4>2 DEF Vector
        <5> QED  BY <1>1, <2>2, <3>1, <4>2, <5>1, LenOf DEF Overlap
      <4>3. CASE i = first
        BY <1>1, <2>2, <2>8, <3>1, <4>3, LenOf, SMTT(60) DEF Overlap
      <4>4. CASE i > first /\ i <= m
        <5>1. r.beg < es[i].end
          <6>1. es[first].end <= es[i].beg
            BY <2>4, <4>4
          <6> QED  BY <1>1, <2>2, <3>5, <6>1, LenOf
        <5>2. i - 1 \in first..n /\ i - 1 < m /\ i - 1 \in 1..n
          BY <1>1, <2>2, <3>1, <4>4
        <5>3. es[i - 1].end < r.end
          BY <3>2, <5>2
        <5>4. ~(es[i - 1].end < es[i].beg)
          <6>1. i - 1 \in first..m /\ (i - 1) + 1 \in first..m /\ (i - 1) + 1 = i
            BY <1>1, <2>2, <3>1, <4>4
          <6> QED  BY <3>5, <6>1 DEF Holes
        <5>5. es[i].beg < r.end
          BY <1>1, <5>2, <5>3, <5>4, LenOf
        <5> QED  BY <2>2, <3>1, <4>4, <5>1, <5>5 DEF Overlap
      <4> QED  BY <1>1, <2>2, <3>1, <4>1, <4>2, <4>3, <4>4
    <3>6. Overlapping(es, r) = first..m
      BY <1>1, <2>2, <3>1, <3>4 DEF Overlapping
    <3> QED  BY <2>1, <2>7, <2>8, <3>3, <3>6
  <2>9. CASE ~ok
    <3>1. CASE r.beg < es[first].beg
      <4>1. first = 1
        BY <1>1, <1>2, <1>3, <2>2, <3>1, LenOf
      <4>2. ~Held(es, r.beg)
        BY <1>1, <2>2, <2>4, <3>1, <4>1, LenOf DEF Held
      <4> QED  BY <1>1, <2>1, <2>9, <4>2 DEF Complete
    <3>2. CASE es[first].beg <= r.beg /\ es[first].end <= r.beg
      <4>1. lb \in 2..n /\ es[lb].beg > r.beg /\ first = lb - 1
        BY <1>1, <1>2, <1>3, <2>2, <3>2, LenOf
      <4>2. ASSUME NEW i \in 1..n, i > first PROVE r.beg < es[i].beg
        <5>1. i = lb \/ (i > lb /\ es[lb].end <= es[i].beg)
          BY <4>1, <4>2 DEF Vector
        <5> QED  BY <1>1, <4>1, <5>1, LenOf, SMTT(60)
      <4>3. ~Held(es, r.beg)
        BY <1>1, <2>2, <2>3, <3>2, <4>2, LenOf DEF Held
      <4> QED  BY <1>1, <2>1, <2>9, <4>3 DEF Complete
    <3>3. CASE es[first].beg <= r.beg /\ ends = {}
      <4>1. \A i \in 1..n : es[i].end < r.end
        BY <1>1, <2>2, <2>3, <3>3, LenOf
      <4>2. ~Held(es, r.end - 1)
        BY <1>1, <4>1, LenOf DEF Held
      <4> QED  BY <1>1, <2>1, <2>9, <4>2 DEF Complete
    <3>4. CASE es[first].beg <= r.beg /\ r.beg < es[first].end /\ ends # {}
      <4>1. m \in first..n /\ m \in 1..n
        BY <1>1, <2>2, <2>6, <3>4 DEF m
      <4>2. PICK i \in first..m : i + 1 \in first..m /\ es[i].end < es[i + 1].beg
        BY <2>7, <2>9, <3>4 DEF Holes
      <4>3. i \in 1..n /\ i + 1 \in 1..n /\ i < m
        BY <1>1, <2>2, <4>1, <4>2
      <4>4. es[i].end < r.end
        <5>1. ~(es[i].end >= r.end)
          BY <1>1, <2>2, <2>6, <3>4, <4>1, <4>2, <4>3 DEF m
        <5> QED  BY <1>1, <4>3, <5>1, LenOf
      <4>5. r.beg < es[i].end
        <5>1. i = first \/ (i > first /\ es[first].end <= es[i].beg)
          BY <1>1, <2>2, <2>4, <4>1, <4>3
        <5> QED  BY <1>1, <2>2, <3>4, <4>3, <5>1, LenOf, SMTT(60)
      <4>6. ASSUME NEW j \in 1..n PROVE ~(es[j].beg <= es[i].end /\ es[i].end < es[j].end)
        <5>1. CASE j = i
          BY <4>3, <5>1, LenOf
        <5>2. CASE j < i
          <6>1. es[j].end <= es[i].beg
            BY <4>3, <5>2 DEF Vector
          <6> QED  BY <4>3, <6>1, LenOf
        <5>3. CASE j = i + 1
          BY <4>2, <4>3, <5>3, LenOf
        <5>4. CASE j > i + 1
          <6>1. es[i + 1].end <= es[j].beg
            BY <4>3, <5>4 DEF Vector
          <6> QED  BY <4>2, <4>3, <6>1, LenOf
        <5> QED  BY <1>1, <4>3, <5>1, <5>2, <5>3, <5>4
      <4>7. ~Held(es, es[i].end) /\ es[i].end \in r.beg..(r.end - 1)
        BY <1>1, <4>3, <4>4, <4>5, <4>6, LenOf DEF Held
      <4> QED  BY <2>1, <2>9, <4>7 DEF Complete
    <3> QED  BY <1>1, <2>2, <2>9, <3>1, <3>2, <3>3, <3>4, LenOf
  <2> QED  BY <2>8, <2>9
<1> QED  BY <1>1, <1>4, <1>5, <1>6

-----------------------------------------------------------------------------
(* trim_overlaps: what a write transaction gets of the range it asks for.  *)

\* What of a range the vector does not have.
Lacks(es, r) == {x \in r.beg .. (r.end - 1) : ~Held(es, x)}

\* What overlaps a range are the elements from the first to the last that do.
LEMMA OverlappingAre ==
  ASSUME NEW es, Vector(es), NEW r \in Bounds, r.beg < r.end, Overlapping(es, r) # {}
  PROVE  LET a == Min(Overlapping(es, r))
             b == Max(Overlapping(es, r))
         IN  /\ a \in 1..Len(es) /\ b \in a..Len(es) /\ Overlapping(es, r) = a..b
             /\ es[a].beg < r.end /\ r.beg < es[a].end
             /\ es[b].beg < r.end /\ r.beg < es[b].end
<1> DEFINE O == Overlapping(es, r)
           a == Min(O)
           b == Max(O)
<1>1. /\ Len(es) \in Nat /\ O \in SUBSET (1..Len(es)) /\ O # {}
      /\ r.beg \in Nat /\ r.end \in Nat
  BY LenOf DEF Overlapping, Bounds
<1>2. a \in O /\ \A i \in O : a <= i
  <2> HIDE DEF O
  <2> QED  BY <1>1, MinBetween
<1>3. b \in O /\ \A i \in O : i <= b
  <2>1. O \in SUBSET (0..Len(es))
    BY <1>1
  <2> HIDE DEF O
  <2> QED  BY <1>1, <2>1, MaxProperties
<1>4. /\ es[a].beg < r.end /\ r.beg < es[a].end
      /\ es[b].beg < r.end /\ r.beg < es[b].end
  <2> HIDE DEF a, b
  <2> QED  BY <1>2, <1>3 DEF Overlapping, Overlap
<1> HIDE DEF a, b, O
<1>5. a \in 1..Len(es) /\ b \in a..Len(es)
  BY <1>1, <1>2, <1>3
<1>6. ASSUME NEW i \in a..b PROVE i \in O
  <2>1. i \in 1..Len(es)
    BY <1>1, <1>5
  <2>2. r.beg < es[i].end
    <3>1. CASE i = a
      BY <1>4, <3>1
    <3>2. CASE a < i
      <4>1. es[a].end <= es[i].beg
        BY <1>5, <2>1, <3>2 DEF Vector
      <4> QED  BY <1>1, <1>4, <1>5, <2>1, <4>1, LenOf
    <3> QED  BY <1>1, <1>5, <3>1, <3>2
  <2>3. es[i].beg < r.end
    <3>1. CASE i = b
      BY <1>4, <3>1
    <3>2. CASE i < b
      <4>1. es[i].end <= es[b].beg
        BY <1>1, <1>5, <2>1, <3>2 DEF Vector
      <4> QED  BY <1>1, <1>4, <1>5, <2>1, <4>1, LenOf
    <3> QED  BY <1>1, <1>5, <3>1, <3>2
  <2> QED  BY <2>1, <2>2, <2>3 DEF Overlapping, Overlap, O
<1>7. O = a..b
  <2>1. \A i \in O : i \in a..b
    BY <1>1, <1>2, <1>3, <1>5
  <2> QED  BY <1>6, <2>1
<1> QED  BY <1>4, <1>5, <1>7 DEF a, b, O

\* A missing byte is in no element that overlaps the range, and what is in none
\* of them is missing.
LEMMA LacksWhatNoneHas ==
  ASSUME NEW es, Vector(es), NEW r \in Bounds, r.beg < r.end,
         NEW x \in r.beg .. (r.end - 1)
  PROVE  x \in Lacks(es, r) <=>
            \A i \in Overlapping(es, r) : x < es[i].beg \/ es[i].end <= x
<1>1. r.beg \in Nat /\ r.end \in Nat /\ x \in Nat /\ r.beg <= x /\ x < r.end
  BY DEF Bounds
<1>2. ASSUME NEW i \in 1..Len(es), es[i].beg <= x, x < es[i].end
      PROVE  i \in Overlapping(es, r)
  BY <1>1, <1>2, LenOf DEF Overlapping, Overlap
<1>3. \A i \in 1..Len(es) : (x < es[i].beg \/ es[i].end <= x) <=>
                              ~(es[i].beg <= x /\ x < es[i].end)
  BY <1>1, LenOf
<1> QED  BY <1>2, <1>3 DEF Lacks, Held, Overlapping

\* Where an element without a hole before it ends is where the range begins to
\* be missing, if it is still in the range and the next element is not there.
LEMMA FirstLacking ==
  ASSUME NEW es, Vector(es), NEW r \in Bounds, r.beg < r.end,
         NEW a \in 1..Len(es), NEW b \in a..Len(es), Overlapping(es, r) = a..b,
         es[a].beg <= r.beg,
         NEW h \in a..b, Holes(es, a..h) = {}, es[h].end < r.end, r.beg < es[h].end,
         h < b => es[h].end < es[h + 1].beg
  PROVE  es[h].end \in Lacks(es, r) /\ \A x \in Lacks(es, r) : es[h].end <= x
<1>1. /\ r.beg \in Nat /\ r.end \in Nat /\ Len(es) \in Nat
      /\ \A i \in 1..Len(es) : es[i].beg \in Nat /\ es[i].end \in Nat /\ es[i].beg < es[i].end
      /\ h \in 1..Len(es)
  BY LenOf DEF Bounds
<1>2. es[h].end \in r.beg .. (r.end - 1)
  BY <1>1
<1>3. ASSUME NEW i \in a..b PROVE es[h].end < es[i].beg \/ es[i].end <= es[h].end
  <2>1. i \in 1..Len(es)
    BY <1>1
  <2>2. CASE i = h
    BY <1>1, <2>2
  <2>3. CASE i < h
    <3>1. es[i].end <= es[h].beg
      BY <1>1, <2>1, <2>3 DEF Vector
    <3> QED  BY <1>1, <2>1, <3>1
  <2>4. CASE i = h + 1
    BY <1>1, <2>1, <2>4
  <2>5. CASE h + 1 < i
    <3>1. h + 1 \in 1..Len(es) /\ h < b
      BY <1>1, <2>1, <2>5
    <3>2. es[h + 1].end <= es[i].beg
      BY <2>1, <2>5, <3>1 DEF Vector
    <3>3. /\ es[h + 1].beg \in Nat /\ es[h + 1].end \in Nat
          /\ es[h + 1].beg < es[h + 1].end /\ es[h].end < es[h + 1].beg
      BY <1>1, <3>1
    <3>4. es[h].end \in Nat /\ es[i].beg \in Nat
      BY <1>1, <2>1
    <3> DEFINE n == es[h + 1]
    <3>5. /\ n.beg \in Nat /\ n.end \in Nat /\ n.beg < n.end
          /\ n.end <= es[i].beg /\ es[h].end < n.beg
      BY <3>2, <3>3
    <3> HIDE DEF n
    <3> QED  BY <3>4, <3>5
  <2> QED  BY <1>1, <2>1, <2>2, <2>3, <2>4, <2>5
<1>4. es[h].end \in Lacks(es, r)
  BY <1>2, <1>3, LacksWhatNoneHas
<1>5. ASSUME NEW x \in Lacks(es, r), x < es[h].end PROVE FALSE
  <2>1. x \in Nat /\ r.beg <= x /\ ~Held(es, x)
    BY <1>1 DEF Lacks
  <2>2. es[a].beg <= x /\ h \in a..Len(es)
    BY <1>1, <2>1
  <2> QED  BY <1>5, <2>1, <2>2, NoHoleHolds
<1>6. \A x \in Lacks(es, r) : x \in Nat
  BY <1>1 DEF Lacks
<1> QED  BY <1>1, <1>4, <1>5, <1>6

\* The same at the end of the range.
LEMMA LastLacking ==
  ASSUME NEW es, Vector(es), NEW r \in Bounds, r.beg < r.end,
         NEW a \in 1..Len(es), NEW b \in a..Len(es), Overlapping(es, r) = a..b,
         r.end <= es[b].end,
         NEW h \in a..b, Holes(es, h..b) = {}, r.beg < es[h].beg, es[h].beg < r.end,
         a < h => es[h - 1].end < es[h].beg
  PROVE  es[h].beg - 1 \in Lacks(es, r) /\ \A x \in Lacks(es, r) : x < es[h].beg
<1>1. /\ r.beg \in Nat /\ r.end \in Nat /\ Len(es) \in Nat
      /\ \A i \in 1..Len(es) : es[i].beg \in Nat /\ es[i].end \in Nat /\ es[i].beg < es[i].end
      /\ h \in 1..Len(es) /\ b \in 1..Len(es)
  BY LenOf DEF Bounds
<1> DEFINE y == es[h].beg - 1
<1>2. y \in r.beg .. (r.end - 1) /\ y \in Nat
  BY <1>1
<1>3. ASSUME NEW i \in a..b PROVE y < es[i].beg \/ es[i].end <= y
  <2>1. i \in 1..Len(es)
    BY <1>1
  <2>2. CASE i = h
    BY <1>1, <2>2
  <2>3. CASE h < i
    <3>1. es[h].end <= es[i].beg
      BY <1>1, <2>1, <2>3 DEF Vector
    <3> QED  BY <1>1, <2>1, <3>1
  <2>4. CASE i = h - 1
    BY <1>1, <2>1, <2>4
  <2>5. CASE i < h - 1
    <3>1. h - 1 \in 1..Len(es) /\ a < h
      BY <1>1, <2>1, <2>5
    <3>2. es[i].end <= es[h - 1].beg
      BY <2>1, <2>5, <3>1 DEF Vector
    <3>3. /\ es[h - 1].beg \in Nat /\ es[h - 1].end \in Nat
          /\ es[h - 1].beg < es[h - 1].end /\ es[h - 1].end < es[h].beg
      BY <1>1, <3>1
    <3>4. es[i].end \in Nat /\ es[h].beg \in Nat
      BY <1>1, <2>1
    <3>5. es[i].end < es[h].beg
      BY <3>2, <3>3, <3>4
    <3> QED  BY <3>4, <3>5
  <2> QED  BY <1>1, <2>1, <2>2, <2>3, <2>4, <2>5
<1>4. y \in Lacks(es, r)
  <2> HIDE DEF y
  <2> QED  BY <1>2, <1>3, LacksWhatNoneHas
<1>5. ASSUME NEW x \in Lacks(es, r), es[h].beg <= x PROVE FALSE
  <2>1. x \in Nat /\ x < r.end /\ ~Held(es, x)
    BY <1>1 DEF Lacks
  <2>2. x < es[b].end /\ b \in h..Len(es)
    BY <1>1, <2>1
  <2> QED  BY <1>1, <1>5, <2>1, <2>2, NoHoleHolds
<1>6. \A x \in Lacks(es, r) : x \in Nat
  BY <1>1 DEF Lacks
<1> QED  BY <1>1, <1>4, <1>5, <1>6

LEMMA LeastIs ==
  ASSUME NEW S \in SUBSET Nat, NEW m \in S, \A x \in S : m <= x
  PROVE  Min(S) = m
<1>1. Min(S) \in S /\ \A x \in S : Min(S) <= x
  BY MinProperties
<1>2. Min(S) \in Nat /\ m \in Nat /\ Min(S) <= m /\ m <= Min(S)
  BY <1>1
<1> QED  BY <1>2

LEMMA GreatestIs ==
  ASSUME NEW n \in Nat, NEW S \in SUBSET (0..n), NEW m \in S, \A x \in S : x <= m
  PROVE  Max(S) = m
<1>1. Max(S) \in S /\ \A x \in S : x <= Max(S)
  BY MaxProperties
<1>2. \A x \in S : x \in Nat
  OBVIOUS
<1>3. Max(S) \in Nat /\ m \in Nat /\ Max(S) <= m /\ m <= Max(S)
  BY <1>1, <1>2
<1> QED  BY <1>3

LEMMA LessOf ==
  ASSUME NEW x \in Nat, NEW y \in Nat
  PROVE  Min({x, y}) = IF x <= y THEN x ELSE y
<1>1. CASE x <= y
  BY <1>1, LeastIs
<1>2. CASE ~(x <= y)
  BY <1>2, LeastIs
<1> QED  BY <1>1, <1>2

\* The two loops of trim_overlaps, from the front and from the back.
LEMMA TrimBegTrims ==
  ASSUME NEW es, Vector(es), NEW r \in Bounds, r.beg < r.end, Overlapping(es, r) # {}
  PROVE  LET beg  == TrimBeg(es, r, Overlapping(es, r))
             miss == Lacks(es, r)
         IN  IF miss = {} THEN beg = r.end
             ELSE beg \in miss /\ \A x \in miss : beg <= x
<1> DEFINE O == Overlapping(es, r)
           a == Min(O)
           b == Max(O)
           holes == Holes(es, O)
           beg == TrimBeg(es, r, O)
           miss == Lacks(es, r)
<1>1. /\ a \in 1..Len(es) /\ b \in a..Len(es) /\ O = a..b
      /\ es[a].beg < r.end /\ r.beg < es[a].end
      /\ es[b].beg < r.end /\ r.beg < es[b].end
  BY OverlappingAre
<1>2. /\ r.beg \in Nat /\ r.end \in Nat /\ Len(es) \in Nat
      /\ \A i \in 1..Len(es) : es[i].beg \in Nat /\ es[i].end \in Nat /\ es[i].beg < es[i].end
      /\ b \in 1..Len(es)
  <2> HIDE DEF a, b, O
  <2> QED  BY <1>1, LenOf DEF Bounds
<1>3. /\ beg = IF es[a].beg > r.beg THEN r.beg
               ELSE Min({es[IF holes = {} THEN b ELSE Min(holes)].end, r.end})
      /\ holes = Holes(es, a..b) /\ Overlapping(es, r) = a..b
  BY <1>1 DEF TrimBeg
<1>4. \A x \in miss : x \in Nat /\ r.beg <= x
  BY <1>2 DEF Lacks
<1> HIDE DEF a, b, O, holes, beg
<1>5. CASE es[a].beg > r.beg
  <2>1. ASSUME NEW i \in a..b PROVE r.beg < es[i].beg
    <3>1. i \in 1..Len(es)
      BY <1>1, <1>2
    <3>2. CASE i = a
      BY <1>5, <3>2
    <3>3. CASE a < i
      <4>1. es[a].end <= es[i].beg
        BY <1>1, <3>1, <3>3 DEF Vector
      <4> QED  BY <1>1, <1>2, <3>1, <4>1
    <3> QED  BY <1>1, <1>2, <3>1, <3>2, <3>3
  <2>2. r.beg \in r.beg..(r.end - 1)
    BY <1>2
  <2>3. r.beg \in miss
    BY <1>3, <2>1, <2>2, LacksWhatNoneHas
  <2>4. beg = r.beg
    BY <1>3, <1>5
  <2> HIDE DEF miss
  <2> QED  BY <1>4, <2>3, <2>4 DEF beg, O, miss
<1>6. CASE es[a].beg <= r.beg /\ holes = {} /\ r.end <= es[b].end
  <2>1. ASSUME NEW x \in miss PROVE FALSE
    <3>1. x \in Nat /\ r.beg <= x /\ x < r.end /\ ~Held(es, x)
      BY <1>2 DEF Lacks
    <3>2. es[a].beg <= x /\ x < es[b].end
      BY <1>1, <1>2, <1>6, <3>1
    <3> QED  BY <1>1, <1>3, <1>6, <3>1, <3>2, NoHoleHolds
  <2>2. ~(es[a].beg > r.beg)
    BY <1>1, <1>2, <1>6
  <2>3. beg = Min({es[b].end, r.end})
    BY <1>3, <1>6, <2>2
  <2>4. beg = r.end
    <3>1. es[b].end \in Nat
      BY <1>2
    <3>2. CASE es[b].end <= r.end
      BY <1>2, <1>6, <2>3, <3>1, <3>2, LessOf
    <3>3. CASE ~(es[b].end <= r.end)
      BY <1>2, <2>3, <3>1, <3>3, LessOf
    <3> QED  BY <3>2, <3>3
  <2>5. miss = {}
    BY <2>1
  <2> QED  BY <2>4, <2>5 DEF beg, O
<1>7. ASSUME es[a].beg <= r.beg, NEW h \in a..b, Holes(es, a..h) = {},
             es[h].end < r.end, r.beg < es[h].end,
             h < b => es[h].end < es[h + 1].beg,
             h = IF holes = {} THEN b ELSE Min(holes)
      PROVE  IF miss = {} THEN beg = r.end
             ELSE beg \in miss /\ \A x \in miss : beg <= x
  <2>1. h \in 1..Len(es) /\ ~(es[a].beg > r.beg)
    BY <1>1, <1>2, <1>7
  <2>2. beg = Min({es[h].end, r.end})
    BY <1>3, <1>7, <2>1
  <2>3. beg = es[h].end
    <3>1. es[h].end \in Nat /\ es[h].end <= r.end
      BY <1>2, <1>7, <2>1
    <3> QED  BY <1>2, <2>2, <3>1, LessOf
  <2>4. es[h].end \in miss /\ \A x \in miss : es[h].end <= x
    BY <1>1, <1>3, <1>7, FirstLacking
  <2> QED  BY <2>3, <2>4
<1>8. CASE es[a].beg <= r.beg /\ holes = {} /\ es[b].end < r.end
  <2>1. b \in a..b
    BY <1>1, <1>2
  <2>2. ~(b < b)
    BY <1>2
  <2> QED  BY <1>1, <1>3, <1>7, <1>8, <2>1, <2>2 DEF beg, O
<1>9. CASE es[a].beg <= r.beg /\ holes # {}
  <2> DEFINE h == Min(holes)
  <2>1. h \in holes /\ \A i \in holes : h <= i
    <3>1. holes \in SUBSET (a..b)
      BY <1>3 DEF Holes
    <3>2. a \in Nat /\ b \in Nat
      BY <1>1, <1>2
    <3> QED  BY <1>9, <3>1, <3>2, MinBetween
  <2> HIDE DEF h
  <2>2. h \in a..b /\ h + 1 \in a..b /\ es[h].end < es[h + 1].beg
    BY <1>3, <2>1 DEF Holes
  <2>3. h \in 1..Len(es) /\ h + 1 \in 1..Len(es) /\ h < b
    BY <1>1, <1>2, <2>2
  <2>4. Holes(es, a..h) = {}
    <3> SUFFICES ASSUME NEW i \in a..h, i + 1 \in a..h, es[i].end < es[i + 1].beg
                 PROVE  FALSE
      BY DEF Holes
    <3>1. i \in a..b /\ i + 1 \in a..b /\ i < h
      BY <1>1, <1>2, <2>3
    <3>2. i \in holes
      BY <1>3, <3>1 DEF Holes
    <3> QED  BY <1>1, <1>2, <2>1, <2>3, <3>1, <3>2
  <2>5. r.beg < es[h].end
    <3>1. CASE h = a
      BY <1>1, <3>1
    <3>2. CASE a < h
      <4>1. es[a].end <= es[h].beg
        BY <1>1, <2>3, <3>2 DEF Vector
      <4> QED  BY <1>1, <1>2, <2>3, <4>1
    <3> QED  BY <1>1, <1>2, <2>2, <2>3, <3>1, <3>2
  <2>6. es[h + 1].beg < r.end
    <3>1. h + 1 \in Overlapping(es, r)
      BY <1>3, <2>2
    <3> QED  BY <3>1 DEF Overlapping, Overlap
  <2>7. es[h].end < r.end
    BY <1>2, <2>2, <2>3, <2>6
  <2>8. h = IF holes = {} THEN b ELSE Min(holes)
    BY <1>9 DEF h
  <2> QED  BY <1>7, <1>9, <2>2, <2>4, <2>5, <2>7, <2>8 DEF beg, O
<1>10. es[a].beg <= r.beg \/ es[a].beg > r.beg
  BY <1>1, <1>2
<1>11. es[b].end < r.end \/ r.end <= es[b].end
  BY <1>2
<1> QED  BY <1>5, <1>6, <1>8, <1>9, <1>10, <1>11 DEF beg, O

LEMMA TrimEndTrims ==
  ASSUME NEW es, Vector(es), NEW r \in Bounds, r.beg < r.end, Overlapping(es, r) # {},
         Lacks(es, r) # {}
  PROVE  LET O     == Overlapping(es, r)
             holes == Holes(es, O)
             rest  == IF es[Min(O)].beg > r.beg THEN O
                      ELSE {i \in O : holes # {} /\ i >= Min(holes)}
             end   == TrimEnd(es, r, rest)
             miss  == Lacks(es, r)
         IN  end \in Nat /\ end - 1 \in miss /\ \A x \in miss : x < end
<1> DEFINE O == Overlapping(es, r)
           a == Min(O)
           b == Max(O)
           holes == Holes(es, O)
           rest == IF es[Min(O)].beg > r.beg THEN O
                   ELSE {i \in O : holes # {} /\ i >= Min(holes)}
           end == TrimEnd(es, r, rest)
           miss == Lacks(es, r)
<1>1. /\ a \in 1..Len(es) /\ b \in a..Len(es) /\ O = a..b
      /\ es[a].beg < r.end /\ r.beg < es[a].end
      /\ es[b].beg < r.end /\ r.beg < es[b].end
  BY OverlappingAre
<1>2. /\ r.beg \in Nat /\ r.end \in Nat /\ Len(es) \in Nat
      /\ \A i \in 1..Len(es) : es[i].beg \in Nat /\ es[i].end \in Nat /\ es[i].beg < es[i].end
      /\ b \in 1..Len(es) /\ a \in Nat /\ b \in Nat /\ a <= b
  <2> HIDE DEF a, b, O
  <2> QED  BY <1>1, LenOf DEF Bounds
<1>3. /\ rest = IF es[a].beg > r.beg THEN a..b
                ELSE {i \in a..b : holes # {} /\ i >= Min(holes)}
      /\ holes = Holes(es, a..b) /\ Overlapping(es, r) = a..b
  BY <1>1
<1>4. end = LET hs == Holes(es, rest)
            IN  IF rest = {} \/ es[Max(rest)].end < r.end THEN r.end
                ELSE es[IF hs = {} THEN Min(rest) ELSE Max(hs) + 1].beg
  BY DEF TrimEnd
<1>5. \A x \in miss : x \in Nat /\ x < r.end
  BY <1>2 DEF Lacks
<1>6. miss # {}
  OBVIOUS
<1> HIDE DEF a, b, O, holes, rest, end
<1>7. holes # {} => /\ Min(holes) \in holes /\ \A i \in holes : Min(holes) <= i
                    /\ Max(holes) \in holes /\ \A i \in holes : i <= Max(holes)
                    /\ \A i \in holes : /\ i \in a..b /\ i + 1 \in a..b
                                        /\ i \in 1..Len(es) /\ i + 1 \in 1..Len(es)
                                        /\ es[i].end < es[i + 1].beg
  <2>1. holes \in SUBSET (a..b) /\ holes \in SUBSET (0..b)
    BY <1>2, <1>3 DEF Holes
  <2>2. \A i \in holes : /\ i \in a..b /\ i + 1 \in a..b
                         /\ es[i].end < es[i + 1].beg
    BY <1>3 DEF Holes
  <2>3. \A i \in a..b : i \in 1..Len(es)
    BY <1>1, <1>2
  <2> QED  BY <1>2, <2>1, <2>2, <2>3, MinBetween, MaxProperties
\* What is left for the second loop ends with the last element that overlaps the
\* range, and has the same holes.
<1>8. CASE rest # {}
  <2>1. rest \in SUBSET (a..b) /\ b \in rest /\ Max(rest) = b
    <3>1. b \in rest /\ rest \in SUBSET (a..b)
      <4>1. b \in a..b
        BY <1>2
      <4>2. CASE es[a].beg > r.beg
        BY <1>3, <4>1, <4>2
      <4>3. CASE ~(es[a].beg > r.beg) /\ holes # {}
        <5>1. Min(holes) + 1 \in a..b /\ Min(holes) \in a..b
          BY <1>7, <4>3
        <5>2. b >= Min(holes)
          BY <1>2, <5>1
        <5> QED  BY <1>3, <4>1, <4>3, <5>2
      <4> QED  BY <1>3, <1>8, <4>2, <4>3
    <3>2. rest \in SUBSET (0..b) /\ \A i \in rest : i <= b
      BY <1>2, <3>1
    <3>3. Max(rest) = b
      BY <1>2, <3>1, <3>2, GreatestIs
    <3> QED  BY <3>1, <3>3
  <2>2. Holes(es, rest) = holes
    <3>1. CASE es[a].beg > r.beg
      BY <1>3, <3>1
    <3>2. CASE ~(es[a].beg > r.beg)
      <4>1. holes # {}
        BY <1>3, <1>8, <3>2
      <4>2. ASSUME NEW i \in holes PROVE i \in Holes(es, rest)
        <5>1. /\ i \in a..b /\ i + 1 \in a..b /\ Min(holes) <= i
              /\ Min(holes) \in a..b /\ es[i].end < es[i + 1].beg
          BY <1>7, <4>1
        <5>2. i >= Min(holes) /\ i + 1 >= Min(holes)
          BY <1>2, <5>1
        <5> QED  BY <1>3, <3>2, <4>1, <5>1, <5>2 DEF Holes
      <4>3. ASSUME NEW i \in Holes(es, rest) PROVE i \in holes
        BY <1>3, <2>1 DEF Holes
      <4> QED  BY <4>2, <4>3
    <3> QED  BY <3>1, <3>2
  <2>3. CASE es[b].end < r.end
    <3>1. end = r.end
      BY <1>4, <2>1, <2>3
    <3>2. ASSUME NEW i \in a..b PROVE es[i].end <= r.end - 1
      <4>1. i \in 1..Len(es)
        BY <1>1, <1>2
      <4>2. CASE i = b
        BY <1>2, <2>3, <4>2
      <4>3. CASE i < b
        <5>1. es[i].end <= es[b].beg
          BY <1>2, <4>1, <4>3 DEF Vector
        <5> QED  BY <1>2, <2>3, <4>1, <5>1
      <4> QED  BY <1>2, <4>1, <4>2, <4>3
    <3>3. r.end - 1 \in r.beg..(r.end - 1)
      BY <1>2
    <3>4. r.end - 1 \in miss
      BY <1>3, <3>2, <3>3, LacksWhatNoneHas
    <3> QED  BY <1>2, <1>5, <3>1, <3>4 DEF end, rest, O, holes
  <2>4. CASE r.end <= es[b].end
    <3>1. end = es[IF holes = {} THEN Min(rest) ELSE Max(holes) + 1].beg
      <4>1. ~(es[b].end < r.end)
        BY <1>2, <2>4
      <4> QED  BY <1>4, <1>8, <2>1, <2>2, <4>1
    <3>2. CASE holes = {}
      <4>1. es[a].beg > r.beg
        BY <1>3, <1>8, <3>2
      <4>2. rest = a..b /\ a \in a..b /\ \A i \in a..b : a <= i
        BY <1>2, <1>3, <4>1
      <4>3. Min(rest) = a
        <5>1. rest \in SUBSET Nat /\ a \in rest /\ \A i \in rest : a <= i
          BY <1>2, <4>2
        <5> HIDE DEF rest
        <5> QED  BY <5>1, LeastIs
      <4>4. end = es[a].beg
        BY <3>1, <3>2, <4>3
      <4>5. r.beg < es[a].beg /\ ~(a < a)
        BY <1>1, <1>2, <4>1
      <4>6. es[a].beg - 1 \in miss /\ \A x \in miss : x < es[a].beg
        BY <1>1, <1>3, <2>4, <3>2, <4>2, <4>5, LastLacking
      <4> QED  BY <1>1, <1>2, <4>4, <4>6 DEF end, rest, O, holes
    <3>3. CASE holes # {}
      <4> DEFINE h == Max(holes)
      <4>1. /\ h \in a..b /\ h + 1 \in a..b /\ h \in 1..Len(es) /\ h + 1 \in 1..Len(es)
            /\ es[h].end < es[h + 1].beg /\ \A i \in holes : i <= h
        BY <1>7, <3>3
      <4>2. end = es[h + 1].beg
        BY <3>1, <3>3
      <4> HIDE DEF h
      <4>3. Holes(es, (h + 1)..b) = {}
        <5> SUFFICES ASSUME NEW i \in (h + 1)..b, i + 1 \in (h + 1)..b,
                            es[i].end < es[i + 1].beg
                     PROVE  FALSE
          BY DEF Holes
        <5>1. i \in a..b /\ i + 1 \in a..b /\ ~(i <= h)
          BY <1>2, <4>1
        <5>2. i \in holes
          BY <1>3, <5>1 DEF Holes
        <5> QED  BY <4>1, <5>1, <5>2
      <4>4. r.beg < es[h].end
        <5>1. h \in Overlapping(es, r)
          BY <1>3, <4>1
        <5> QED  BY <5>1 DEF Overlapping, Overlap
      <4>5. r.beg < es[h + 1].beg
        BY <1>2, <4>1, <4>4
      <4>6. es[h + 1].beg < r.end
        <5>1. h + 1 \in Overlapping(es, r)
          BY <1>3, <4>1
        <5> QED  BY <5>1 DEF Overlapping, Overlap
      <4>7. (h + 1) - 1 = h
        BY <4>1
      <4>8. es[h + 1].beg - 1 \in miss /\ \A x \in miss : x < es[h + 1].beg
        BY <1>1, <1>3, <2>4, <4>1, <4>3, <4>5, <4>6, <4>7, LastLacking
      <4> QED  BY <1>2, <4>1, <4>2, <4>8 DEF end, rest, O, holes
    <3> QED  BY <3>2, <3>3
  <2>5. es[b].end < r.end \/ r.end <= es[b].end
    BY <1>2
  <2> QED  BY <2>3, <2>4, <2>5
<1>9. CASE rest = {}
  <2>1. end = r.end
    BY <1>4, <1>9
  <2>2. b \in a..b
    BY <1>2
  <2>3. ~(es[a].beg > r.beg)
    BY <1>3, <1>9, <2>2
  <2>4. holes = {}
    <3> SUFFICES ASSUME holes # {} PROVE FALSE
      OBVIOUS
    <3>1. Min(holes) \in a..b /\ b >= Min(holes)
      BY <1>2, <1>7
    <3> QED  BY <1>3, <1>9, <2>2, <2>3, <3>1
  <2>5. es[b].end < r.end
    <3> SUFFICES ASSUME r.end <= es[b].end PROVE FALSE
      BY <1>2
    <3>1. PICK x : x \in miss
      BY <1>6
    <3>2. x \in Nat /\ r.beg <= x /\ x < r.end /\ ~Held(es, x)
      BY <1>2, <3>1 DEF Lacks
    <3>3. es[a].beg <= x /\ x < es[b].end
      BY <1>1, <1>2, <2>3, <3>2
    <3> QED  BY <1>1, <1>3, <2>4, <3>2, <3>3, NoHoleHolds
  <2>6. ASSUME NEW i \in a..b PROVE es[i].end <= r.end - 1
    <3>1. i \in 1..Len(es)
      BY <1>1, <1>2
    <3>2. CASE i = b
      BY <1>2, <2>5, <3>2
    <3>3. CASE i < b
      <4>1. es[i].end <= es[b].beg
        BY <1>2, <3>1, <3>3 DEF Vector
      <4> QED  BY <1>2, <2>5, <3>1, <4>1
    <3> QED  BY <1>2, <3>1, <3>2, <3>3
  <2>7. r.end - 1 \in r.beg..(r.end - 1)
    BY <1>2
  <2>8. r.end - 1 \in miss
    BY <1>3, <2>6, <2>7, LacksWhatNoneHas
  <2> QED  BY <1>2, <1>5, <2>1, <2>8 DEF end, rest, O, holes
<1> QED  BY <1>8, <1>9

\* trim_overlaps: the bytes from the first to the last one that the vector does
\* not have, unless they are less than the smallest object.
LEMMA TrimOverlapsTrims ==
  ASSUME NEW es, Vector(es), NEW r \in Bounds, r.beg < r.end, MinObjSize <= Length(r)
  PROVE  LET miss == Lacks(es, r)
             want == [beg |-> Min(miss), end |-> Max(miss) + 1]
         IN  TrimOverlaps(es, r) =
                IF miss # {} /\ Length(want) >= MinObjSize THEN want ELSE NoRange
<1> DEFINE O     == Overlapping(es, r)
           miss  == Lacks(es, r)
           want  == [beg |-> Min(miss), end |-> Max(miss) + 1]
           holes == Holes(es, O)
           beg   == TrimBeg(es, r, O)
           rest  == IF es[Min(O)].beg > r.beg THEN O
                    ELSE {i \in O : holes # {} /\ i >= Min(holes)}
           trim  == TrimEnd(es, r, rest)
           end   == IF r.end - beg >= MinObjSize THEN trim ELSE r.end
<1>1. /\ r.beg \in Nat /\ r.end \in Nat /\ r = [beg |-> r.beg, end |-> r.end]
      /\ MinObjSize \in Nat \ {0} /\ r.end - r.beg >= MinObjSize
  BY RangesAssumption DEF Bounds, Length
<1>2. TrimOverlaps(es, r) = IF O = {} THEN r
                            ELSE IF end - beg >= MinObjSize THEN [beg |-> beg, end |-> end]
                            ELSE NoRange
  BY FindInRangeFinds DEF TrimOverlaps
<1>3. miss \in SUBSET (r.beg..(r.end - 1)) /\ miss \in SUBSET (0..r.end)
  BY <1>1 DEF Lacks
<1>4. ASSUME NEW m \in miss, NEW n \in miss, \A x \in miss : m <= x /\ x <= n
      PROVE  want = [beg |-> m, end |-> n + 1]
  <2>1. miss \in SUBSET Nat
    BY <1>1, <1>3
  <2> HIDE DEF miss
  <2>2. Min(miss) = m
    BY <1>4, <2>1, LeastIs
  <2>3. Max(miss) = n
    BY <1>1, <1>3, <1>4, GreatestIs
  <2> QED  BY <2>2, <2>3
<1>5. CASE O = {}
  <2>1. \A x \in r.beg..(r.end - 1) : x \in miss
    BY <1>5, LacksWhatNoneHas
  <2>2. r.beg \in miss /\ r.end - 1 \in miss /\ \A x \in miss : r.beg <= x /\ x <= r.end - 1
    BY <1>1, <1>3, <2>1
  <2> HIDE DEF miss, want
  <2>3. want = [beg |-> r.beg, end |-> (r.end - 1) + 1]
    BY <1>4, <2>2
  <2>4. want = r
    BY <1>1, <2>3
  <2>5. TrimOverlaps(es, r) = r
    BY <1>2, <1>5
  <2>6. Length(want) >= MinObjSize
    BY <1>1, <2>4 DEF Length
  <2>7. miss # {}
    BY <2>2
  <2> QED  BY <2>4, <2>5, <2>6, <2>7 DEF miss, want
<1>6. CASE O # {} /\ miss = {}
  <2>1. beg = r.end
    BY <1>6, TrimBegTrims
  <2> HIDE DEF beg, trim, O
  <2>2. ~(r.end - beg >= MinObjSize)
    BY <1>1, <2>1
  <2>3. end = r.end
    BY <2>2
  <2>4. ~(end - beg >= MinObjSize)
    BY <2>2, <2>3
  <2> HIDE DEF end
  <2>5. TrimOverlaps(es, r) = NoRange
    BY <1>2, <1>6, <2>4
  <2> QED  BY <1>6, <2>5
<1>7. CASE O # {} /\ miss # {}
  <2>1. beg \in miss /\ \A x \in miss : beg <= x
    BY <1>7, TrimBegTrims
  <2>2. trim \in Nat /\ trim - 1 \in miss /\ \A x \in miss : x < trim
    BY <1>7, TrimEndTrims
  <2> HIDE DEF beg, trim, miss, want, O
  <2>3. \A x \in miss : x \in Nat /\ r.beg <= x /\ x <= r.end - 1
    BY <1>1, <1>3
  <2>4. \A x \in miss : x <= trim - 1
    BY <2>2, <2>3
  <2>5. want = [beg |-> beg, end |-> (trim - 1) + 1]
    BY <1>4, <2>1, <2>2, <2>4
  <2>6. want = [beg |-> beg, end |-> trim]
    BY <2>2, <2>5
  <2>7. beg \in Nat /\ trim <= r.end
    BY <1>1, <2>1, <2>2, <2>3
  <2>8. CASE r.end - beg >= MinObjSize
    <3>1. end = trim
      BY <2>8
    <3> HIDE DEF end
    <3>2. TrimOverlaps(es, r) = IF miss # {} /\ Length(want) >= MinObjSize
                                 THEN want ELSE NoRange
      BY <1>2, <1>7, <2>6, <3>1 DEF Length
    <3> QED  BY <3>2 DEF miss, want
  <2>9. CASE ~(r.end - beg >= MinObjSize)
    <3>1. end = r.end
      BY <2>9
    <3>2. ~(trim - beg >= MinObjSize)
      BY <1>1, <2>2, <2>7, <2>9
    <3> HIDE DEF end
    <3>3. TrimOverlaps(es, r) = IF miss # {} /\ Length(want) >= MinObjSize
                                 THEN want ELSE NoRange
      BY <1>2, <1>7, <2>6, <2>9, <3>1, <3>2 DEF Length
    <3> QED  BY <3>3 DEF miss, want
  <2> QED  BY <2>8, <2>9
<1> QED  BY <1>5, <1>6, <1>7

-----------------------------------------------------------------------------
(* The changes.                                                            *)

\* The vector ns has the elements of es at the indices is, and no others but e.
Keeps(ns, es, is) == \A j \in is : \E i \in 1..Len(ns) : ns[i] = es[j]
From(ns, es, is)  == \A i \in 1..Len(ns) : \E j \in is : ns[i] = es[j]

LEMMA InsertAtInserts ==
  ASSUME NEW S, NEW es \in Seq(S), NEW p \in 1..(Len(es) + 1), NEW e \in S
  PROVE  /\ InsertAt(es, p, e) \in Seq(S)
         /\ Len(InsertAt(es, p, e)) = Len(es) + 1
         /\ \A i \in 1..(Len(es) + 1) : InsertAt(es, p, e)[i] =
                IF i < p THEN es[i] ELSE IF i = p THEN e ELSE es[i - 1]
<1> DEFINE n == Len(es)
           a == SubSeq(es, 1, p - 1)
           b == SubSeq(es, p, n)
           c == a \o <<e>>
<1>1. n \in Nat /\ \A i \in 1..n : es[i] \in S
  BY LenProperties, ElementOfSeq
<1>2. /\ a \in Seq(S) /\ Len(a) = p - 1
      /\ \A i \in 1..(p - 1) : a[i] = es[i]
  <2>1. p - 1 \in Int /\ 1 \in Int /\ \A i \in 1..(p - 1) : es[i] \in S
    BY <1>1
  <2>2. /\ a \in Seq(S) /\ Len(a) = IF 1 <= p - 1 THEN p - 1 - 1 + 1 ELSE 0
        /\ \A i \in 1..(p - 1 - 1 + 1) : a[i] = es[1 + i - 1]
    BY <2>1, SubSeqProperties
  <2> QED  BY <1>1, <2>2
<1>3. /\ b \in Seq(S) /\ Len(b) = n - p + 1
      /\ \A i \in 1..(n - p + 1) : b[i] = es[p + i - 1]
  <2>1. p \in Int /\ n \in Int /\ \A i \in p..n : es[i] \in S
    BY <1>1
  <2>2. /\ b \in Seq(S) /\ Len(b) = IF p <= n THEN n - p + 1 ELSE 0
        /\ \A i \in 1..(n - p + 1) : b[i] = es[p + i - 1]
    BY <2>1, SubSeqProperties
  <2> QED  BY <1>1, <2>2
<1>4. <<e>> \in Seq(S) /\ Len(<<e>>) = 1 /\ <<e>>[1] = e
  OBVIOUS
<1> HIDE DEF a, b
<1>5. /\ c \in Seq(S) /\ Len(c) = p
      /\ \A i \in 1..p : c[i] = IF i < p THEN es[i] ELSE e
  <2>1. /\ c \in Seq(S) /\ Len(c) = Len(a) + Len(<<e>>)
        /\ \A i \in 1..(Len(a) + Len(<<e>>)) :
                c[i] = IF i <= Len(a) THEN a[i] ELSE <<e>>[i - Len(a)]
    BY <1>2, <1>4, ConcatProperties
  <2>2. Len(c) = p /\ Len(a) = p - 1 /\ p \in Nat
    BY <1>1, <1>2, <1>4, <2>1
  <2> HIDE DEF c
  <2>3. ASSUME NEW i \in 1..p PROVE c[i] = IF i < p THEN es[i] ELSE e
    <3>1. CASE i < p
      BY <1>2, <1>4, <2>1, <2>2, <3>1
    <3>2. CASE i = p
      <4>1. i - Len(a) = 1 /\ ~(i <= Len(a)) /\ i \in 1..(Len(a) + Len(<<e>>))
        BY <1>4, <2>2, <3>2
      <4> QED  BY <1>4, <2>1, <3>2, <4>1
    <3> QED  BY <2>2, <3>1, <3>2
  <2> QED  BY <2>1, <2>2, <2>3
<1> HIDE DEF c
<1>6. /\ c \o b \in Seq(S) /\ Len(c \o b) = Len(c) + Len(b)
      /\ \A i \in 1..(Len(c) + Len(b)) :
                (c \o b)[i] = IF i <= Len(c) THEN c[i] ELSE b[i - Len(c)]
  BY <1>3, <1>5, ConcatProperties
<1>7. InsertAt(es, p, e) = c \o b
  BY DEF InsertAt, a, b, c
<1>8. ASSUME NEW i \in 1..(n + 1)
      PROVE  (c \o b)[i] = IF i < p THEN es[i] ELSE IF i = p THEN e ELSE es[i - 1]
  <2>1. CASE i <= p
    <3>1. i \in 1..(Len(c) + Len(b)) /\ i <= Len(c) /\ i \in 1..p
      BY <1>1, <1>3, <1>5, <2>1
    <3>2. (c \o b)[i] = c[i]
      BY <1>6, <3>1
    <3>3. c[i] = IF i < p THEN es[i] ELSE e
      BY <1>5, <3>1
    <3>4. i < p \/ i = p
      BY <1>1, <2>1
    <3> QED  BY <1>1, <3>2, <3>3, <3>4
  <2>2. CASE i > p
    <3>1. i - p \in 1..(n - p + 1) /\ p + (i - p) - 1 = i - 1
      BY <1>1, <2>2
    <3>2. (c \o b)[i] = b[i - p]
      BY <1>1, <1>3, <1>5, <1>6, <2>2
    <3> QED  BY <1>1, <1>3, <2>2, <3>1, <3>2
  <2>3. i <= p \/ i > p
    BY <1>1
  <2> QED  BY <2>1, <2>2, <2>3, Zenon
<1>9. Len(c \o b) = n + 1
  BY <1>1, <1>3, <1>5, <1>6
<1> QED  BY <1>6, <1>7, <1>8, <1>9

\* add_range of what overlaps nothing.
LEMMA AddRangeAdds ==
  ASSUME NEW S \in SUBSET RangeElem, NEW es \in Seq(S), Vector(es),
         NEW e \in S, e.beg < e.end, Overlapping(es, e) = {}
  PROVE  LET ns == AddRange(es, e)
         IN  /\ ns \in Seq(S) /\ Vector(ns) /\ Len(ns) = Len(es) + 1
             /\ \E i \in 1..Len(ns) : ns[i] = e
             /\ \A i \in 1..Len(ns) : ns[i] = e \/
                                      \E j \in 1..Len(es) : ns[i] = es[j]
             /\ Keeps(ns, es, 1..Len(es))
<1> DEFINE n  == Len(es)
           lb == LowerBound(es, e.beg)
           ns == AddRange(es, e)
<1>1. n \in Nat /\ e \in RangeElem /\ e.beg \in Nat /\ e.end \in Nat
  BY LenOf DEF RangeElem
<1>2. lb \in 1..(n + 1) /\ \A i \in 1..n : i < lb <=> es[i].beg < e.beg
  BY <1>1, LowerBoundSplits
<1>3. /\ ns \in Seq(S) /\ Len(ns) = n + 1
      /\ \A i \in 1..(n + 1) :
            ns[i] = IF i < lb THEN es[i] ELSE IF i = lb THEN e ELSE es[i - 1]
  <2>1. ns = InsertAt(es, lb, e)
    BY DEF AddRange
  <2> HIDE DEF ns, lb
  <2>2. /\ InsertAt(es, lb, e) \in Seq(S)
        /\ Len(InsertAt(es, lb, e)) = n + 1
        /\ \A i \in 1..(n + 1) : InsertAt(es, lb, e)[i] =
                IF i < lb THEN es[i] ELSE IF i = lb THEN e ELSE es[i - 1]
    BY <1>2, InsertAtInserts
  <2> QED  BY <2>1, <2>2
<1> HIDE DEF ns, lb
<1>4. \A i \in 1..n : es[i].end <= e.beg \/ e.end <= es[i].beg
  BY <1>1, LenOf DEF Overlapping, Overlap
<1>5. \A i \in 1..n : i < lb => es[i].end <= e.beg
  BY <1>1, <1>2, <1>4, LenOf
<1>6. \A i \in 1..n : i >= lb => e.end <= es[i].beg
  BY <1>1, <1>2, <1>4, LenOf
<1>7. \A i \in 1..(n + 1) : \/ i < lb /\ i \in 1..n
                            \/ i = lb
                            \/ i > lb /\ i - 1 \in 1..n /\ i - 1 >= lb
  BY <1>1, <1>2
<1>14. ASSUME NEW i \in 1..(n + 1)
       PROVE  ns[i] = e \/ \E j \in 1..n : ns[i] = es[j]
  <2>1. CASE i < lb /\ i \in 1..n
    BY <1>3, <2>1
  <2>2. CASE i = lb
    BY <1>1, <1>2, <1>3, <2>2
  <2>3. CASE i > lb /\ i - 1 \in 1..n
    <3>1. ns[i] = es[i - 1]
      BY <1>1, <1>2, <1>3, <2>3
    <3> QED  BY <2>3, <3>1
  <2> QED  BY <1>7, <2>1, <2>2, <2>3
<1>8. \A i \in 1..(n + 1) : ns[i].beg < ns[i].end
  BY <1>14, LenOf
<1>9. ASSUME NEW i \in 1..(n + 1), NEW j \in 1..(n + 1), i < j
      PROVE  ns[i].end <= ns[j].beg
  <2>1. CASE j < lb
    <3>1. i \in 1..n /\ j \in 1..n /\ ns[i] = es[i] /\ ns[j] = es[j]
      BY <1>1, <1>2, <1>3, <1>9, <2>1
    <3> QED  BY <1>9, <3>1 DEF Vector
  <2>2. CASE j = lb
    <3>1. i \in 1..n /\ i < lb /\ ns[i] = es[i] /\ ns[j] = e
      BY <1>1, <1>2, <1>3, <1>9, <2>2
    <3> QED  BY <1>5, <3>1
  <2>3. CASE i = lb
    <3>1. j - 1 \in 1..n /\ j - 1 >= lb /\ ns[j] = es[j - 1] /\ ns[i] = e
      BY <1>1, <1>2, <1>3, <1>9, <2>3
    <3> QED  BY <1>6, <3>1
  <2>4. CASE i > lb
    <3>1. /\ i - 1 \in 1..n /\ j - 1 \in 1..n /\ i - 1 < j - 1
          /\ ns[i] = es[i - 1] /\ ns[j] = es[j - 1]
      BY <1>1, <1>2, <1>3, <1>9, <2>4
    <3> QED  BY <3>1 DEF Vector
  <2>5. CASE i < lb /\ lb < j
    <3>1. /\ i \in 1..n /\ j - 1 \in 1..n /\ j - 1 >= lb
          /\ ns[i] = es[i] /\ ns[j] = es[j - 1]
      BY <1>1, <1>2, <1>3, <2>5
    <3>2. es[i].end <= e.beg /\ e.end <= es[j - 1].beg
      BY <1>5, <1>6, <2>5, <3>1
    <3> QED  BY <1>1, <3>1, <3>2, LenOf
  <2> QED  BY <1>2, <1>9, <2>1, <2>2, <2>3, <2>4, <2>5
<1>10. Vector(ns)
  <2>1. ns \in Seq(RangeElem)
    BY <1>3, SeqMonotonic
  <2> QED  BY <1>3, <1>8, <1>9, <2>1 DEF Vector
<1>11. Keeps(ns, es, 1..n)
  <2> SUFFICES ASSUME NEW j \in 1..n PROVE \E i \in 1..(n + 1) : ns[i] = es[j]
    BY <1>3 DEF Keeps
  <2>1. CASE j < lb
    BY <1>1, <1>2, <1>3, <2>1
  <2>2. CASE j >= lb
    <3>1. j + 1 \in 1..(n + 1) /\ j + 1 > lb /\ (j + 1) - 1 = j
      BY <1>1, <1>2, <2>2
    <3>2. ns[j + 1] = es[(j + 1) - 1]
      BY <1>1, <1>2, <1>3, <3>1
    <3> QED  BY <3>1, <3>2
  <2> QED  BY <1>1, <1>2, <2>1, <2>2
<1>13. lb \in 1..Len(ns) /\ ns[lb] = e
  BY <1>1, <1>2, <1>3
<1> QED  BY <1>3, <1>10, <1>11, <1>13, <1>14 DEF ns

\* Elements picked in their order are a vector.
LEMMA PickedVector ==
  ASSUME NEW S \in SUBSET RangeElem, NEW es \in Seq(S), Vector(es),
         NEW m \in Nat, NEW at \in [1..m -> 1..Len(es)],
         \A i, j \in 1..m : i < j => at[i] < at[j],
         NEW ns \in Seq(S), Len(ns) = m, \A i \in 1..m : ns[i] = es[at[i]]
  PROVE  Vector(ns)
<1>1. ns \in Seq(RangeElem)
  BY SeqMonotonic
<1>2. ASSUME NEW i \in 1..m PROVE ns[i].beg < ns[i].end
  <2>1. at[i] \in 1..Len(es) /\ ns[i] = es[at[i]]
    OBVIOUS
  <2> QED  BY <2>1, LenOf
<1>3. ASSUME NEW i \in 1..m, NEW j \in 1..m, i < j
      PROVE  ns[i].end <= ns[j].beg
  <2>1. /\ at[i] \in 1..Len(es) /\ at[j] \in 1..Len(es) /\ at[i] < at[j]
        /\ ns[i] = es[at[i]] /\ ns[j] = es[at[j]]
    BY <1>3
  <2> QED  BY <2>1 DEF Vector
<1> QED  BY <1>1, <1>2, <1>3 DEF Vector

\* rem_range of what overlaps a range removes it and nothing else.
LEMMA RemRangeRemoves ==
  ASSUME NEW S \in SUBSET RangeElem, NEW es \in Seq(S), Vector(es),
         NEW r \in Bounds, r.beg < r.end
  PROVE  LET is == Overlapping(es, r)
             ns == RemRange(es, is)
         IN  /\ ns \in Seq(S) /\ Vector(ns)
             /\ IsFiniteSet(is) /\ Cardinality(is) \in 0..Len(es)
             /\ Len(ns) = Len(es) - Cardinality(is)
             /\ From(ns, es, (1..Len(es)) \ is)
             /\ Keeps(ns, es, (1..Len(es)) \ is)
<1> DEFINE n  == Len(es)
           is == Overlapping(es, r)
           ns == RemRange(es, is)
<1>1. /\ n \in Nat /\ r.beg \in Nat /\ r.end \in Nat
      /\ is \in SUBSET (1..n) /\ is \in SUBSET (0..n)
      /\ \A i \in 1..n : es[i] \in S
  BY LenOf, ElementOfSeq DEF Bounds, Overlapping
<1>2. CASE is = {}
  <2>1. ns = es
    BY <1>2 DEF RemRange
  <2>2. /\ IsFiniteSet(is) /\ Cardinality(is) \in 0..n
        /\ Len(ns) = n - Cardinality(is)
    <3> HIDE DEF is, ns
    <3>1. IsFiniteSet(is) /\ Cardinality(is) = 0
      BY <1>2, FS_EmptySet
    <3> QED  BY <1>1, <2>1, <3>1
  <2>3. ns \in Seq(S) /\ Vector(ns)
    BY <2>1
  <2>4. From(ns, es, (1..n) \ is) /\ Keeps(ns, es, (1..n) \ is)
    BY <1>2, <2>1 DEF From, Keeps
  <2> QED  BY <2>2, <2>3, <2>4
<1>3. CASE is # {}
  <2> DEFINE a == Min(is)
             b == Max(is)
             d == SubSeq(es, 1, a - 1)
             f == SubSeq(es, b + 1, n)
             m == n - (b - a + 1)
             at == [i \in 1..m |-> IF i < a THEN i ELSE i + (b - a + 1)]
  <2>1. /\ a \in is /\ b \in is /\ \A i \in is : a <= i /\ i <= b
    <3> HIDE DEF is
    <3>1. 1 \in Nat
      OBVIOUS
    <3> QED  BY <1>1, <1>3, <3>1, MinBetween, MaxProperties
  <2>2. ns = d \o f
    BY <1>3 DEF RemRange
  <2> HIDE DEF a, b
  <2>3. a \in 1..n /\ b \in 1..n /\ a <= b
    BY <1>1, <2>1
  \* What lies between overlapping elements overlaps.
  <2>4. ASSUME NEW i \in 1..n PROVE i \in is <=> a <= i /\ i <= b
    <3>1. Overlap(r, es[a]) /\ Overlap(r, es[b])
      BY <2>1 DEF Overlapping
    <3>2. a < i /\ i < b => Overlap(r, es[i])
      <4> SUFFICES ASSUME a < i, i < b PROVE Overlap(r, es[i])
        OBVIOUS
      <4>1. es[a].end <= es[i].beg /\ es[i].end <= es[b].beg
        BY <2>3 DEF Vector
      <4> QED  BY <1>1, <2>3, <3>1, <4>1, LenOf, SMTT(60) DEF Overlap
    <3> QED  BY <1>1, <2>1, <2>3, <3>1, <3>2 DEF Overlapping
  <2>5. /\ d \in Seq(S) /\ Len(d) = a - 1 /\ \A i \in 1..(a - 1) : d[i] = es[i]
    <3>1. 1 \in Int /\ a - 1 \in Int /\ \A i \in 1..(a - 1) : es[i] \in S
      BY <1>1, <2>3
    <3>2. /\ d \in Seq(S) /\ Len(d) = IF 1 <= a - 1 THEN a - 1 - 1 + 1 ELSE 0
          /\ \A i \in 1..(a - 1 - 1 + 1) : d[i] = es[1 + i - 1]
      BY <3>1, SubSeqProperties
    <3> QED  BY <2>3, <3>2
  <2>6. /\ f \in Seq(S) /\ Len(f) = n - b
        /\ \A i \in 1..(n - b) : f[i] = es[b + 1 + i - 1]
    <3>1. b + 1 \in Int /\ n \in Int /\ \A i \in (b + 1)..n : es[i] \in S
      BY <1>1, <2>3
    <3>2. /\ f \in Seq(S) /\ Len(f) = IF b + 1 <= n THEN n - (b + 1) + 1 ELSE 0
          /\ \A i \in 1..(n - (b + 1) + 1) : f[i] = es[b + 1 + i - 1]
      BY <3>1, SubSeqProperties
    <3> QED  BY <1>1, <2>3, <3>2
  <2> HIDE DEF d, f, ns
  <2>7. /\ ns \in Seq(S) /\ Len(ns) = (a - 1) + (n - b)
        /\ \A i \in 1..((a - 1) + (n - b)) :
              ns[i] = IF i <= a - 1 THEN d[i] ELSE f[i - (a - 1)]
    <3>1. /\ d \o f \in Seq(S) /\ Len(d \o f) = Len(d) + Len(f)
          /\ \A i \in 1..(Len(d) + Len(f)) :
                (d \o f)[i] = IF i <= Len(d) THEN d[i] ELSE f[i - Len(d)]
      BY <2>5, <2>6, ConcatProperties
    <3>2. Len(d) = a - 1 /\ Len(f) = n - b
      BY <2>5, <2>6
    <3> QED  BY <2>2, <3>1, <3>2
  <2>8. m \in Nat /\ m < n /\ Len(ns) = m
    BY <1>1, <2>3, <2>7
  <2>9. ASSUME NEW i \in 1..m PROVE ns[i] = es[at[i]]
    <3>1. CASE i < a
      BY <1>1, <2>3, <2>5, <2>7, <3>1
    <3>2. CASE i >= a
      <4>1. /\ i - (a - 1) \in 1..(n - b) /\ ~(i <= a - 1)
            /\ b + 1 + (i - (a - 1)) - 1 = i + (b - a + 1)
            /\ i \in 1..((a - 1) + (n - b))
        BY <1>1, <2>3, <3>2
      <4>2. ns[i] = f[i - (a - 1)] /\ f[i - (a - 1)] = es[i + (b - a + 1)]
        BY <2>6, <2>7, <4>1
      <4>3. at[i] = i + (b - a + 1)
        BY <1>1, <2>3, <3>2
      <4> QED  BY <4>2, <4>3
    <3> QED  BY <2>3, <3>1, <3>2
  <2>10. /\ at \in [1..m -> (1..n) \ is]
         /\ \A i, j \in 1..m : i < j => at[i] < at[j]
    BY <1>1, <2>3, <2>4, SMTT(60)
  <2>11. ASSUME NEW j \in (1..n) \ is PROVE \E i \in 1..m : at[i] = j
    <3>1. j < a \/ j > b
      BY <1>1, <2>3, <2>4
    <3>2. CASE j < a
      BY <1>1, <2>3, <3>2
    <3>3. CASE j > b
      <4>1. j - (b - a + 1) \in 1..m /\ ~(j - (b - a + 1) < a)
        BY <1>1, <2>3, <3>3
      <4>2. at[j - (b - a + 1)] = j
        BY <1>1, <2>3, <4>1
      <4> QED  BY <4>1, <4>2
    <3> QED  BY <3>1, <3>2, <3>3
  <2> HIDE DEF at, m, is
  <2>12. at \in [1..m -> 1..n]
    BY <2>10
  <2>13. Vector(ns)
    BY <2>7, <2>8, <2>9, <2>10, <2>12, PickedVector, ZenonT(60)
  <2>14. From(ns, es, (1..n) \ is)
    BY <2>8, <2>9, <2>10 DEF From
  <2>15. Keeps(ns, es, (1..n) \ is)
    BY <2>8, <2>9, <2>11 DEF Keeps
  <2>16. IsFiniteSet(is) /\ Cardinality(is) = b - a + 1
    <3>1. is = a..b
      <4> HIDE DEF n
      <4>1. ASSUME NEW i \in is PROVE i \in a..b
        BY <1>1, <2>3, <2>4
      <4>2. ASSUME NEW i \in a..b PROVE i \in is
        <5>1. i \in 1..n /\ a <= i /\ i <= b
          BY <1>1, <2>3
        <5> QED  BY <2>4, <5>1
      <4> QED  BY <4>1, <4>2
    <3>2. a \in Int /\ b \in Int /\ ~(a > b)
      BY <1>1, <2>3
    <3>3. IsFiniteSet(a..b) /\ Cardinality(a..b) = b - a + 1
      BY <3>2, FS_Interval
    <3> QED  BY <3>1, <3>3
  <2>17. Cardinality(is) \in 0..n /\ Len(ns) = n - Cardinality(is)
    BY <1>1, <2>3, <2>7, <2>16
  <2> QED  BY <1>1, <2>7, <2>13, <2>14, <2>15, <2>16, <2>17 DEF is, ns
<1> QED  BY <1>2, <1>3

-----------------------------------------------------------------------------
(* The invariant of the table.                                             *)

ReadersIn(ts, k, e) ==
  {t \in Readers : ts[t] # None /\ ts[t].k = k /\ Overlap(ts[t].r, e)}
ReadersOf(k, e) == ReadersIn(rtrans, k, e)

Tables ==
  /\ nodes = [k \in Keys |-> nodes[k]]
  /\ \A k \in Keys : /\ nodes[k] \in Seq(Elem(k)) /\ Vector(nodes[k])
                     /\ Len(nodes[k]) <= MaxRanges
Reading == rtrans \in [Readers -> Trans \cup {None}]
Exact   == \A k \in Keys : \A i \in 1..Len(nodes[k]) :
                nodes[k][i].rd = Cardinality(ReadersOf(k, nodes[k][i]))
Served  == \A t \in Readers : rtrans[t] # None =>
                Complete(nodes[rtrans[t].k], rtrans[t].r)
Inv     == Tables /\ Reading /\ Exact /\ Served

-----------------------------------------------------------------------------
(* Elements and transactions.                                              *)

LEMMA RangesAre ==
  ASSUME NEW k \in Keys, NEW min \in Nat \ {0}, NEW max \in Nat,
         NEW r \in Ranges(k, min, max)
  PROVE  /\ r \in Bounds /\ r.beg < r.end
         /\ r.beg \in 0..ObjSize[k] /\ r.end \in 0..ObjSize[k]
         /\ ObjSize[k] \in 0..MaxObjSize
  BY TableAssumption DEF Ranges, Bounds

LEMMA FragRangesAre ==
  ASSUME NEW k \in Keys, NEW r \in FragRanges(k)
  PROVE  /\ r \in Bounds /\ r.beg < r.end
         /\ r.beg \in 0..ObjSize[k] /\ r.end \in 0..ObjSize[k]
         /\ ObjSize[k] \in 0..MaxObjSize
<1>1. 1 \in Nat \ {0} /\ MaxFragSize \in Nat
  BY TableAssumption
<1> QED  BY <1>1, RangesAre DEF FragRanges

LEMMA ObjRangesAre ==
  ASSUME NEW k \in Keys, NEW r \in ObjRanges(k)
  PROVE  /\ r \in Bounds /\ r.beg < r.end
         /\ r.beg \in 0..ObjSize[k] /\ r.end \in 0..ObjSize[k]
         /\ ObjSize[k] \in 0..MaxObjSize
<1>1. MinObjSize \in Nat \ {0} /\ ObjSize[k] \in Nat
  BY TableAssumption, RangesAssumption
<1> QED  BY <1>1, RangesAre DEF ObjRanges

LEMMA ElemsAre ==
  ASSUME NEW k \in Keys
  PROVE  /\ Elem(k) \in SUBSET RangeElem
         /\ \A e \in Elem(k) :
              /\ [beg |-> e.beg, end |-> e.end] \in FragRanges(k)
              /\ e.rd \in 0..MaxReaders /\ e.beg < e.end
              /\ \A n \in 0..MaxReaders : [e EXCEPT !.rd = n] \in Elem(k)
         /\ \A r \in FragRanges(k) : \A n \in 0..MaxReaders :
              [beg |-> r.beg, end |-> r.end, rd |-> n] \in Elem(k)
<1>1. ASSUME NEW e \in Elem(k)
      PROVE  /\ e \in RangeElem
             /\ [beg |-> e.beg, end |-> e.end] \in FragRanges(k)
             /\ e.rd \in 0..MaxReaders /\ e.beg < e.end
             /\ \A n \in 0..MaxReaders : [e EXCEPT !.rd = n] \in Elem(k)
  <2>1. PICK r \in FragRanges(k), n \in 0..MaxReaders :
                e = [beg |-> r.beg, end |-> r.end, rd |-> n]
    BY DEF Elem
  <2>2. /\ r = [beg |-> r.beg, end |-> r.end] /\ r.beg < r.end
        /\ r.beg \in Nat /\ r.end \in Nat /\ n \in Nat
    BY FragRangesAre, TableAssumption DEF Bounds
  <2>3. e \in RangeElem /\ e.rd \in 0..MaxReaders /\ e.beg < e.end
    BY <2>1, <2>2 DEF RangeElem
  <2>4. [beg |-> e.beg, end |-> e.end] \in FragRanges(k)
    BY <2>1, <2>2
  <2>5. ASSUME NEW i \in 0..MaxReaders PROVE [e EXCEPT !.rd = i] \in Elem(k)
    <3>1. [e EXCEPT !.rd = i] = [beg |-> r.beg, end |-> r.end, rd |-> i]
      BY <2>1
    <3> QED  BY <3>1 DEF Elem
  <2> QED  BY <2>3, <2>4, <2>5
<1>2. \A r \in FragRanges(k) : \A n \in 0..MaxReaders :
              [beg |-> r.beg, end |-> r.end, rd |-> n] \in Elem(k)
  BY DEF Elem
<1> QED  BY <1>1, <1>2

LEMMA TransAre ==
  /\ \A w \in Trans : /\ w.k \in Keys /\ w.r \in ObjRanges(w.k)
                      /\ w = [k |-> w.k, r |-> w.r]
  /\ \A k \in Keys : \A r \in ObjRanges(k) : [k |-> k, r |-> r] \in Trans
<1>1. ASSUME NEW w \in Trans
      PROVE  w.k \in Keys /\ w.r \in ObjRanges(w.k) /\ w = [k |-> w.k, r |-> w.r]
  <2>1. PICK k \in Keys : w \in [k : {k}, r : ObjRanges(k)]
    BY DEF Trans
  <2> QED  BY <2>1
<1>2. ASSUME NEW k \in Keys, NEW r \in ObjRanges(k)
      PROVE  [k |-> k, r |-> r] \in Trans
  <2>1. [k |-> k, r |-> r] \in [k : {k}, r : ObjRanges(k)]
    OBVIOUS
  <2> QED  BY <2>1 DEF Trans
<1> QED  BY <1>1, <1>2

\* A transaction reads a range of an object.
LEMMA ReadsRange ==
  ASSUME Reading, NEW t \in Readers, rtrans[t] # None
  PROVE  /\ rtrans[t].k \in Keys /\ rtrans[t].r \in ObjRanges(rtrans[t].k)
         /\ rtrans[t].r \in Bounds /\ rtrans[t].r.beg < rtrans[t].r.end
         /\ rtrans[t].r.beg \in Nat /\ rtrans[t].r.end \in Nat
<1>1. rtrans[t] \in Trans
  BY DEF Reading
<1>2. rtrans[t].k \in Keys /\ rtrans[t].r \in ObjRanges(rtrans[t].k)
  BY <1>1, TransAre
<1> QED  BY <1>2, ObjRangesAre DEF Bounds

LEMMA ReadersFinite ==
  ASSUME NEW k, NEW e
  PROVE  /\ IsFiniteSet(ReadersOf(k, e)) /\ Cardinality(ReadersOf(k, e)) \in Nat
         /\ Cardinality(ReadersOf(k, e)) = 0 <=> ReadersOf(k, e) = {}
<1>1. ReadersOf(k, e) \in SUBSET Readers /\ IsFiniteSet(Readers)
  BY TableAssumption DEF ReadersOf, ReadersIn
<1>2. IsFiniteSet(ReadersOf(k, e))
  BY <1>1, FS_Subset
<1> QED  BY <1>2, FS_CardinalityType, FS_EmptySet

\* An element that a transaction reads has readers.
LEMMA ReadHasReaders ==
  ASSUME Inv, NEW t \in Readers, rtrans[t] # None,
         NEW i \in 1..Len(nodes[rtrans[t].k]),
         Overlap(rtrans[t].r, nodes[rtrans[t].k][i])
  PROVE  nodes[rtrans[t].k][i].rd > 0
<1> DEFINE k == rtrans[t].k
<1>1. k \in Keys
  BY ReadsRange DEF Inv
<1>2. t \in ReadersOf(k, nodes[k][i])
  BY DEF ReadersOf, ReadersIn
<1>3. nodes[k][i].rd = Cardinality(ReadersOf(k, nodes[k][i]))
  BY <1>1 DEF Inv, Exact
<1>4. /\ Cardinality(ReadersOf(k, nodes[k][i])) \in Nat
      /\ Cardinality(ReadersOf(k, nodes[k][i])) # 0
  BY <1>2, ReadersFinite
<1> QED  BY <1>3, <1>4

-----------------------------------------------------------------------------
(* What changes a vector: elements without readers go, one without readers *)
(* comes.                                                                  *)

\* The new vector ns has what es had, but what had no readers, and elements
\* without readers where es had none with readers.
Harmless(ns, es) ==
  /\ \A i \in 1..Len(ns) :
        \/ \E j \in 1..Len(es) : ns[i] = es[j]
        \/ /\ ns[i].rd = 0
           /\ \A j \in 1..Len(es) : Overlap(es[j], ns[i]) => es[j].rd = 0
  /\ \A j \in 1..Len(es) : es[j].rd > 0 => \E i \in 1..Len(ns) : ns[i] = es[j]

LEMMA ChangeKeeps ==
  ASSUME Inv, NEW k \in Keys, NEW ns \in Seq(Elem(k)), Vector(ns),
         Len(ns) <= MaxRanges, Harmless(ns, nodes[k]),
         nodes' = [nodes EXCEPT ![k] = ns], rtrans' = rtrans
  PROVE  Inv'
<1> DEFINE es == nodes[k]
<1>1. /\ Vector(es) /\ es \in Seq(Elem(k))
      /\ nodes'[k] = ns /\ \A q \in Keys : q # k => nodes'[q] = nodes[q]
  BY DEF Inv, Tables
<1>2. Tables'
  <2>1. nodes' = [q \in Keys |-> nodes'[q]]
    BY <1>1 DEF Inv, Tables
  <2>2. ASSUME NEW q \in Keys
        PROVE  /\ nodes'[q] \in Seq(Elem(q)) /\ Vector(nodes'[q])
               /\ Len(nodes'[q]) <= MaxRanges
    BY <1>1 DEF Inv, Tables
  <2> QED  BY <2>1, <2>2 DEF Tables
<1>3. Reading'
  BY DEF Inv, Reading
<1>4. \A q, e : ReadersOf(q, e)' = ReadersOf(q, e)
  BY DEF ReadersOf, ReadersIn
<1>5. ASSUME NEW i \in 1..Len(ns)
      PROVE  ns[i].rd = Cardinality(ReadersOf(k, ns[i]))
  <2>1. CASE \E j \in 1..Len(es) : ns[i] = es[j]
    BY <2>1 DEF Inv, Exact
  <2>2. CASE /\ ns[i].rd = 0
             /\ \A j \in 1..Len(es) : Overlap(es[j], ns[i]) => es[j].rd = 0
    <3>1. ASSUME NEW t \in ReadersOf(k, ns[i]) PROVE FALSE
      <4> DEFINE r == rtrans[t].r
                 x == IF r.beg <= ns[i].beg THEN ns[i].beg ELSE r.beg
      <4>1. t \in Readers /\ rtrans[t] # None /\ rtrans[t].k = k /\ Overlap(r, ns[i])
        BY <3>1 DEF ReadersOf, ReadersIn
      <4>2. r.beg \in Nat /\ r.end \in Nat /\ r.beg < r.end
        BY <4>1, ReadsRange DEF Inv
      <4>3. ns[i].beg \in Nat /\ ns[i].end \in Nat /\ ns[i].beg < ns[i].end
        BY LenOf
      <4>4. /\ x \in Nat /\ x \in r.beg..(r.end - 1)
            /\ ns[i].beg <= x /\ x < ns[i].end
        BY <4>1, <4>2, <4>3 DEF Overlap
      <4>5. PICK j \in 1..Len(es) : es[j].beg <= x /\ x < es[j].end
        <5>1. Held(es, x)
          BY <4>1, <4>4 DEF Inv, Served, Complete
        <5> QED  BY <5>1 DEF Held
      <4>6. es[j].beg \in Nat /\ es[j].end \in Nat
        BY <1>1, LenOf
      <4> HIDE DEF x, r
      <4>9. r.beg < es[j].end /\ es[j].beg < r.end
        BY <4>2, <4>4, <4>5, <4>6, SMTT(60)
      <4>10. es[j].beg < ns[i].end /\ ns[i].beg < es[j].end
        BY <4>3, <4>4, <4>5, <4>6, SMTT(60)
      <4>7. Overlap(r, es[j]) /\ Overlap(es[j], ns[i])
        BY <4>9, <4>10 DEF Overlap
      <4>8. es[j].rd > 0
        BY <4>1, <4>7, ReadHasReaders DEF r
      <4> QED  BY <2>2, <4>7, <4>8
    <3>2. ReadersOf(k, ns[i]) = {}
      BY <3>1
    <3> QED  BY <2>2, <3>2, FS_EmptySet
  <2> QED  BY <2>1, <2>2 DEF Harmless
<1>6. Exact'
  BY <1>1, <1>4, <1>5 DEF Inv, Exact
<1>7. ASSUME NEW t \in Readers, rtrans[t] # None
      PROVE  Complete(nodes'[rtrans[t].k], rtrans[t].r)
  <2>1. CASE rtrans[t].k # k
    BY <1>1, <1>7, <2>1, ReadsRange DEF Inv, Served
  <2>2. CASE rtrans[t].k = k
    <3> SUFFICES ASSUME NEW x \in rtrans[t].r.beg..(rtrans[t].r.end - 1)
                 PROVE  Held(ns, x)
      BY <1>1, <2>2 DEF Complete
    <3>1. PICK j \in 1..Len(es) : es[j].beg <= x /\ x < es[j].end
      BY <1>7, <2>2 DEF Inv, Served, Complete, Held
    <3>2. Overlap(rtrans[t].r, es[j])
      BY <1>1, <1>7, <3>1, ReadsRange, LenOf, SMTT(60) DEF Inv, Overlap
    <3>3. es[j].rd > 0
      BY <1>7, <2>2, <3>2, ReadHasReaders
    <3>4. \E i \in 1..Len(ns) : ns[i] = es[j]
      BY <3>3 DEF Harmless
    <3> QED  BY <3>1, <3>4 DEF Held
  <2> QED  BY <2>1, <2>2
<1>8. Served'
  BY <1>7 DEF Served
<1> QED  BY <1>2, <1>3, <1>6, <1>8 DEF Inv

\* e has taken the place of what overlaps it, which had no readers.
Puts(ns, es, e) ==
  LET over == Overlapping(es, e)
  IN  /\ \A j \in over : es[j].rd = 0
      /\ \E i \in 1..Len(ns) : ns[i] = e
      /\ \A i \in 1..Len(ns) : ns[i] = e \/
                               \E j \in (1..Len(es)) \ over : ns[i] = es[j]
      /\ Keeps(ns, es, (1..Len(es)) \ over)

\* The elements is, which had no readers, are gone.
Drops(ns, es, is) ==
  /\ \A j \in is : es[j].rd = 0
  /\ From(ns, es, (1..Len(es)) \ is)
  /\ Keeps(ns, es, (1..Len(es)) \ is)

LEMMA PutsIsHarmless ==
  ASSUME NEW es, NEW ns, NEW e, Vector(es), e.rd = 0, Puts(ns, es, e)
  PROVE  Harmless(ns, es)
<1>1. ASSUME NEW i \in 1..Len(ns), ns[i] = e,
             NEW j \in 1..Len(es), Overlap(es[j], e)
      PROVE  es[j].rd = 0
  <2>1. j \in Overlapping(es, e)
    BY <1>1 DEF Overlapping, Overlap
  <2> QED  BY <2>1 DEF Puts
<1>2. ASSUME NEW j \in 1..Len(es), es[j].rd > 0
      PROVE  \E i \in 1..Len(ns) : ns[i] = es[j]
  <2>1. j \notin Overlapping(es, e)
    BY <1>2, LenOf DEF Puts
  <2> QED  BY <2>1 DEF Puts, Keeps
<1>3. ASSUME NEW i \in 1..Len(ns)
      PROVE  ns[i] = e \/ \E j \in 1..Len(es) : ns[i] = es[j]
  BY DEF Puts
<1> QED  BY <1>1, <1>2, <1>3 DEF Harmless

LEMMA DropsIsHarmless ==
  ASSUME NEW es, NEW ns, NEW is, Vector(es), Drops(ns, es, is)
  PROVE  Harmless(ns, es)
<1>1. ASSUME NEW j \in 1..Len(es), es[j].rd > 0
      PROVE  \E i \in 1..Len(ns) : ns[i] = es[j]
  <2>1. j \notin is
    BY <1>1 DEF Drops
  <2> QED  BY <2>1 DEF Drops, Keeps
<1>2. ASSUME NEW i \in 1..Len(ns) PROVE \E j \in 1..Len(es) : ns[i] = es[j]
  BY DEF Drops, From
<1> QED  BY <1>1, <1>2 DEF Harmless

\* An element overlaps what its range overlaps.
LEMMA SameRange ==
  ASSUME NEW es, NEW e, NEW r, e.beg = r.beg, e.end = r.end
  PROVE  Overlapping(es, e) = Overlapping(es, r)
  BY DEF Overlapping, Overlap

\* What fs_table::add_entry counts for a range that replaces the elements over.
Charged(nc, c, cnt, es, over, r) ==
  \/ /\ es = <<>> /\ nc = IncEntries(c, 0, r)
     /\ ~(DataSize(cnt + 1, c.ranges) > MaxDataSize)
  \/ /\ es # <<>> /\ over = {} /\ nc = IncEntries(c, CalcIncCntRanges(Len(es)), r)
     /\ ~(DataSize(cnt, c.ranges + CalcIncCntRanges(Len(es))) > MaxDataSize)
  \/ /\ over # {}
     /\ nc = IncEntries(DecEntries(c, es, over),
                        CalcIncCntRanges(Len(es) - Cardinality(over)), r)

\* fs_table::add_entry refuses the range or puts it in.
LEMMA AddEntryPuts ==
  ASSUME NEW k \in Keys, NEW es \in Seq(Elem(k)), Vector(es),
         Len(es) <= MaxRanges, NEW r \in FragRanges(k), NEW cnt, NEW c
  PROVE  LET ns   == AddEntry(es, cnt, c, r).es
             nc   == AddEntry(es, cnt, c, r).c
             e    == [beg |-> r.beg, end |-> r.end, rd |-> 0]
             over == Overlapping(es, e)
         IN  /\ ns \in Seq(Elem(k)) /\ Vector(ns) /\ Len(ns) <= MaxRanges
             /\ \/ ns = es /\ nc = c
                \/ /\ Puts(ns, es, e) /\ Charged(nc, c, cnt, es, over, r)
                   /\ Cardinality(over) \in 0..Len(es)
                   /\ Len(ns) = Len(es) - Cardinality(over) + 1
<1> DEFINE e     == [beg |-> r.beg, end |-> r.end, rd |-> 0]
           found == FindInRange(es, r)
           ns    == AddEntry(es, cnt, c, r).es
           nc    == AddEntry(es, cnt, c, r).c
           rest  == RemRange(es, found)
<1>1. /\ Elem(k) \in SUBSET RangeElem /\ e \in Elem(k) /\ e \in RangeElem
      /\ e.beg < e.end /\ e.beg = r.beg /\ e.end = r.end
      /\ r \in Bounds /\ r.beg < r.end
  <2>1. r \in Bounds /\ r.beg < r.end /\ 0 \in 0..MaxReaders
    BY FragRangesAre, TableAssumption
  <2> QED  BY <2>1, ElemsAre
<1>2. found = Overlapping(es, r) /\ Overlapping(es, e) = Overlapping(es, r)
  BY <1>1, FindInRangeFinds, SameRange
<1>3. Len(es) \in Nat /\ MaxRanges \in Nat \ {0}
  BY LenOf, RangesAssumption
<1>4. CASE es = <<>>
  <2>0. found = {}
    BY <1>2, <1>4 DEF Overlapping
  <2>1. \/ ns = es /\ nc = c
        \/ ns = <<e>> /\ Charged(nc, c, cnt, es, found, r)
    BY <1>4, <2>0 DEF AddEntry, Charged
  <2>2. CASE ns = <<e>> /\ Charged(nc, c, cnt, es, found, r)
    <3>1. Len(ns) = 1 /\ ns[1] = e /\ ns \in Seq(Elem(k)) /\ ns \in Seq(RangeElem)
      BY <1>1, <2>2
    <3>2. Vector(ns)
      BY <1>1, <3>1 DEF Vector
    <3>3. Puts(ns, es, e)
      BY <1>4, <3>1 DEF Puts, Keeps, Overlapping
    <3> HIDE DEF ns, nc, e, found
    <3>4. Cardinality(found) = 0 /\ Len(es) = 0
      BY <1>4, <2>0, FS_EmptySet
    <3> QED  BY <1>2, <1>3, <2>2, <3>1, <3>2, <3>3, <3>4 DEF e, ns, nc
  <2> QED  BY <1>3, <2>1, <2>2
<1>5. CASE es # <<>> /\ found = {}
  <2>1. \/ ns = es /\ nc = c
        \/ /\ CanAddRange(es, r) /\ ns = AddRange(es, e)
           /\ Charged(nc, c, cnt, es, found, r)
    BY <1>5 DEF AddEntry, Charged
  <2>2. CASE /\ CanAddRange(es, r) /\ ns = AddRange(es, e)
             /\ Charged(nc, c, cnt, es, found, r)
    <3>1. Len(es) < MaxRanges
      BY <1>3, <2>2 DEF CanAddRange
    <3>2. /\ ns \in Seq(Elem(k)) /\ Vector(ns) /\ Len(ns) = Len(es) + 1
          /\ \E i \in 1..Len(ns) : ns[i] = e
          /\ \A i \in 1..Len(ns) : ns[i] = e \/ \E j \in 1..Len(es) : ns[i] = es[j]
          /\ Keeps(ns, es, 1..Len(es))
      <4>1. Overlapping(es, e) = {} /\ ns = AddRange(es, e)
        BY <1>2, <1>5, <2>2
      <4> HIDE DEF e, ns, found
      <4> QED  BY <1>1, <4>1, AddRangeAdds
    <3>3. Puts(ns, es, e)
      BY <1>2, <1>5, <3>2 DEF Puts, Keeps
    <3> HIDE DEF ns, nc, e, found
    <3>4. Cardinality(found) = 0
      BY <1>5, FS_EmptySet
    <3> QED  BY <1>2, <1>3, <2>2, <3>1, <3>2, <3>3, <3>4 DEF e, ns, nc
  <2> QED  BY <1>3, <2>1, <2>2
<1>6. CASE found # {}
  <2>0. es # <<>>
    BY <1>2, <1>6 DEF Overlapping
  <2>1. \/ ns = es /\ nc = c
        \/ /\ MayOverwrite(es, found) /\ ns = AddRange(rest, e)
           /\ nc = IncEntries(DecEntries(c, es, found),
                              CalcIncCntRanges(Len(rest)), r)
    BY <1>6, <2>0 DEF AddEntry
  <2>2. CASE /\ MayOverwrite(es, found) /\ ns = AddRange(rest, e)
             /\ nc = IncEntries(DecEntries(c, es, found),
                                CalcIncCntRanges(Len(rest)), r)
    <3> DEFINE over == Overlapping(es, r)
               left == (1..Len(es)) \ over
    <3>0. /\ rest \in Seq(Elem(k)) /\ Vector(rest)
          /\ IsFiniteSet(found) /\ Cardinality(found) \in 0..Len(es)
          /\ Len(rest) = Len(es) - Cardinality(found)
          /\ From(rest, es, left) /\ Keeps(rest, es, left)
      BY <1>1, <1>2, RemRangeRemoves
    <3> HIDE DEF rest, found, ns, nc, e
    <3>1. /\ rest \in Seq(Elem(k)) /\ Vector(rest) /\ Len(rest) < Len(es)
          /\ From(rest, es, left) /\ Keeps(rest, es, left)
      <4>1. Cardinality(found) # 0
        BY <1>6, <3>0, FS_EmptySet
      <4> QED  BY <1>3, <3>0, <4>1
    <3>2. Overlapping(rest, e) = {}
      <4> SUFFICES ASSUME NEW i \in 1..Len(rest), Overlap(e, rest[i]) PROVE FALSE
        BY DEF Overlapping
      <4>1. PICK j \in left : rest[i] = es[j]
        BY <3>1 DEF From
      <4> QED  BY <1>2, <4>1 DEF Overlapping
    <3>3. /\ ns \in Seq(Elem(k)) /\ Vector(ns) /\ Len(ns) = Len(rest) + 1
          /\ \E i \in 1..Len(ns) : ns[i] = e
          /\ \A i \in 1..Len(ns) : ns[i] = e \/
                                   \E j \in 1..Len(rest) : ns[i] = rest[j]
          /\ Keeps(ns, rest, 1..Len(rest))
      BY <1>1, <2>2, <3>1, <3>2, AddRangeAdds
    <3>4. Len(ns) <= MaxRanges
      BY <1>3, <3>1, <3>3, LenOf
    <3>5. \A j \in over : es[j].rd = 0
      BY <1>2, <2>2 DEF MayOverwrite
    <3>6. ASSUME NEW i \in 1..Len(ns)
          PROVE  ns[i] = e \/ \E j \in left : ns[i] = es[j]
      BY <3>1, <3>3 DEF From
    <3>7. Keeps(ns, es, left)
      BY <3>1, <3>3 DEF Keeps
    <3>8. Puts(ns, es, e)
      BY <1>2, <3>3, <3>5, <3>6, <3>7 DEF Puts
    <3>9. Charged(nc, c, cnt, es, found, r)
      BY <1>6, <2>2, <3>0 DEF Charged
    <3> QED  BY <1>2, <3>0, <3>3, <3>4, <3>8, <3>9 DEF ns, nc, e
  <2> QED  BY <1>3, <2>1, <2>2
<1> QED  BY <1>4, <1>5, <1>6

LEMMA AddNewFragmentKeeps ==
  ASSUME Inv, NEW k \in Keys, NEW r \in FragRanges(k), AddNewFragment(k, r)
  PROVE  Inv'
<1> DEFINE es  == nodes[k]
           cnt == Cardinality(NodesIn(nodes))
           ns  == AddEntry(es, cnt, counts, r).es
           e   == [beg |-> r.beg, end |-> r.end, rd |-> 0]
<1>1. es \in Seq(Elem(k)) /\ Vector(es) /\ Len(es) <= MaxRanges
  BY DEF Inv, Tables
<1>2. /\ ns \in Seq(Elem(k)) /\ Vector(ns) /\ Len(ns) <= MaxRanges
      /\ ns = es \/ Puts(ns, es, e)
  <2> HIDE DEF es, cnt
  <2> QED  BY <1>1, AddEntryPuts
<1>3. Harmless(ns, es)
  <2>1. Harmless(es, es)
    BY DEF Harmless
  <2>2. e.rd = 0
    OBVIOUS
  <2> HIDE DEF ns, es, e
  <2> QED  BY <1>1, <1>2, <2>1, <2>2, PutsIsHarmless
<1>4. nodes' = [nodes EXCEPT ![k] = ns] /\ rtrans' = rtrans
  BY DEF AddNewFragment
<1> HIDE DEF ns
<1> QED  BY <1>2, <1>3, <1>4, ChangeKeeps

\* fs_table::rem_entries of elements without readers.
LEMMA RemEntriesDrops ==
  ASSUME Inv, NEW k \in Keys, NEW is \in SUBSET (1..Len(nodes[k])),
         \A i \in is : nodes[k][i].rd = 0, RemEntries(k, is)
  PROVE  \E ns \in Seq(Elem(k)) :
            /\ Vector(ns) /\ Len(ns) <= MaxRanges
            /\ IsFiniteSet(is) /\ Cardinality(is) \in 0..Len(nodes[k])
            /\ Len(ns) = Len(nodes[k]) - Cardinality(is)
            /\ Drops(ns, nodes[k], is)
            /\ nodes' = [nodes EXCEPT ![k] = ns] /\ rtrans' = rtrans
<1> DEFINE es == nodes[k]
           n  == Len(es)
           m  == n - Cardinality(is)
<1>1. es \in Seq(Elem(k)) /\ Vector(es) /\ n <= MaxRanges
  BY DEF Inv, Tables
<1>2. n \in Nat /\ DOMAIN es = 1..n /\ \A i \in 1..n : es[i] \in Elem(k)
  BY <1>1, LenOf, ElementOfSeq
<1>3. /\ m \in Nat /\ m <= n
      /\ IsFiniteSet(is) /\ Cardinality(is) \in 0..n
  <2>1. IsFiniteSet(1..n) /\ Cardinality(1..n) = n
    BY <1>2, FS_Interval
  <2>2. IsFiniteSet(is) /\ Cardinality(is) \in Nat /\ Cardinality(is) <= n
    BY <2>1, FS_Subset, FS_CardinalityType
  <2> QED  BY <1>2, <2>2
<1>4. PICK at \in Remaining(es, is) :
        nodes' = [nodes EXCEPT ![k] = [i \in DOMAIN at |-> es[at[i]]]]
  BY DEF RemEntries, Inv, Tables
<1> DEFINE ns == [i \in DOMAIN at |-> es[at[i]]]
<1> HIDE DEF m, es
<1>5. /\ at \in [1..m -> (1..n) \ is]
      /\ Range(at) = (1..n) \ is
      /\ \A i, j \in 1..m : i < j => at[i] < at[j]
  <2>1. /\ at \in [1..m -> DOMAIN es \ is] /\ Range(at) = DOMAIN es \ is
        /\ \A i, j \in DOMAIN at : i < j => at[i] < at[j]
    BY DEF Remaining, m
  <2> QED  BY <1>2, <2>1
<1>6. at \in [1..m -> 1..n] /\ DOMAIN at = 1..m
  BY <1>5
<1>7. ns \in Seq(Elem(k)) /\ Len(ns) = m /\ \A i \in 1..m : ns[i] = es[at[i]]
  <2>1. ns \in [1..m -> Elem(k)]
    BY <1>2, <1>6
  <2>2. ns \in Seq(Elem(k))
    BY <1>3, <2>1, SeqDef
  <2>3. Len(ns) = m
    BY <1>3, <2>1, <2>2, LenProperties
  <2> QED  BY <1>6, <2>2, <2>3
<1> HIDE DEF ns
<1>8. Vector(ns)
  <2>1. Elem(k) \in SUBSET RangeElem
    BY ElemsAre
  <2> QED  BY <1>1, <1>3, <1>5, <1>6, <1>7, <2>1, PickedVector
<1>9. From(ns, es, (1..n) \ is)
  <2> SUFFICES ASSUME NEW i \in 1..m
               PROVE  \E j \in (1..n) \ is : ns[i] = es[j]
    BY <1>7 DEF From
  <2>1. at[i] \in (1..n) \ is /\ ns[i] = es[at[i]]
    BY <1>5, <1>7
  <2> QED  BY <2>1
<1>10. Keeps(ns, es, (1..n) \ is)
  <2> SUFFICES ASSUME NEW j \in (1..n) \ is
               PROVE  \E i \in 1..m : ns[i] = es[j]
    BY <1>7 DEF Keeps
  <2>1. PICK i \in 1..m : at[i] = j
    BY <1>5, <1>6 DEF Range
  <2> QED  BY <1>7, <2>1
<1>11. Drops(ns, es, is)
  BY <1>9, <1>10 DEF Drops, es
<1>12. Len(ns) <= MaxRanges
  <2>1. MaxRanges \in Nat
    BY RangesAssumption
  <2> QED  BY <1>1, <1>2, <1>3, <1>7, <2>1
<1>13. rtrans' = rtrans
  BY DEF RemEntries
<1>14. Len(ns) = n - Cardinality(is)
  BY <1>7 DEF m
<1> QED  BY <1>3, <1>4, <1>7, <1>8, <1>11, <1>12, <1>13, <1>14 DEF es, ns

\* What fsmd_rem_non_evac_frags and fsmd_begin_write_truncate remove.
Removed(k, is) ==
  /\ is \in SUBSET (1..Len(nodes[k])) /\ \A i \in is : nodes[k][i].rd = 0
  /\ RemEntries(k, is)

LEMMA RemNonEvacFragsRemoves ==
  ASSUME Inv, NEW k \in Keys, NEW rs, RemNonEvacFrags(k, rs)
  PROVE  \E is : Removed(k, is)
<1> DEFINE found == UNION {FindExactRange(nodes[k], r) : r \in rs}
           is    == {i \in found : nodes[k][i].rd = 0}
<1>1. Vector(nodes[k])
  BY DEF Inv, Tables
<1>2. found \subseteq 1..Len(nodes[k])
  <2>1. \A r : FindExactRange(nodes[k], r) \subseteq DOMAIN nodes[k]
    BY DEF FindExactRange
  <2> QED  BY <1>1, <2>1, LenOf
<1>3. RemEntries(k, is)
  BY DEF RemNonEvacFrags
<1> HIDE DEF found
<1>4. Removed(k, is)
  BY <1>2, <1>3 DEF Removed
<1> QED  BY <1>4

LEMMA TruncateRemoves ==
  ASSUME Inv, NEW k \in Keys, BeginWriteTruncate(k)
  PROVE  \E is : Removed(k, is)
<1>1. DOMAIN nodes[k] = 1..Len(nodes[k])
  BY LenOf DEF Inv, Tables
<1>2. Removed(k, DOMAIN nodes[k])
  BY <1>1 DEF Removed, BeginWriteTruncate, MayOverwrite
<1> QED  BY <1>2

LEMMA RemovedKeeps ==
  ASSUME Inv, NEW k \in Keys, NEW is, Removed(k, is)
  PROVE  Inv'
<1>1. PICK ns \in Seq(Elem(k)) :
            /\ Vector(ns) /\ Len(ns) <= MaxRanges
            /\ Drops(ns, nodes[k], is)
            /\ nodes' = [nodes EXCEPT ![k] = ns] /\ rtrans' = rtrans
  BY RemEntriesDrops DEF Removed
<1>2. Harmless(ns, nodes[k])
  BY <1>1, DropsIsHarmless DEF Inv, Tables
<1> QED  BY <1>1, <1>2, ChangeKeeps

-----------------------------------------------------------------------------
(* The readers come and go.                                                *)

\* Marking changes no bounds.
LEMMA SameBounds ==
  ASSUME NEW k \in Keys, NEW es \in Seq(Elem(k)), Vector(es),
         NEW ns \in [1..Len(es) -> Elem(k)],
         \A i \in 1..Len(es) : ns[i].beg = es[i].beg /\ ns[i].end = es[i].end
  PROVE  /\ ns \in Seq(Elem(k)) /\ Len(ns) = Len(es) /\ Vector(ns)
         /\ \A r : Complete(es, r) => Complete(ns, r)
<1>1. Len(es) \in Nat /\ Elem(k) \in SUBSET RangeElem
  BY LenOf, ElemsAre
<1>2. ns \in Seq(Elem(k)) /\ Len(ns) = Len(es)
  <2>1. ns \in Seq(Elem(k))
    BY <1>1, SeqDef
  <2> QED  BY <1>1, <2>1, LenProperties
<1>3. Vector(ns)
  <2>1. ns \in Seq(RangeElem)
    BY <1>1, <1>2, SeqMonotonic
  <2> QED  BY <1>2, <2>1 DEF Vector
<1>4. \A r : Complete(es, r) => Complete(ns, r)
  BY <1>2 DEF Complete, Held
<1> QED  BY <1>2, <1>3, <1>4

LEMMA BeginReadKeeps ==
  ASSUME Inv, NEW t \in Readers, NEW k \in Keys, NEW r \in ObjRanges(k),
         BeginRead(t, k, r)
  PROVE  Inv'
<1> DEFINE es    == nodes[k]
           found == FindFullRange(es, r)
           ns    == MarkReader(es, found)
           w     == [k |-> k, r |-> r]
<1>1. /\ es \in Seq(Elem(k)) /\ Vector(es) /\ Len(es) <= MaxRanges
      /\ Len(es) \in Nat /\ DOMAIN es = 1..Len(es)
      /\ \A i \in 1..Len(es) : es[i] \in Elem(k)
  BY LenOf, ElementOfSeq DEF Inv, Tables
<1>2. r \in Bounds /\ r.beg < r.end /\ w \in Trans /\ w # None
  BY ObjRangesAre, TransAre, TableAssumption
<1>3. /\ rtrans[t] = None /\ found # {}
      /\ \A i \in found : es[i].rd < MaxReaders
      /\ nodes' = [nodes EXCEPT ![k] = ns] /\ rtrans' = [rtrans EXCEPT ![t] = w]
  BY DEF BeginRead, Inv, Tables
<1>4. Complete(es, r) /\ found = Overlapping(es, r)
  BY <1>1, <1>2, <1>3, FindFullRangeFinds
<1>5. ASSUME NEW i \in 1..Len(es)
      PROVE  /\ ns[i] \in Elem(k)
             /\ ns[i].beg = es[i].beg /\ ns[i].end = es[i].end
             /\ ns[i].rd = IF i \in found THEN es[i].rd + 1 ELSE es[i].rd
  <2>1. ns[i] = IF i \in found THEN [es[i] EXCEPT !.rd = @ + 1] ELSE es[i]
    BY <1>1 DEF MarkReader
  <2>2. /\ es[i] \in Elem(k) /\ es[i] \in RangeElem
        /\ \A n \in 0..MaxReaders : [es[i] EXCEPT !.rd = n] \in Elem(k)
    BY <1>1, ElemsAre
  <2>3. CASE i \in found
    <3>1. es[i].rd + 1 \in 0..MaxReaders
      BY <1>3, <2>2, <2>3, TableAssumption, SMTT(60) DEF RangeElem
    <3>2. ns[i] = [es[i] EXCEPT !.rd = es[i].rd + 1]
      BY <2>1, <2>3
    <3>3. ns[i] \in Elem(k)
      BY <2>2, <3>1, <3>2
    <3> QED  BY <2>2, <2>3, <3>2, <3>3 DEF RangeElem
  <2>4. CASE i \notin found
    BY <2>1, <2>2, <2>4
  <2> QED  BY <2>3, <2>4
<1>6. ns \in [1..Len(es) -> Elem(k)]
  <2>1. ns = [i \in 1..Len(es) |-> ns[i]]
    BY <1>1 DEF MarkReader
  <2> HIDE DEF ns
  <2> QED  BY <1>5, <2>1
<1> HIDE DEF ns, w, found
<1>7. /\ ns \in Seq(Elem(k)) /\ Len(ns) = Len(es) /\ Vector(ns)
      /\ \A q : Complete(es, q) => Complete(ns, q)
  BY <1>1, <1>5, <1>6, SameBounds
<1>8. nodes'[k] = ns /\ \A q \in Keys : q # k => nodes'[q] = nodes[q]
  BY <1>3 DEF Inv, Tables
<1>9. Tables'
  <2>1. nodes' = [q \in Keys |-> nodes'[q]]
    BY <1>3 DEF Inv, Tables
  <2>2. ASSUME NEW q \in Keys
        PROVE  /\ nodes'[q] \in Seq(Elem(q)) /\ Vector(nodes'[q])
               /\ Len(nodes'[q]) <= MaxRanges
    BY <1>1, <1>7, <1>8 DEF Inv, Tables
  <2> QED  BY <2>1, <2>2 DEF Tables
<1>10. Reading'
  BY <1>2, <1>3 DEF Inv, Reading
<1>11. rtrans'[t] = w /\ \A u \in Readers : u # t => rtrans'[u] = rtrans[u]
  BY <1>3 DEF Inv, Reading
<1>12. ASSUME NEW q \in Keys, q # k, NEW e
       PROVE  ReadersIn(rtrans', q, e) = ReadersOf(q, e)
  BY <1>3, <1>11, <1>12 DEF ReadersOf, ReadersIn, w
<1>13. ASSUME NEW i \in 1..Len(es)
       PROVE  ns[i].rd = Cardinality(ReadersIn(rtrans', k, ns[i]))
  <2>1. es[i].rd = Cardinality(ReadersOf(k, es[i]))
    BY DEF Inv, Exact
  <2>2. CASE i \in found
    <3>1. Overlap(r, es[i])
      BY <1>4, <2>2 DEF Overlapping
    <3>2. ReadersIn(rtrans', k, ns[i]) = ReadersOf(k, es[i]) \cup {t}
      BY <1>2, <1>3, <1>5, <1>11, <3>1 DEF ReadersOf, ReadersIn, w, Overlap
    <3>3. t \notin ReadersOf(k, es[i])
      BY <1>3 DEF ReadersOf, ReadersIn
    <3>4. Cardinality(ReadersOf(k, es[i]) \cup {t}) = Cardinality(ReadersOf(k, es[i])) + 1
      BY <3>3, ReadersFinite, FS_AddElement
    <3> QED  BY <1>5, <2>1, <2>2, <3>2, <3>4
  <2>3. CASE i \notin found
    <3>1. ~Overlap(r, es[i])
      BY <1>4, <2>3 DEF Overlapping
    <3>2. ReadersIn(rtrans', k, ns[i]) = ReadersOf(k, es[i])
      BY <1>2, <1>3, <1>5, <1>11, <3>1 DEF ReadersOf, ReadersIn, w, Overlap
    <3> QED  BY <1>5, <2>1, <2>3, <3>2
  <2> QED  BY <2>2, <2>3
<1>14. Exact'
  <2> SUFFICES ASSUME NEW q \in Keys, NEW i \in 1..Len(nodes'[q])
               PROVE  nodes'[q][i].rd = Cardinality(ReadersIn(rtrans', q, nodes'[q][i]))
    BY DEF Exact, ReadersOf
  <2>1. CASE q = k
    BY <1>7, <1>8, <1>13, <2>1
  <2>2. CASE q # k
    BY <1>8, <1>12, <2>2 DEF Inv, Exact, ReadersOf
  <2> QED  BY <2>1, <2>2
<1>15. Served'
  <2> SUFFICES ASSUME NEW u \in Readers, rtrans'[u] # None
               PROVE  Complete(nodes'[rtrans'[u].k], rtrans'[u].r)
    BY DEF Served
  <2>1. CASE u = t
    BY <1>4, <1>7, <1>8, <1>11, <2>1 DEF w
  <2>2. CASE u # t
    <3>1. rtrans[u] # None /\ rtrans'[u] = rtrans[u] /\ rtrans[u].k \in Keys
      BY <1>11, <2>2, ReadsRange DEF Inv
    <3>2. Complete(nodes[rtrans[u].k], rtrans[u].r)
      BY <3>1 DEF Inv, Served
    <3> QED  BY <1>7, <1>8, <3>1, <3>2
  <2> QED  BY <2>1, <2>2
<1> QED  BY <1>9, <1>10, <1>14, <1>15 DEF Inv

LEMMA EndReadKeeps ==
  ASSUME Inv, NEW t \in Readers, EndRead(t)
  PROVE  Inv'
<1> DEFINE k     == rtrans[t].k
           r     == rtrans[t].r
           es    == nodes[k]
           found == FindFullRange(es, r)
           ns    == UnmarkReader(es, found)
<1>1. /\ rtrans[t] # None /\ k \in Keys
      /\ r \in Bounds /\ r.beg < r.end
  BY ReadsRange DEF EndRead, Inv
<1>2. /\ es \in Seq(Elem(k)) /\ Vector(es) /\ Len(es) <= MaxRanges
      /\ Len(es) \in Nat /\ DOMAIN es = 1..Len(es)
      /\ \A i \in 1..Len(es) : es[i] \in Elem(k)
  BY <1>1, LenOf, ElementOfSeq DEF Inv, Tables
<1>3. nodes' = [nodes EXCEPT ![k] = ns] /\ rtrans' = [rtrans EXCEPT ![t] = None]
  BY <1>1 DEF EndRead, Inv, Tables
<1>4. Complete(es, r) /\ found = Overlapping(es, r)
  BY <1>1, <1>2, FindFullRangeFinds DEF Inv, Served
<1>5. ASSUME NEW i \in 1..Len(es)
      PROVE  /\ ns[i] \in Elem(k)
             /\ ns[i].beg = es[i].beg /\ ns[i].end = es[i].end
             /\ ns[i].rd = IF i \in found THEN es[i].rd - 1 ELSE es[i].rd
  <2>1. ns[i] = IF i \in found THEN [es[i] EXCEPT !.rd = @ - 1] ELSE es[i]
    BY <1>2 DEF UnmarkReader
  <2>2. /\ es[i] \in Elem(k) /\ es[i] \in RangeElem /\ es[i].rd \in 0..MaxReaders
        /\ \A n \in 0..MaxReaders : [es[i] EXCEPT !.rd = n] \in Elem(k)
    BY <1>1, <1>2, ElemsAre
  <2>3. CASE i \in found
    <3>1. es[i].rd > 0
      BY <1>1, <1>4, <2>3, ReadHasReaders DEF Overlapping
    <3>2. es[i].rd - 1 \in 0..MaxReaders
      BY <2>2, <3>1, TableAssumption, SMTT(60)
    <3>3. ns[i] = [es[i] EXCEPT !.rd = es[i].rd - 1]
      BY <2>1, <2>3
    <3> HIDE DEF ns, es, found
    <3>4. ns[i] \in Elem(k)
      BY <2>2, <3>2, <3>3
    <3> QED  BY <2>2, <2>3, <3>3, <3>4 DEF RangeElem
  <2>4. CASE i \notin found
    BY <2>1, <2>2, <2>4
  <2> QED  BY <2>3, <2>4
<1>6. ns \in [1..Len(es) -> Elem(k)]
  <2>1. ns = [i \in 1..Len(es) |-> ns[i]]
    BY <1>2 DEF UnmarkReader
  <2> HIDE DEF ns
  <2> QED  BY <1>5, <2>1
<1> HIDE DEF ns, found
<1>7. /\ ns \in Seq(Elem(k)) /\ Len(ns) = Len(es) /\ Vector(ns)
      /\ \A q : Complete(es, q) => Complete(ns, q)
  BY <1>1, <1>2, <1>5, <1>6, SameBounds
<1>8. nodes'[k] = ns /\ \A q \in Keys : q # k => nodes'[q] = nodes[q]
  BY <1>1, <1>3 DEF Inv, Tables
<1>9. Tables'
  <2>1. nodes' = [q \in Keys |-> nodes'[q]]
    BY <1>3 DEF Inv, Tables
  <2>2. ASSUME NEW q \in Keys
        PROVE  /\ nodes'[q] \in Seq(Elem(q)) /\ Vector(nodes'[q])
               /\ Len(nodes'[q]) <= MaxRanges
    BY <1>2, <1>7, <1>8 DEF Inv, Tables
  <2> QED  BY <2>1, <2>2 DEF Tables
<1>10. Reading'
  BY <1>3 DEF Inv, Reading
<1>11. rtrans'[t] = None /\ \A u \in Readers : u # t => rtrans'[u] = rtrans[u]
  BY <1>3 DEF Inv, Reading
<1>12. ASSUME NEW q \in Keys, q # k, NEW e
       PROVE  ReadersIn(rtrans', q, e) = ReadersOf(q, e)
  BY <1>11, <1>12 DEF ReadersOf, ReadersIn
<1>13. ASSUME NEW i \in 1..Len(es)
       PROVE  ns[i].rd = Cardinality(ReadersIn(rtrans', k, ns[i]))
  <2>1. es[i].rd = Cardinality(ReadersOf(k, es[i]))
    BY <1>1 DEF Inv, Exact
  <2>2. CASE i \in found
    <3>1. t \in ReadersOf(k, es[i])
      BY <1>1, <1>4, <2>2 DEF Overlapping, ReadersOf, ReadersIn
    <3>2. ReadersIn(rtrans', k, ns[i]) = ReadersOf(k, es[i]) \ {t}
      BY <1>5, <1>11 DEF ReadersOf, ReadersIn, Overlap
    <3>3. Cardinality(ReadersOf(k, es[i]) \ {t}) = Cardinality(ReadersOf(k, es[i])) - 1
      <4> DEFINE now == ReadersOf(k, es[i])
      <4>1. IsFiniteSet(now) /\ t \in now
        BY <3>1, ReadersFinite
      <4> HIDE DEF now
      <4>2. Cardinality(now \ {t}) = Cardinality(now) - 1
        BY <4>1, FS_RemoveElement
      <4> QED  BY <4>2 DEF now
    <3> QED  BY <1>5, <2>1, <2>2, <3>2, <3>3
  <2>3. CASE i \notin found
    <3>1. ~Overlap(r, es[i])
      BY <1>4, <2>3 DEF Overlapping
    <3>2. ReadersIn(rtrans', k, ns[i]) = ReadersOf(k, es[i])
      BY <1>5, <1>11, <3>1 DEF ReadersOf, ReadersIn, Overlap
    <3> QED  BY <1>5, <2>1, <2>3, <3>2
  <2> QED  BY <2>2, <2>3
<1>14. Exact'
  <2> SUFFICES ASSUME NEW q \in Keys, NEW i \in 1..Len(nodes'[q])
               PROVE  nodes'[q][i].rd = Cardinality(ReadersIn(rtrans', q, nodes'[q][i]))
    BY DEF Exact, ReadersOf
  <2>1. CASE q = k
    BY <1>7, <1>8, <1>13, <2>1
  <2>2. CASE q # k
    BY <1>8, <1>12, <2>2 DEF Inv, Exact, ReadersOf
  <2> QED  BY <2>1, <2>2
<1>15. Served'
  <2> SUFFICES ASSUME NEW u \in Readers, rtrans'[u] # None
               PROVE  Complete(nodes'[rtrans'[u].k], rtrans'[u].r)
    BY DEF Served
  <2>1. /\ rtrans[u] # None /\ rtrans'[u] = rtrans[u] /\ rtrans[u].k \in Keys
    BY <1>11, ReadsRange DEF Inv
  <2>2. Complete(nodes[rtrans[u].k], rtrans[u].r)
    BY <2>1 DEF Inv, Served
  <2> QED  BY <1>7, <1>8, <2>1, <2>2
<1> QED  BY <1>9, <1>10, <1>14, <1>15 DEF Inv

\* Reading changes the marks of the elements of one vector and nothing else.
Marked(k) ==
  /\ \A q \in Keys \ {k} : nodes'[q] = nodes[q]
  /\ Len(nodes'[k]) = Len(nodes[k])
  /\ \A i \in 1..Len(nodes[k]) : /\ nodes'[k][i].beg = nodes[k][i].beg
                                 /\ nodes'[k][i].end = nodes[k][i].end

LEMMA BeginReadMarks ==
  ASSUME Inv, Inv', NEW t \in Readers, NEW k \in Keys, NEW r, BeginRead(t, k, r)
  PROVE  Marked(k)
<1> DEFINE es    == nodes[k]
           found == FindFullRange(es, r)
           ns    == MarkReader(es, found)
<1>1. Vector(es) /\ DOMAIN es = 1..Len(es) /\ Len(es) \in Nat
  BY LenOf DEF Inv, Tables
<1>2. nodes'[k] = ns /\ \A q \in Keys \ {k} : nodes'[q] = nodes[q]
  BY DEF BeginRead, Inv, Tables
<1>3. /\ DOMAIN ns = 1..Len(es)
      /\ \A i \in 1..Len(es) : ns[i] = IF i \in found THEN [es[i] EXCEPT !.rd = @ + 1]
                                                      ELSE es[i]
  BY <1>1 DEF MarkReader
<1>4. ASSUME NEW i \in 1..Len(es)
      PROVE  ns[i].beg = es[i].beg /\ ns[i].end = es[i].end
  <2>1. es[i] \in RangeElem
    BY <1>1, LenOf
  <2> HIDE DEF ns, found
  <2> QED  BY <1>3, <2>1 DEF RangeElem
<1> HIDE DEF ns, found, es
<1>5. Len(ns) = Len(es)
  <2>1. DOMAIN ns = 1..Len(ns) /\ Len(ns) \in Nat
    BY <1>2, LenProperties DEF Inv, Tables
  <2> QED  BY <1>1, <1>3, <2>1
<1> QED  BY <1>2, <1>4, <1>5 DEF Marked, es

LEMMA EndReadMarks ==
  ASSUME Inv, Inv', NEW t \in Readers, EndRead(t)
  PROVE  Marked(rtrans[t].k) /\ rtrans[t].k \in Keys
<1> DEFINE k     == rtrans[t].k
           es    == nodes[k]
           found == FindFullRange(es, rtrans[t].r)
           ns    == UnmarkReader(es, found)
<1>0. k \in Keys
  BY ReadsRange DEF EndRead, Inv
<1>1. Vector(es) /\ DOMAIN es = 1..Len(es) /\ Len(es) \in Nat
  BY <1>0, LenOf DEF Inv, Tables
<1>2. nodes'[k] = ns /\ \A q \in Keys \ {k} : nodes'[q] = nodes[q]
  BY <1>0 DEF EndRead, Inv, Tables
<1>3. /\ DOMAIN ns = 1..Len(es)
      /\ \A i \in 1..Len(es) : ns[i] = IF i \in found THEN [es[i] EXCEPT !.rd = @ - 1]
                                                      ELSE es[i]
  BY <1>1 DEF UnmarkReader
<1>4. ASSUME NEW i \in 1..Len(es)
      PROVE  ns[i].beg = es[i].beg /\ ns[i].end = es[i].end
  <2>1. es[i] \in RangeElem
    BY <1>1, LenOf
  <2> HIDE DEF ns, found
  <2> QED  BY <1>3, <2>1 DEF RangeElem
<1> HIDE DEF ns, found, es, k
<1>5. Len(ns) = Len(es)
  <2>1. DOMAIN ns = 1..Len(ns) /\ Len(ns) \in Nat
    BY <1>0, <1>2, LenProperties DEF Inv, Tables
  <2> QED  BY <1>1, <1>3, <2>1
<1> QED  BY <1>0, <1>2, <1>4, <1>5 DEF Marked, es, k

-----------------------------------------------------------------------------
(* The invariant and what follows from it.                                 *)

LEMMA InitInv == Init => Inv
<1> SUFFICES ASSUME Init PROVE Inv
  OBVIOUS
<1>1. Tables
  <2> SUFFICES ASSUME NEW k \in Keys
               PROVE  /\ nodes[k] \in Seq(Elem(k)) /\ Vector(nodes[k])
                      /\ Len(nodes[k]) <= MaxRanges
    BY DEF Init, Tables
  <2>1. nodes[k] = <<>> /\ Len(nodes[k]) = 0
    BY DEF Init
  <2>2. nodes[k] \in Seq(Elem(k)) /\ nodes[k] \in Seq(RangeElem)
    BY <2>1
  <2> QED  BY <2>1, <2>2, RangesAssumption DEF Vector
<1>2. Reading
  BY DEF Init, Reading
<1>3. Exact
  BY DEF Init, Exact
<1>4. Served
  BY DEF Init, Served
<1> QED  BY <1>1, <1>2, <1>3, <1>4 DEF Inv

LEMMA NextInv == Inv /\ [Next]_vars => Inv'
<1> SUFFICES ASSUME Inv, [Next]_vars PROVE Inv'
  OBVIOUS
<1>1. ASSUME NEW k \in Keys, NEW r \in FragRanges(k), AddNewFragment(k, r)
      PROVE  Inv'
  BY <1>1, AddNewFragmentKeeps
<1>2. ASSUME NEW k \in Keys, NEW rs, RemNonEvacFrags(k, rs) PROVE Inv'
  BY <1>2, RemNonEvacFragsRemoves, RemovedKeeps
<1>3. ASSUME NEW k \in Keys, BeginWriteTruncate(k) PROVE Inv'
  BY <1>3, TruncateRemoves, RemovedKeeps
<1>4. ASSUME NEW t \in Readers, NEW k \in Keys, NEW r \in ObjRanges(k),
             BeginRead(t, k, r)
      PROVE  Inv'
  BY <1>4, BeginReadKeeps
<1>5. ASSUME NEW t \in Readers, EndRead(t) PROVE Inv'
  BY <1>5, EndReadKeeps
<1>6. CASE UNCHANGED vars
  <2>1. nodes' = nodes /\ rtrans' = rtrans
    BY <1>6 DEF vars
  <2>2. Tables' /\ Reading' /\ Exact' /\ Served'
    BY <2>1 DEF Inv, Tables, Reading, Exact, Served, ReadersOf, ReadersIn
  <2> QED  BY <2>2 DEF Inv
<1> QED  BY <1>1, <1>2, <1>3, <1>4, <1>5, <1>6 DEF Next

\* Vectors are sorted, counts exact and readers served in every state.
THEOREM TableInvariance == Spec => []Inv
<1> QED  BY InitInv, NextInv, PTL DEF Spec

\* fsmd_end_read takes the marks of exactly the elements that fsmd_begin_read
\* has marked, whatever came and went around them.
THEOREM ReadersAlwaysExact == Spec => []ReadersExact
<1>1. Inv => ReadersExact
  <2> SUFFICES ASSUME Inv, NEW k \in Keys, NEW i \in DOMAIN nodes[k]
               PROVE  nodes[k][i].rd = Cardinality({t \in Readers :
                        /\ rtrans[t] # None /\ rtrans[t].k = k
                        /\ Overlap(rtrans[t].r, nodes[k][i])})
    BY DEF ReadersExact
  <2>1. i \in 1..Len(nodes[k])
    BY LenOf DEF Inv, Tables
  <2> QED  BY <2>1 DEF Inv, Exact, ReadersOf, ReadersIn
<1> QED  BY <1>1, TableInvariance, PTL

\* The binary searches of every vector find what they should.
THEOREM SearchesAlwaysFind == Spec => []SearchesFind
<1>1. Inv => SearchesFind
  <2> SUFFICES ASSUME Inv, NEW k \in Keys, NEW r \in Ranges(k, 1, ObjSize[k])
               PROVE  /\ FindInRange(nodes[k], r) = Here(k, r)
                      /\ FindFullRange(nodes[k], r) =
                            IF Missing(k, r) = {} THEN Here(k, r) ELSE {}
    BY DEF SearchesFind
  <2>1. r \in Bounds /\ r.beg < r.end
    <3>1. 1 \in Nat \ {0} /\ ObjSize[k] \in Nat
      BY TableAssumption
    <3> QED  BY <3>1, RangesAre
  <2>2. Vector(nodes[k]) /\ DOMAIN nodes[k] = 1..Len(nodes[k])
    BY LenOf DEF Inv, Tables
  <2>3. Here(k, r) = Overlapping(nodes[k], r)
    BY <2>2 DEF Here, Overlapping
  <2>4. Missing(k, r) = {} <=> Complete(nodes[k], r)
    BY <2>2 DEF Missing, Holds, Complete, Held
  <2> QED  BY <2>1, <2>2, <2>3, <2>4, FindInRangeFinds, FindFullRangeFinds
<1> QED  BY <1>1, TableInvariance, PTL

\* A write transaction gets the bytes from the first to the last one that are
\* missing, or nothing when they are less than the smallest object.
THEOREM WritesGetMissing == Spec => []WritesMissing
<1>1. Inv => WritesMissing
  <2> SUFFICES ASSUME Inv, NEW k \in Keys, NEW r \in ObjRanges(k)
               PROVE  LET miss == Missing(k, r)
                          want == [beg |-> Min(miss), end |-> Max(miss) + 1]
                      IN  BeginWrite(k, r) =
                            IF miss # {} /\ Length(want) >= MinObjSize THEN want
                            ELSE NoRange
    BY DEF WritesMissing
  <2> DEFINE es   == nodes[k]
             want == [beg |-> Min(Lacks(es, r)), end |-> Max(Lacks(es, r)) + 1]
  <2>1. r \in Bounds /\ r.beg < r.end /\ MinObjSize <= Length(r)
    <3>1. Length(r) \in MinObjSize..ObjSize[k] /\ MinObjSize \in Nat
      BY RangesAssumption DEF ObjRanges, Ranges
    <3> QED  BY <3>1, ObjRangesAre
  <2>2. Vector(es) /\ DOMAIN es = 1..Len(es)
    BY LenOf DEF Inv, Tables
  <2>3. Missing(k, r) = Lacks(es, r)
    BY <2>2 DEF Missing, Holds, Lacks, Held
  <2>4. TrimOverlaps(es, r) =
          IF Lacks(es, r) # {} /\ Length(want) >= MinObjSize THEN want ELSE NoRange
    BY <2>1, <2>2, TrimOverlapsTrims
  <2>5. BeginWrite(k, r) = TrimOverlaps(es, r)
    <3>1. CASE es # <<>>
      BY <3>1 DEF BeginWrite
    <3>2. CASE es = <<>>
      <4>1. Overlapping(es, r) = {}
        BY <3>2 DEF Overlapping
      <4>2. FindInRange(es, r) = {}
        BY <2>1, <2>2, <4>1, FindInRangeFinds
      <4> QED  BY <3>2, <4>2 DEF BeginWrite, TrimOverlaps
    <3> QED  BY <3>1, <3>2
  <2> QED  BY <2>3, <2>4, <2>5
<1> QED  BY <1>1, TableInvariance, PTL

-----------------------------------------------------------------------------
(* The counts.  Each is the size of a set that is made of one set for each *)
(* object, so a change of one object's vector changes it by what it        *)
(* changes the object's set (TotalChanges); the elements of a vector do    *)
(* not overlap, so their lengths are the bytes they hold (BytesAreHeld).   *)

AllOf(of)      == UNION {{q} \X of[q] : q \in Keys}
StoredIn(es)   == {x \in 0..MaxObjSize : \E i \in DOMAIN es :
                        es[i].beg <= x /\ x < es[i].end}
HeldBy(es, is) == {x \in 0..MaxObjSize : \E i \in is :
                        es[i].beg <= x /\ x < es[i].end}
HeapOf(n)      == IF n > 1 THEN n ELSE 0

CountInv ==
  /\ IsFiniteSet(AllOf(InHeap)) /\ IsFiniteSet(AllOf(Entries))
  /\ IsFiniteSet(AllOf(Stored)) /\ IsFiniteSet(NodesIn(nodes))
  /\ CountsExact

LEMMA SingletonProduct ==
  ASSUME NEW k, NEW S, IsFiniteSet(S)
  PROVE  IsFiniteSet({k} \X S) /\ Cardinality({k} \X S) = Cardinality(S)
<1>1. IsFiniteSet({k}) /\ Cardinality({k}) = 1
  BY FS_Singleton
<1>2. /\ IsFiniteSet({k} \X S)
      /\ Cardinality({k} \X S) = Cardinality({k}) * Cardinality(S)
  BY <1>1, FS_Product
<1>3. Cardinality(S) \in Nat
  BY FS_CardinalityType
<1> QED  BY <1>1, <1>2, <1>3

LEMMA DisjointUnion ==
  ASSUME NEW S, NEW T, IsFiniteSet(S), IsFiniteSet(T), S \cap T = {}
  PROVE  /\ IsFiniteSet(S \cup T)
         /\ Cardinality(S \cup T) = Cardinality(S) + Cardinality(T)
<1>1. Cardinality(S \cap T) = 0
  BY FS_EmptySet
<1>2. Cardinality(S) \in Nat /\ Cardinality(T) \in Nat
  BY FS_CardinalityType
<1>3. /\ IsFiniteSet(S \cup T)
      /\ Cardinality(S \cup T) =
            Cardinality(S) + Cardinality(T) - Cardinality(S \cap T)
  BY FS_Union
<1> QED  BY <1>1, <1>2, <1>3

LEMMA WithoutSubset ==
  ASSUME NEW S, IsFiniteSet(S), NEW T \in SUBSET S
  PROVE  /\ IsFiniteSet(S \ T)
         /\ Cardinality(S \ T) = Cardinality(S) - Cardinality(T)
<1>1. S \cap T = T
  OBVIOUS
<1> QED  BY <1>1, FS_Difference

LEMMA TotalChanges ==
  ASSUME NEW F, NEW G, NEW k \in Keys,
         \A q \in Keys \ {k} : G[q] = F[q],
         IsFiniteSet(AllOf(F)), IsFiniteSet(F[k]), IsFiniteSet(G[k])
  PROVE  /\ IsFiniteSet(AllOf(G)) /\ Total(F) \in Nat
         /\ Total(G) = Total(F) - Cardinality(F[k]) + Cardinality(G[k])
<1> DEFINE old  == {k} \X F[k]
           new  == {k} \X G[k]
           rest == AllOf(F) \ old
<1>1. /\ IsFiniteSet(old) /\ Cardinality(old) = Cardinality(F[k])
      /\ IsFiniteSet(new) /\ Cardinality(new) = Cardinality(G[k])
  BY SingletonProduct
<1>2. old \in SUBSET AllOf(F)
  BY DEF AllOf
<1>3. AllOf(G) = rest \cup new
  <2>1. ASSUME NEW p \in AllOf(G) PROVE p \in rest \cup new
    <3>1. PICK q \in Keys : p \in {q} \X G[q]
      BY DEF AllOf
    <3>2. CASE q = k
      BY <3>1, <3>2
    <3>3. CASE q # k
      <4>1. p \in {q} \X F[q]
        BY <3>1, <3>3
      <4>2. p \in AllOf(F)
        BY <4>1 DEF AllOf
      <4>3. p \notin old
        BY <3>3, <4>1
      <4> QED  BY <4>2, <4>3
    <3> QED  BY <3>2, <3>3
  <2>2. ASSUME NEW p \in rest PROVE p \in AllOf(G)
    <3>1. PICK q \in Keys : p \in {q} \X F[q]
      BY DEF AllOf
    <3>2. q # k
      BY <3>1
    <3>3. p \in {q} \X G[q]
      BY <3>1, <3>2
    <3> QED  BY <3>3 DEF AllOf
  <2>3. new \in SUBSET AllOf(G)
    BY DEF AllOf
  <2> HIDE DEF rest, new
  <2> QED  BY <2>1, <2>2, <2>3
<1>4. rest \cap new = {}
  <2> SUFFICES ASSUME NEW p \in rest, p \in new PROVE FALSE
    OBVIOUS
  <2>1. PICK q \in Keys : p \in {q} \X F[q]
    BY DEF AllOf
  <2>2. q = k
    BY <2>1
  <2> QED  BY <2>1, <2>2
<1> HIDE DEF old, new
<1>5. /\ IsFiniteSet(rest)
      /\ Cardinality(rest) = Cardinality(AllOf(F)) - Cardinality(old)
  BY <1>1, <1>2, WithoutSubset
<1> HIDE DEF rest
<1>6. /\ IsFiniteSet(rest \cup new)
      /\ Cardinality(rest \cup new) = Cardinality(rest) + Cardinality(new)
  BY <1>1, <1>4, <1>5, DisjointUnion
<1>7. Total(F) = Cardinality(AllOf(F)) /\ Total(G) = Cardinality(AllOf(G))
  BY DEF Total, AllOf
<1>8. Cardinality(AllOf(F)) \in Nat
  BY FS_CardinalityType
<1> QED  BY <1>1, <1>3, <1>5, <1>6, <1>7, <1>8

\* The lengths of elements are the bytes they hold.
LEMMA BytesAreHeld ==
  ASSUME NEW es, Vector(es), NEW is \in SUBSET (1..Len(es)), IsFiniteSet(is)
  PROVE  /\ IsFiniteSet(HeldBy(es, is))
         /\ Bytes(es, is) = Cardinality(HeldBy(es, is))
<1> DEFINE B == BytesOf(es, is)
           H == HeldBy(es, is)
           f == [b \in B |-> b[2]]
<1>1. IsFiniteSet(B)
  <2>1. IsFiniteSet(0..MaxObjSize)
    BY FS_Interval, TableAssumption
  <2>2. IsFiniteSet(is \X (0..MaxObjSize))
    BY <2>1, FS_Product
  <2>3. B \in SUBSET (is \X (0..MaxObjSize))
    BY DEF BytesOf
  <2> QED  BY <2>2, <2>3, FS_Subset
<1>2. \A b \in B : /\ b \in is \X (0..MaxObjSize) /\ b[1] \in is
                   /\ b[2] \in 0..MaxObjSize /\ b = <<b[1], b[2]>>
                   /\ es[b[1]].beg <= b[2] /\ b[2] < es[b[1]].end
  BY DEF BytesOf
<1>3. f \in [B -> H]
  BY <1>2 DEF HeldBy
<1>4. ASSUME NEW b \in B, NEW c \in B, b[2] = c[2] PROVE b = c
  <2>1. /\ b[1] \in 1..Len(es) /\ c[1] \in 1..Len(es)
        /\ b[2] \in Nat
        /\ es[b[1]].beg <= b[2] /\ b[2] < es[b[1]].end
        /\ es[c[1]].beg <= b[2] /\ b[2] < es[c[1]].end
    BY <1>2, <1>4, TableAssumption
  <2>2. ~(b[1] < c[1])
    <3> SUFFICES ASSUME b[1] < c[1] PROVE FALSE
      OBVIOUS
    <3>1. es[b[1]].end <= es[c[1]].beg
      BY <2>1 DEF Vector
    <3> QED  BY <2>1, <3>1, LenOf
  <2>3. ~(c[1] < b[1])
    <3> SUFFICES ASSUME c[1] < b[1] PROVE FALSE
      OBVIOUS
    <3>1. es[c[1]].end <= es[b[1]].beg
      BY <2>1 DEF Vector
    <3> QED  BY <2>1, <3>1, LenOf
  <2>4. b[1] = c[1]
    BY <2>1, <2>2, <2>3, LenOf
  <2> QED  BY <1>2, <1>4, <2>4
<1>5. ASSUME NEW x \in H PROVE \E b \in B : f[b] = x
  <2>1. PICK i \in is : es[i].beg <= x /\ x < es[i].end
    BY DEF HeldBy
  <2>2. <<i, x>> \in B
    BY <2>1 DEF BytesOf, HeldBy
  <2> QED  BY <2>2
<1>6. f \in Bijection(B, H)
  BY <1>3, <1>4, <1>5 DEF Bijection, Injection, Surjection, IsInjective
<1>7. ExistsBijection(B, H)
  BY <1>6 DEF ExistsBijection
<1> HIDE DEF B, H
<1>8. IsFiniteSet(H) /\ Cardinality(H) = Cardinality(B)
  BY <1>1, <1>7, FS_Bijection
<1> QED  BY <1>8 DEF B, H, Bytes

LEMMA StoredFinite ==
  ASSUME NEW es
  PROVE  IsFiniteSet(StoredIn(es)) /\ Cardinality(StoredIn(es)) \in Nat
<1>1. IsFiniteSet(0..MaxObjSize)
  BY FS_Interval, TableAssumption
<1>2. StoredIn(es) \in SUBSET (0..MaxObjSize)
  BY DEF StoredIn
<1> QED  BY <1>1, <1>2, FS_Subset, FS_CardinalityType

\* What the elements but is hold is all but what is hold.
LEMMA HeldByOthers ==
  ASSUME NEW es, Vector(es), NEW is \in SUBSET (1..Len(es)), IsFiniteSet(is)
  PROVE  LET rest == HeldBy(es, (1..Len(es)) \ is)
         IN  /\ rest = StoredIn(es) \ HeldBy(es, is)
             /\ IsFiniteSet(rest)
             /\ Cardinality(rest) = Cardinality(StoredIn(es)) - Bytes(es, is)
<1> DEFINE rest == HeldBy(es, (1..Len(es)) \ is)
           all  == StoredIn(es)
           gone == HeldBy(es, is)
<1>1. DOMAIN es = 1..Len(es)
  BY LenOf
<1>2. gone \in SUBSET all
  BY <1>1 DEF HeldBy, StoredIn
<1>3. all \ gone \subseteq rest /\ rest \subseteq all
  BY <1>1 DEF HeldBy, StoredIn
<1>4. ASSUME NEW x \in rest, x \in gone PROVE FALSE
  <2>1. PICK i \in (1..Len(es)) \ is : es[i].beg <= x /\ x < es[i].end
    BY DEF HeldBy
  <2>2. PICK j \in is : es[j].beg <= x /\ x < es[j].end
    BY <1>4 DEF HeldBy
  <2>3. x \in Nat /\ i \in 1..Len(es) /\ j \in 1..Len(es)
    BY TableAssumption DEF HeldBy
  <2>4. es[i].end <= es[j].beg \/ es[j].end <= es[i].beg
    <3>1. i < j \/ j < i
      BY <2>1, <2>2, <2>3, LenOf
    <3> QED  BY <2>3, <3>1 DEF Vector
  <2> QED  BY <2>1, <2>2, <2>3, <2>4, LenOf
<1>5. rest = all \ gone
  <2> HIDE DEF rest, all, gone
  <2> QED  BY <1>3, <1>4
<1>6. IsFiniteSet(all)
  BY StoredFinite
<1>7. Cardinality(gone) = Bytes(es, is)
  BY BytesAreHeld
<1> HIDE DEF rest, all, gone
<1>8. IsFiniteSet(all \ gone) /\ Cardinality(all \ gone) = Cardinality(all) - Cardinality(gone)
  BY <1>2, <1>6, WithoutSubset
<1> QED  BY <1>5, <1>7, <1>8 DEF rest, all, gone

\* The bytes of an object after elements are gone.
LEMMA StoredAfterDrop ==
  ASSUME NEW es, NEW ns, Vector(es), Vector(ns),
         NEW is \in SUBSET (1..Len(es)), IsFiniteSet(is), Drops(ns, es, is)
  PROVE  Cardinality(StoredIn(ns)) = Cardinality(StoredIn(es)) - Bytes(es, is)
<1>1. DOMAIN ns = 1..Len(ns)
  BY LenOf
<1>2. StoredIn(ns) = HeldBy(es, (1..Len(es)) \ is)
  BY <1>1 DEF Drops, From, Keeps, StoredIn, HeldBy
<1> QED  BY <1>2, HeldByOthers

\* And after one has replaced those that it overlaps.
LEMMA StoredAfterPut ==
  ASSUME NEW es, NEW ns, Vector(es), Vector(ns), NEW e \in RangeElem,
         e.beg < e.end, e.end <= MaxObjSize, Puts(ns, es, e)
  PROVE  Cardinality(StoredIn(ns)) =
            Cardinality(StoredIn(es)) - Bytes(es, Overlapping(es, e)) + Length(e)
<1> DEFINE over == Overlapping(es, e)
           rest == HeldBy(es, (1..Len(es)) \ over)
           new  == e.beg..(e.end - 1)
<1>1. DOMAIN ns = 1..Len(ns) /\ e.beg \in Nat /\ e.end \in Nat /\ MaxObjSize \in Nat
  BY LenOf, TableAssumption DEF RangeElem
<1>2. over \in SUBSET (1..Len(es)) /\ IsFiniteSet(over)
  <2>1. IsFiniteSet(1..Len(es))
    BY LenOf, FS_Interval
  <2>2. over \in SUBSET (1..Len(es))
    BY DEF Overlapping
  <2> QED  BY <2>1, <2>2, FS_Subset
<1>3. StoredIn(ns) = rest \cup new
  <2>1. ASSUME NEW x \in StoredIn(ns) PROVE x \in rest \cup new
    <3>1. PICK i \in 1..Len(ns) : ns[i].beg <= x /\ x < ns[i].end
      BY <1>1 DEF StoredIn
    <3>2. x \in 0..MaxObjSize
      BY DEF StoredIn
    <3>3. CASE ns[i] = e
      <4>1. x \in new
        BY <1>1, <3>1, <3>2, <3>3
      <4> QED  BY <4>1
    <3>4. CASE \E j \in (1..Len(es)) \ over : ns[i] = es[j]
      BY <3>1, <3>2, <3>4 DEF HeldBy
    <3> QED  BY <3>3, <3>4 DEF Puts
  <2>2. ASSUME NEW x \in rest PROVE x \in StoredIn(ns)
    <3>1. PICK j \in (1..Len(es)) \ over : es[j].beg <= x /\ x < es[j].end
      BY DEF HeldBy
    <3>2. PICK i \in 1..Len(ns) : ns[i] = es[j]
      BY DEF Puts, Keeps
    <3> QED  BY <1>1, <3>1, <3>2 DEF HeldBy, StoredIn
  <2>3. ASSUME NEW x \in new PROVE x \in StoredIn(ns)
    <3>1. PICK i \in 1..Len(ns) : ns[i] = e
      BY DEF Puts
    <3>2. x \in 0..MaxObjSize /\ e.beg <= x /\ x < e.end
      BY <1>1
    <3> QED  BY <1>1, <3>1, <3>2 DEF StoredIn
  <2> HIDE DEF rest, new
  <2> QED  BY <2>1, <2>2, <2>3
<1>4. rest \cap new = {}
  <2> SUFFICES ASSUME NEW x \in rest, x \in new PROVE FALSE
    OBVIOUS
  <2>1. PICK j \in (1..Len(es)) \ over : es[j].beg <= x /\ x < es[j].end
    BY DEF HeldBy
  <2>2. x \in Nat /\ e.beg <= x /\ x < e.end
    BY <1>1
  <2>3. Overlap(e, es[j])
    BY <1>1, <2>1, <2>2, LenOf DEF Overlap
  <2> QED  BY <2>3 DEF Overlapping
<1>5. IsFiniteSet(new) /\ Cardinality(new) = Length(e)
  <2>1. /\ e.beg \in Int /\ e.end - 1 \in Int /\ ~(e.beg > e.end - 1)
        /\ (e.end - 1) - e.beg + 1 = e.end - e.beg
    BY <1>1
  <2>2. IsFiniteSet(new) /\ Cardinality(new) = (e.end - 1) - e.beg + 1
    BY <2>1, FS_Interval
  <2> QED  BY <2>1, <2>2 DEF Length
<1>6. /\ IsFiniteSet(rest)
      /\ Cardinality(rest) = Cardinality(StoredIn(es)) - Bytes(es, over)
  BY <1>2, HeldByOthers
<1> HIDE DEF rest, new, over
<1>7. Cardinality(StoredIn(ns)) = Cardinality(rest) + Cardinality(new)
  BY <1>3, <1>4, <1>5, <1>6, DisjointUnion
<1> QED  BY <1>5, <1>6, <1>7 DEF over

HeapSet(es) == {i \in DOMAIN es : Len(es) > 1}

LEMMA OfVector ==
  ASSUME NEW es, Vector(es)
  PROVE  /\ IsFiniteSet(HeapSet(es)) /\ Cardinality(HeapSet(es)) = HeapOf(Len(es))
         /\ IsFiniteSet(DOMAIN es) /\ Cardinality(DOMAIN es) = Len(es)
<1> DEFINE n == Len(es)
<1>1. n \in Nat /\ DOMAIN es = 1..n
  BY LenOf
<1>2. HeapSet(es) = IF n > 1 THEN 1..n ELSE {}
  BY <1>1 DEF HeapSet
<1> HIDE DEF n
<1>3. IsFiniteSet(1..n) /\ Cardinality(1..n) = n
  BY <1>1, FS_Interval
<1>4. IsFiniteSet(HeapSet(es)) /\ Cardinality(HeapSet(es)) = HeapOf(n)
  BY <1>2, <1>3, FS_EmptySet DEF HeapOf
<1> QED  BY <1>1, <1>3, <1>4 DEF n

\* A change of one vector, with the counts that go with it.
LEMMA ChangeCounts ==
  ASSUME Inv, Inv', CountInv, NEW k \in Keys,
         \A q \in Keys \ {k} : nodes'[q] = nodes[q],
         counts'.ranges =
            counts.ranges - HeapOf(Len(nodes[k])) + HeapOf(Len(nodes'[k])),
         counts'.entries = counts.entries - Len(nodes[k]) + Len(nodes'[k]),
         counts'.bytes = counts.bytes - Cardinality(StoredIn(nodes[k]))
                                      + Cardinality(StoredIn(nodes'[k])),
         DataSize(Cardinality(NodesIn(nodes)), counts.ranges)' <= MaxDataSize,
         IsFiniteSet(NodesIn(nodes))'
  PROVE  CountInv'
<1>1. Vector(nodes[k]) /\ Vector(nodes[k])'
  BY DEF Inv, Tables
<1>2. /\ IsFiniteSet(InHeap[k]) /\ Cardinality(InHeap[k]) = HeapOf(Len(nodes[k]))
      /\ IsFiniteSet(Entries[k]) /\ Cardinality(Entries[k]) = Len(nodes[k])
      /\ Stored[k] = StoredIn(nodes[k]) /\ IsFiniteSet(Stored[k])
  <2>1. InHeap[k] = HeapSet(nodes[k]) /\ Entries[k] = DOMAIN nodes[k]
    BY DEF InHeap, HeapSet, Entries
  <2>2. Stored[k] = StoredIn(nodes[k])
    BY DEF Stored, StoredIn, Holds
  <2> QED  BY <1>1, <2>1, <2>2, OfVector, StoredFinite
<1>3. /\ IsFiniteSet(InHeap'[k])
      /\ Cardinality(InHeap'[k]) = HeapOf(Len(nodes'[k]))
      /\ IsFiniteSet(Entries'[k]) /\ Cardinality(Entries'[k]) = Len(nodes'[k])
      /\ Stored'[k] = StoredIn(nodes'[k]) /\ IsFiniteSet(Stored'[k])
  <2>0. Vector(nodes'[k])
    BY <1>1
  <2>1. InHeap'[k] = HeapSet(nodes'[k]) /\ Entries'[k] = DOMAIN nodes'[k]
    BY DEF InHeap, HeapSet, Entries
  <2>2. Stored'[k] = StoredIn(nodes'[k])
    BY DEF Stored, StoredIn, Holds
  <2> QED  BY <2>0, <2>1, <2>2, OfVector, StoredFinite
<1>4. /\ \A q \in Keys \ {k} : InHeap'[q] = InHeap[q]
      /\ \A q \in Keys \ {k} : Entries'[q] = Entries[q]
      /\ \A q \in Keys \ {k} : Stored'[q] = Stored[q]
  BY DEF InHeap, Entries, Stored, Holds
<1>5. /\ IsFiniteSet(AllOf(InHeap')) /\ Total(InHeap) \in Nat
      /\ Total(InHeap') = Total(InHeap) - Cardinality(InHeap[k])
                                        + Cardinality(InHeap'[k])
  BY <1>2, <1>3, <1>4, TotalChanges DEF CountInv
<1>6. /\ IsFiniteSet(AllOf(Entries')) /\ Total(Entries) \in Nat
      /\ Total(Entries') = Total(Entries) - Cardinality(Entries[k])
                                          + Cardinality(Entries'[k])
  BY <1>2, <1>3, <1>4, TotalChanges DEF CountInv
<1>7. /\ IsFiniteSet(AllOf(Stored')) /\ Total(Stored) \in Nat
      /\ Total(Stored') = Total(Stored) - Cardinality(Stored[k])
                                        + Cardinality(Stored'[k])
  BY <1>2, <1>3, <1>4, TotalChanges DEF CountInv
<1>8. /\ counts'.ranges = Total(InHeap') /\ counts'.entries = Total(Entries')
      /\ counts'.bytes = Total(Stored')
  BY <1>2, <1>3, <1>5, <1>6, <1>7 DEF CountInv, CountsExact
<1>9. CountsExact'
  BY <1>8 DEF CountsExact, Total
<1> QED  BY <1>5, <1>6, <1>7, <1>9 DEF CountInv, AllOf

\* The objects in the table after a change of one.
LEMMA NodesAfter ==
  ASSUME Inv, Inv', IsFiniteSet(NodesIn(nodes)), NEW k \in Keys,
         \A q \in Keys \ {k} : nodes'[q] = nodes[q]
  PROVE  LET now  == Cardinality(NodesIn(nodes))
             next == Cardinality(NodesIn(nodes'))
         IN  /\ IsFiniteSet(NodesIn(nodes')) /\ now \in Nat /\ next \in Nat
             /\ next <= now + 1
             /\ nodes'[k] = <<>> => next <= now
             /\ nodes[k] # <<>> => next <= now
<1> DEFINE S == NodesIn(nodes)
           T == NodesIn(nodes')
<1>1. S \in SUBSET (S \cup {k}) /\ T \in SUBSET (S \cup {k})
  BY DEF NodesIn
<1>2. (nodes'[k] = <<>> \/ nodes[k] # <<>>) => T \in SUBSET S
  BY DEF NodesIn
<1> HIDE DEF S, T
<1>3. IsFiniteSet(S) /\ Cardinality(S) \in Nat
  BY FS_CardinalityType DEF S
<1>4. /\ IsFiniteSet(S \cup {k}) /\ Cardinality(S \cup {k}) \in Nat
      /\ Cardinality(S \cup {k}) <= Cardinality(S) + 1
  <2>1. /\ IsFiniteSet(S \cup {k})
        /\ Cardinality(S \cup {k}) = IF k \in S THEN Cardinality(S)
                                               ELSE Cardinality(S) + 1
    BY <1>3, FS_AddElement
  <2> QED  BY <1>3, <2>1
<1>5. /\ IsFiniteSet(T) /\ Cardinality(T) \in Nat
      /\ Cardinality(T) <= Cardinality(S \cup {k})
  BY <1>1, <1>4, FS_Subset, FS_CardinalityType
<1>6. T \in SUBSET S => Cardinality(T) <= Cardinality(S)
  BY <1>3, FS_Subset
<1> QED  BY <1>2, <1>3, <1>4, <1>5, <1>6 DEF S, T

LEMMA CountsAre ==
  ASSUME CountInv
  PROVE  counts.ranges \in Nat /\ counts.entries \in Nat /\ counts.bytes \in Nat
<1>1. Total(InHeap) \in Nat /\ Total(Entries) \in Nat /\ Total(Stored) \in Nat
  BY FS_CardinalityType DEF CountInv, Total, AllOf
<1> QED  BY <1>1 DEF CountInv, CountsExact

LEMMA NoMoreData ==
  ASSUME NEW p \in Nat, NEW q \in Nat, p <= q, NEW x \in Int, NEW y \in Int,
         x <= y, ~(DataSize(q, y) > MaxDataSize)
  PROVE  DataSize(p, x) <= MaxDataSize
  BY TableAssumption DEF DataSize, NodeSize

LEMMA Exchanged ==
  ASSUME NEW c \in Nat, NEW a \in Nat, NEW b \in Nat,
         NEW dec \in Nat, NEW inc \in Nat, NEW d \in Nat,
         a - dec = d, d + inc = b, b <= a
  PROVE  /\ c - dec + inc = c - a + b
         /\ c - dec + inc <= c /\ c - dec + inc \in Int
  OBVIOUS

LEMMA AddCounts ==
  ASSUME Inv, Inv', CountInv, NEW k \in Keys, NEW r \in FragRanges(k),
         AddNewFragment(k, r)
  PROVE  CountInv'
<1> DEFINE es   == nodes[k]
           cnt  == Cardinality(NodesIn(nodes))
           ns   == AddEntry(es, cnt, counts, r).es
           nc   == AddEntry(es, cnt, counts, r).c
           e    == [beg |-> r.beg, end |-> r.end, rd |-> 0]
           over == Overlapping(es, e)
           n    == Len(es)
           m    == Cardinality(over)
<1>1. es \in Seq(Elem(k)) /\ Vector(es) /\ n <= MaxRanges /\ n \in Nat
  BY LenOf DEF Inv, Tables
<1>2. \/ ns = es /\ nc = counts
      \/ /\ Puts(ns, es, e) /\ Charged(nc, counts, cnt, es, over, r)
         /\ m \in 0..n /\ Len(ns) = n - m + 1
  <2> HIDE DEF es, cnt
  <2> QED  BY <1>1, AddEntryPuts
<1>3. /\ nodes' = [nodes EXCEPT ![k] = ns] /\ counts' = nc
  BY DEF AddNewFragment
<1> HIDE DEF ns, nc
<1>4. nodes'[k] = ns /\ \A q \in Keys \ {k} : nodes'[q] = nodes[q]
  BY <1>3 DEF Inv, Tables
<1>5. CASE ns = es /\ nc = counts
  <2>1. nodes' = nodes /\ counts' = counts
    BY <1>3, <1>5 DEF Inv, Tables
  <2> QED  BY <2>1 DEF CountInv, CountsExact, AllOf, Total, InHeap, Entries,
                       Stored, Holds
<1>6. CASE /\ Puts(ns, es, e) /\ Charged(nc, counts, cnt, es, over, r)
           /\ m \in 0..n /\ Len(ns) = n - m + 1
  <2>1. /\ e \in RangeElem /\ e.beg < e.end /\ e.end <= MaxObjSize
        /\ Length(e) = Length(r) /\ Length(r) \in Nat
    <3>1. /\ r \in Bounds /\ r.beg < r.end /\ r.end \in 0..ObjSize[k]
          /\ ObjSize[k] \in 0..MaxObjSize /\ MaxObjSize \in Nat
      BY FragRangesAre, TableAssumption
    <3> QED  BY <3>1 DEF Bounds, RangeElem, Length
  <2>2. Vector(ns) /\ ns # <<>>
    <3>1. Vector(ns)
      BY <1>4 DEF Inv, Tables
    <3>2. Len(ns) # 0
      BY <1>1, <1>6
    <3> QED  BY <3>1, <3>2
  <2> DEFINE now  == Cardinality(StoredIn(es))
             next == Cardinality(StoredIn(ns))
             gone == Bytes(es, over)
  <2> HIDE DEF e
  <2>3. next = now - gone + Length(r)
    BY <1>1, <1>6, <2>1, <2>2, StoredAfterPut
  <2>4. /\ counts.ranges \in Nat /\ counts.entries \in Nat /\ counts.bytes \in Nat
        /\ cnt \in Nat /\ MaxDataSize \in Nat
        /\ DataSize(cnt, counts.ranges) <= MaxDataSize
        /\ now \in Nat /\ gone \in Int
    <3>1. IsFiniteSet(over)
      <4>1. over \in SUBSET (1..n)
        BY DEF Overlapping
      <4>2. IsFiniteSet(1..n)
        BY <1>1, FS_Interval
      <4> QED  BY <4>1, <4>2, FS_Subset
    <3>2. over \in SUBSET (1..n)
      BY DEF Overlapping
    <3>3. IsFiniteSet(HeldBy(es, over)) /\ gone = Cardinality(HeldBy(es, over))
      <4> HIDE DEF over, es
      <4> QED  BY <1>1, <3>1, <3>2, BytesAreHeld
    <3>4. cnt \in Nat /\ gone \in Nat
      BY <3>3, FS_CardinalityType DEF CountInv
    <3> QED  BY <3>4, CountsAre, StoredFinite, TableAssumption DEF CountInv, CountsExact
  <2>5. /\ IsFiniteSet(NodesIn(nodes')) /\ Cardinality(NodesIn(nodes')) \in Nat
        /\ Cardinality(NodesIn(nodes')) <= cnt + 1
        /\ es # <<>> => Cardinality(NodesIn(nodes')) <= cnt
    BY <1>4, NodesAfter DEF CountInv
  <2>6. over # {} <=> m > 0
    <3>1. IsFiniteSet(over)
      <4>1. over \in SUBSET (1..n)
        BY DEF Overlapping
      <4>2. IsFiniteSet(1..n)
        BY <1>1, FS_Interval
      <4> QED  BY <4>1, <4>2, FS_Subset
    <3> HIDE DEF over
    <3> QED  BY <1>6, <3>1, FS_EmptySet
  <2>7. over = {} => m = 0 /\ gone = 0
    <3>1. BytesOf(es, {}) = {}
      BY DEF BytesOf
    <3> QED  BY <3>1, FS_EmptySet DEF Bytes
  <2> HIDE DEF over, m, n, now, next, gone, cnt, es
  <2>8. /\ HeapOf(n) \in Nat /\ HeapOf(n - m) \in Nat /\ HeapOf(n - m + 1) \in Nat
        /\ HeapOf(n) - CalcDecCntRanges(n, m) = HeapOf(n - m)
        /\ HeapOf(n - m) + CalcIncCntRanges(n - m) = HeapOf(n - m + 1)
        /\ (m > 0 => HeapOf(n - m + 1) <= HeapOf(n))
        /\ CalcIncCntRanges(n - m) \in Nat /\ CalcDecCntRanges(n, m) \in Nat
    BY <1>1, <1>6 DEF HeapOf, CalcIncCntRanges, CalcDecCntRanges
  <2>9. /\ nc.ranges = counts.ranges - HeapOf(n) + HeapOf(n - m + 1)
        /\ nc.entries = counts.entries - n + (n - m + 1)
        /\ nc.bytes = counts.bytes - now + next
        /\ DataSize(Cardinality(NodesIn(nodes')), nc.ranges) <= MaxDataSize
    <3>1. CASE /\ es = <<>> /\ nc = IncEntries(counts, 0, r)
               /\ ~(DataSize(cnt + 1, counts.ranges) > MaxDataSize)
      <4>1. n = 0 /\ m = 0
        BY <1>6, <3>1 DEF n
      <4>2. over = {}
        BY <2>6, <4>1
      <4>3. /\ nc.ranges = counts.ranges /\ nc.entries = counts.entries + 1
            /\ nc.bytes = counts.bytes + Length(r)
        BY <2>4, <3>1 DEF IncEntries
      <4>4. HeapOf(0) = 0 /\ HeapOf(1) = 0
        BY DEF HeapOf
      <4>5. DataSize(Cardinality(NodesIn(nodes')), nc.ranges) <= MaxDataSize
        <5>1. cnt + 1 \in Nat /\ nc.ranges \in Int /\ nc.ranges <= counts.ranges
          BY <2>4, <4>3
        <5> QED  BY <2>4, <2>5, <3>1, <4>3, <5>1, NoMoreData
      <4> QED  BY <2>1, <2>3, <2>4, <2>7, <4>1, <4>2, <4>3, <4>4, <4>5
    <3>2. CASE /\ es # <<>> /\ over = {}
               /\ nc = IncEntries(counts, CalcIncCntRanges(n), r)
               /\ ~(DataSize(cnt, counts.ranges + CalcIncCntRanges(n)) > MaxDataSize)
      <4>1. m = 0 /\ gone = 0 /\ n - m = n
        BY <1>1, <2>7, <3>2
      <4>2. /\ nc.ranges = counts.ranges + CalcIncCntRanges(n)
            /\ nc.entries = counts.entries + 1
            /\ nc.bytes = counts.bytes + Length(r)
        BY <3>2 DEF IncEntries
      <4>3. DataSize(Cardinality(NodesIn(nodes')), nc.ranges) <= MaxDataSize
        <5>1. nc.ranges \in Int /\ nc.ranges <= nc.ranges
          <6>1. CalcIncCntRanges(n) \in Nat
            BY <2>8, <4>1
          <6> QED  BY <2>4, <4>2, <6>1
        <5> QED  BY <2>4, <2>5, <3>2, <4>2, <5>1, NoMoreData
      <4>4. nc.ranges = counts.ranges - HeapOf(n) + HeapOf(n - m + 1)
        <5> DEFINE c == counts.ranges
                   a == HeapOf(n)
                   b == HeapOf(n - m + 1)
                   i == CalcIncCntRanges(n)
        <5>1. c \in Nat /\ a \in Nat /\ b \in Nat /\ i \in Nat /\ a + i = b
          BY <2>4, <2>8, <4>1
        <5>2. nc.ranges = c + i
          BY <4>2
        <5> HIDE DEF c, a, b, i
        <5>3. c + i = c - a + b
          BY <5>1
        <5> QED  BY <5>2, <5>3 DEF c, a, b
      <4>5. nc.entries = counts.entries - n + (n - m + 1)
        BY <1>1, <2>4, <4>1, <4>2
      <4>6. nc.bytes = counts.bytes - now + next
        BY <2>1, <2>3, <2>4, <4>1, <4>2
      <4> QED  BY <4>3, <4>4, <4>5, <4>6
    <3>3. CASE /\ over # {}
               /\ nc = IncEntries(DecEntries(counts, es, over),
                                  CalcIncCntRanges(n - m), r)
      <4>1. /\ nc.ranges = counts.ranges - CalcDecCntRanges(n, m)
                                         + CalcIncCntRanges(n - m)
            /\ nc.entries = counts.entries - m + 1
            /\ nc.bytes = counts.bytes - gone + Length(r)
        BY <3>3 DEF IncEntries, DecEntries, n, m, gone
      <4>2. m > 0 /\ es # <<>>
        <5>1. m > 0
          BY <2>6, <3>3
        <5>2. n # 0
          BY <1>1, <1>6, <5>1
        <5> QED  BY <5>1, <5>2 DEF n
      <4>3. /\ nc.ranges = counts.ranges - HeapOf(n) + HeapOf(n - m + 1)
            /\ nc.ranges <= counts.ranges /\ nc.ranges \in Int
        <5> DEFINE c   == counts.ranges
                   a   == HeapOf(n)
                   b   == HeapOf(n - m + 1)
                   d   == HeapOf(n - m)
                   dec == CalcDecCntRanges(n, m)
                   inc == CalcIncCntRanges(n - m)
        <5>1. /\ c \in Nat /\ a \in Nat /\ b \in Nat /\ d \in Nat
              /\ dec \in Nat /\ inc \in Nat
              /\ a - dec = d /\ d + inc = b /\ b <= a
          BY <2>4, <2>8, <4>2
        <5>2. nc.ranges = c - dec + inc
          BY <4>1
        <5> HIDE DEF c, a, b, d, dec, inc
        <5>3. c - dec + inc = c - a + b /\ c - dec + inc <= c /\ c - dec + inc \in Int
          BY <5>1, Exchanged
        <5> QED  BY <5>2, <5>3 DEF c, a, b
      <4>4. DataSize(Cardinality(NodesIn(nodes')), nc.ranges) <= MaxDataSize
        <5>1. ~(DataSize(cnt, counts.ranges) > MaxDataSize)
          <6>1. DataSize(cnt, counts.ranges) \in Int
            BY <2>4 DEF DataSize, NodeSize
          <6> QED  BY <2>4, <6>1
        <5>2. counts.ranges \in Int
          BY <2>4
        <5> QED  BY <2>4, <2>5, <4>2, <4>3, <5>1, <5>2, NoMoreData
      <4>5. nc.entries = counts.entries - n + (n - m + 1)
        BY <1>1, <1>6, <2>4, <4>1
      <4>6. nc.bytes = counts.bytes - now + next
        BY <2>1, <2>3, <2>4, <4>1
      <4> QED  BY <4>3, <4>4, <4>5, <4>6
    <3> QED  BY <1>6, <3>1, <3>2, <3>3 DEF Charged, n, m
  <2>10. /\ counts'.ranges = counts.ranges - HeapOf(Len(nodes[k])) + HeapOf(Len(nodes'[k]))
         /\ counts'.entries = counts.entries - Len(nodes[k]) + Len(nodes'[k])
         /\ counts'.bytes = counts.bytes - Cardinality(StoredIn(nodes[k]))
                                         + Cardinality(StoredIn(nodes'[k]))
    BY <1>3, <1>4, <1>6, <2>9 DEF n, es, now, next
  <2>11. /\ DataSize(Cardinality(NodesIn(nodes)), counts.ranges)' <= MaxDataSize
         /\ IsFiniteSet(NodesIn(nodes))'
    BY <1>3, <2>5, <2>9
  <2> QED  BY <1>4, <2>10, <2>11, ChangeCounts
<1> QED  BY <1>2, <1>5, <1>6

LEMMA RemoveCounts ==
  ASSUME Inv, Inv', CountInv, NEW k \in Keys, NEW is, Removed(k, is)
  PROVE  CountInv'
<1> DEFINE es   == nodes[k]
           n    == Len(es)
           m    == Cardinality(is)
           cnt  == Cardinality(NodesIn(nodes))
           gone == Bytes(es, is)
           now  == Cardinality(StoredIn(es))
<1>1. PICK ns \in Seq(Elem(k)) :
            /\ Vector(ns) /\ IsFiniteSet(is) /\ m \in 0..n /\ Len(ns) = n - m
            /\ Drops(ns, es, is)
            /\ nodes' = [nodes EXCEPT ![k] = ns]
  BY RemEntriesDrops DEF Removed
<1>2. Vector(es) /\ n \in Nat /\ is \in SUBSET (1..n)
  BY LenOf DEF Inv, Tables, Removed
<1>3. nodes'[k] = ns /\ \A q \in Keys \ {k} : nodes'[q] = nodes[q]
  BY <1>1 DEF Inv, Tables
<1>4. Cardinality(StoredIn(ns)) = now - gone
  BY <1>1, <1>2, StoredAfterDrop
<1>5. counts' = DecEntries(counts, es, is)
  BY DEF Removed, RemEntries
<1>6. /\ counts'.ranges = counts.ranges - CalcDecCntRanges(n, m)
      /\ counts'.entries = counts.entries - m
      /\ counts'.bytes = counts.bytes - gone
  BY <1>5 DEF DecEntries
<1>7. /\ counts.ranges \in Nat /\ counts.entries \in Nat /\ counts.bytes \in Nat
      /\ cnt \in Nat /\ MaxDataSize \in Nat
      /\ DataSize(cnt, counts.ranges) <= MaxDataSize
      /\ now \in Nat /\ gone \in Nat
  <2>1. IsFiniteSet(HeldBy(es, is)) /\ gone = Cardinality(HeldBy(es, is))
    BY <1>1, <1>2, BytesAreHeld
  <2>2. cnt \in Nat /\ gone \in Nat
    BY <2>1, FS_CardinalityType DEF CountInv
  <2> QED  BY <2>2, CountsAre, StoredFinite, TableAssumption DEF CountInv, CountsExact
<1>8. es # <<>> \/ ns = <<>>
  <2> SUFFICES ASSUME es = <<>> PROVE ns = <<>>
    OBVIOUS
  <2>1. n = 0
    OBVIOUS
  <2>2. Len(ns) = n - m /\ m \in 0..n
    BY <1>1
  <2> HIDE DEF n, m
  <2>3. m \in 0..0 /\ Len(ns) = 0 - m
    BY <2>1, <2>2
  <2>4. m = 0
    BY <2>3
  <2>5. Len(ns) = 0
    BY <2>3, <2>4
  <2> QED  BY <2>5
<1> HIDE DEF es, n, m, cnt, gone, now
<1>9. /\ HeapOf(n) - CalcDecCntRanges(n, m) = HeapOf(n - m)
      /\ HeapOf(n - m) <= HeapOf(n) /\ HeapOf(n) \in Nat /\ HeapOf(n - m) \in Nat
      /\ CalcDecCntRanges(n, m) \in Nat
  BY <1>1, <1>2 DEF HeapOf, CalcDecCntRanges
<1>10. /\ counts'.ranges = counts.ranges - HeapOf(n) + HeapOf(n - m)
       /\ counts'.ranges <= counts.ranges /\ counts'.ranges \in Int
       /\ counts'.entries = counts.entries - n + (n - m)
       /\ counts'.bytes = counts.bytes - now + (now - gone)
  <2>1. m \in Int /\ n \in Int
    BY <1>1, <1>2
  <2>2. /\ counts'.ranges = counts.ranges - HeapOf(n) + HeapOf(n - m)
        /\ counts'.ranges <= counts.ranges /\ counts'.ranges \in Int
    <3> DEFINE dec == CalcDecCntRanges(n, m)
               c   == counts.ranges
               a   == HeapOf(n)
               b   == HeapOf(n - m)
    <3>1. counts'.ranges = c - dec
      BY <1>6
    <3>2. a - dec = b /\ b <= a /\ a \in Nat /\ b \in Nat /\ dec \in Nat /\ c \in Nat
      BY <1>7, <1>9
    <3> HIDE DEF dec, c, a, b
    <3>3. c - dec = c - a + b /\ c - dec <= c /\ c - dec \in Int
      BY <3>2
    <3> QED  BY <3>1, <3>3 DEF dec, c, a, b
  <2>3. counts'.entries = counts.entries - n + (n - m)
    BY <1>6, <1>7, <2>1
  <2>4. counts'.bytes = counts.bytes - now + (now - gone)
    BY <1>6, <1>7
  <2> QED  BY <2>2, <2>3, <2>4
<1>11. /\ IsFiniteSet(NodesIn(nodes')) /\ Cardinality(NodesIn(nodes')) \in Nat
       /\ Cardinality(NodesIn(nodes')) <= cnt
  <2>1. nodes'[k] = <<>> \/ nodes[k] # <<>>
    BY <1>3, <1>8 DEF es
  <2> QED  BY <1>3, <2>1, NodesAfter DEF CountInv, cnt
<1>12. DataSize(Cardinality(NodesIn(nodes')), counts'.ranges) <= MaxDataSize
  <2>1. ~(DataSize(cnt, counts.ranges) > MaxDataSize)
    <3>1. DataSize(cnt, counts.ranges) \in Int
      BY <1>7 DEF DataSize, NodeSize
    <3> QED  BY <1>7, <3>1
  <2>2. counts.ranges \in Int
    BY <1>7
  <2> QED  BY <1>7, <1>10, <1>11, <2>1, <2>2, NoMoreData
<1>13. /\ counts'.ranges = counts.ranges - HeapOf(Len(nodes[k])) + HeapOf(Len(nodes'[k]))
       /\ counts'.entries = counts.entries - Len(nodes[k]) + Len(nodes'[k])
       /\ counts'.bytes = counts.bytes - Cardinality(StoredIn(nodes[k]))
                                       + Cardinality(StoredIn(nodes'[k]))
  BY <1>1, <1>3, <1>4, <1>10 DEF n, es, now
<1>14. DataSize(Cardinality(NodesIn(nodes)), counts.ranges)' <= MaxDataSize
  BY <1>12
<1> QED  BY <1>3, <1>11, <1>13, <1>14, ChangeCounts

LEMMA ReadCounts ==
  ASSUME Inv, Inv', CountInv, NEW k \in Keys, Marked(k), UNCHANGED counts
  PROVE  CountInv'
<1>1. \A q \in Keys : DOMAIN nodes[q] = 1..Len(nodes[q])
  BY LenOf DEF Inv, Tables
<1>2. \A q \in Keys : DOMAIN nodes'[q] = 1..Len(nodes'[q])
  <2>1. \A q \in Keys : Vector(nodes'[q])
    BY DEF Inv, Tables
  <2> QED  BY <2>1, LenOf
<1>3. \A q \in Keys : /\ Len(nodes'[q]) = Len(nodes[q])
                     /\ DOMAIN nodes'[q] = DOMAIN nodes[q]
                     /\ \A i \in DOMAIN nodes[q] :
                            /\ nodes'[q][i].beg = nodes[q][i].beg
                            /\ nodes'[q][i].end = nodes[q][i].end
  BY <1>1, <1>2 DEF Marked
<1>4. InHeap' = InHeap /\ Entries' = Entries
  BY <1>3 DEF InHeap, Entries
<1>5. Stored' = Stored
  BY <1>3 DEF Stored, Holds
<1>6. NodesIn(nodes') = NodesIn(nodes)
  <2>1. \A q \in Keys : nodes[q] \in Seq(Elem(q)) /\ nodes'[q] \in Seq(Elem(q))
    BY DEF Inv, Tables
  <2>2. ASSUME NEW q \in Keys PROVE nodes'[q] = <<>> <=> nodes[q] = <<>>
    <3>1. Len(nodes'[q]) = Len(nodes[q])
      BY <1>3
    <3> QED  BY <2>1, <3>1, EmptySeq
  <2> QED  BY <2>2 DEF NodesIn
<1> QED  BY <1>4, <1>5, <1>6 DEF CountInv, CountsExact, AllOf, Total

LEMMA InitCounts == Init => CountInv
<1> SUFFICES ASSUME Init PROVE CountInv
  OBVIOUS
<1>1. AllOf(InHeap) = {} /\ AllOf(Entries) = {} /\ AllOf(Stored) = {}
  BY DEF Init, AllOf, InHeap, Entries, Stored, Holds
<1>2. NodesIn(nodes) = {}
  BY DEF Init, NodesIn
<1>3. DataSize(0, 0) <= MaxDataSize
  BY TableAssumption DEF DataSize, NodeSize
<1> QED  BY <1>1, <1>2, <1>3, FS_EmptySet DEF Init, CountInv, CountsExact, Total, AllOf

\* The counts that fs_table keeps are those of what is in it, and within what
\* it is allowed.
THEOREM CountsAlwaysExact == Spec => []CountsExact
<1>1. Inv /\ Inv' /\ CountInv /\ [Next]_vars => CountInv'
  <2> SUFFICES ASSUME Inv, Inv', CountInv, [Next]_vars PROVE CountInv'
    OBVIOUS
  <2>1. ASSUME NEW k \in Keys, NEW r \in FragRanges(k), AddNewFragment(k, r)
        PROVE  CountInv'
    BY <2>1, AddCounts
  <2>2. ASSUME NEW k \in Keys, NEW rs, RemNonEvacFrags(k, rs) PROVE CountInv'
    BY <2>2, RemNonEvacFragsRemoves, RemoveCounts
  <2>3. ASSUME NEW k \in Keys, BeginWriteTruncate(k) PROVE CountInv'
    BY <2>3, TruncateRemoves, RemoveCounts
  <2>4. ASSUME NEW t \in Readers, NEW k \in Keys, NEW r, BeginRead(t, k, r)
        PROVE  CountInv'
    <3>1. UNCHANGED counts
      BY <2>4 DEF BeginRead
    <3> QED  BY <2>4, <3>1, BeginReadMarks, ReadCounts
  <2>5. ASSUME NEW t \in Readers, EndRead(t) PROVE CountInv'
    <3>1. UNCHANGED counts
      BY <2>5 DEF EndRead
    <3> QED  BY <2>5, <3>1, EndReadMarks, ReadCounts
  <2>6. CASE UNCHANGED vars
    <3>1. nodes' = nodes /\ counts' = counts
      BY <2>6 DEF vars
    <3> QED  BY <3>1 DEF CountInv, CountsExact, AllOf, Total, InHeap, Entries,
                         Stored, Holds
  <2> QED  BY <2>1, <2>2, <2>3, <2>4, <2>5, <2>6 DEF Next
<1>2. CountInv => CountsExact
  BY DEF CountInv
<1> QED  BY <1>1, <1>2, InitCounts, TableInvariance, PTL DEF Spec

-----------------------------------------------------------------------------
(* FsTable implements PinnedRanges.                                        *)

Frags == UNION {{[k |-> k, beg |-> nodes[k][i].beg, end |-> nodes[k][i].end] :
                    i \in DOMAIN nodes[k]} : k \in Keys}
Reads == [t \in Readers |-> IF rtrans[t] = None THEN None
            ELSE [k |-> rtrans[t].k, beg |-> rtrans[t].r.beg,
                  end |-> rtrans[t].r.end]]
Frag  == [k : Keys, beg : 0..MaxObjSize, end : 0..MaxObjSize]

\* What an element of k's vector is in Frags.
FragOf(k, e) == [k |-> k, beg |-> e.beg, end |-> e.end]

LEMMA FragsAre ==
  ASSUME Inv
  PROVE  \A f : f \in Frags <=>
            \E k \in Keys : \E i \in 1..Len(nodes[k]) : f = FragOf(k, nodes[k][i])
<1>1. \A k \in Keys : DOMAIN nodes[k] = 1..Len(nodes[k])
  BY LenOf DEF Inv, Tables
<1> QED  BY <1>1 DEF Frags, FragOf

\* An element is a fragment of the abstract table, and distinct ones are.
LEMMA FragOfElem ==
  ASSUME Inv, NEW k \in Keys, NEW i \in 1..Len(nodes[k])
  PROVE  /\ FragOf(k, nodes[k][i]) \in Frags
         /\ FragOf(k, nodes[k][i]) \in Frag
         /\ \A j \in 1..Len(nodes[k]) :
                FragOf(k, nodes[k][j]) = FragOf(k, nodes[k][i]) => i = j
<1> DEFINE es == nodes[k]
<1>1. Vector(es) /\ es[i] \in Elem(k)
  BY ElementOfSeq DEF Inv, Tables
<1>2. FragOf(k, es[i]) \in Frags
  BY FragsAre
<1>3. FragOf(k, es[i]) \in Frag
  <2> DEFINE r == [beg |-> es[i].beg, end |-> es[i].end]
  <2>1. r \in FragRanges(k)
    BY <1>1, ElemsAre
  <2>2. /\ r.beg \in 0..ObjSize[k] /\ r.end \in 0..ObjSize[k]
        /\ ObjSize[k] \in 0..MaxObjSize /\ MaxObjSize \in Nat
    BY <2>1, FragRangesAre, TableAssumption
  <2> QED  BY <2>2 DEF FragOf, Frag
<1>4. ASSUME NEW j \in 1..Len(es), FragOf(k, es[j]) = FragOf(k, es[i])
      PROVE  i = j
  <2>1. es[i].beg = es[j].beg /\ es[i].end = es[j].end
    BY <1>4 DEF FragOf
  <2>2. ~(i < j) /\ ~(j < i)
    BY <1>1, <2>1, LenOf DEF Vector
  <2> QED  BY <1>1, <2>2, LenOf
<1> QED  BY <1>2, <1>3, <1>4

\* What a change of k's vector does to Frags.
LEMMA FragsAfter ==
  ASSUME Inv, Inv', NEW k \in Keys,
         \A q \in Keys \ {k} : nodes'[q] = nodes[q]
  PROVE  \A f : f \in Frags' <=>
            \/ \E q \in Keys \ {k} : \E i \in 1..Len(nodes[q]) :
                    f = FragOf(q, nodes[q][i])
            \/ \E i \in 1..Len(nodes'[k]) : f = FragOf(k, nodes'[k][i])
<1>2. \A q \in Keys : DOMAIN nodes'[q] = 1..Len(nodes'[q])
  BY LenOf DEF Inv, Tables
<1>3. \A f : f \in Frags' <=>
            \E q \in Keys : \E i \in 1..Len(nodes'[q]) : f = FragOf(q, nodes'[q][i])
  BY <1>2 DEF Frags, FragOf
<1> QED  BY <1>3

\* A fragment whose element has no readers is not pinned.
LEMMA NotPinned ==
  ASSUME Inv, NEW k \in Keys, NEW i \in 1..Len(nodes[k]), nodes[k][i].rd = 0
  PROVE  ~Pinned!Pinned(FragOf(k, nodes[k][i]))
<1> SUFFICES ASSUME NEW t \in Readers, Reads[t] # None,
                    Pinned!Overlaps(FragOf(k, nodes[k][i]), Reads[t])
             PROVE  FALSE
  BY DEF Pinned!Pinned, Reads
<1>1. rtrans[t] # None
  BY DEF Reads
<1>2. Reads[t] = [k |-> rtrans[t].k, beg |-> rtrans[t].r.beg, end |-> rtrans[t].r.end]
  BY <1>1 DEF Reads
<1>3. rtrans[t].k = k /\ Overlap(rtrans[t].r, nodes[k][i])
  BY <1>2 DEF Pinned!Overlaps, FragOf, Overlap
<1>4. /\ i \in 1..Len(nodes[rtrans[t].k])
      /\ Overlap(rtrans[t].r, nodes[rtrans[t].k][i])
      /\ ~(nodes[rtrans[t].k][i].rd > 0)
  BY <1>3
<1> QED  BY <1>1, <1>4, ReadHasReaders

LEMMA AddImplements ==
  ASSUME Inv, Inv', NEW k \in Keys, NEW r \in FragRanges(k), AddNewFragment(k, r)
  PROVE  Pinned!Next \/ UNCHANGED <<Frags, Reads>>
<1> DEFINE es  == nodes[k]
           cnt == Cardinality(NodesIn(nodes))
           ns  == AddEntry(es, cnt, counts, r).es
           e   == [beg |-> r.beg, end |-> r.end, rd |-> 0]
           f   == FragOf(k, e)
           old == {g \in Frags : Pinned!Overlaps(f, g)}
<1>1. es \in Seq(Elem(k)) /\ Vector(es) /\ Len(es) <= MaxRanges
  BY DEF Inv, Tables
<1>2. Vector(ns) /\ (ns = es \/ Puts(ns, es, e))
  <2> HIDE DEF es, cnt
  <2> QED  BY <1>1, AddEntryPuts
<1>3. nodes' = [nodes EXCEPT ![k] = ns] /\ rtrans' = rtrans
  BY DEF AddNewFragment
<1>4. Reads' = Reads
  BY <1>3 DEF Reads
<1> HIDE DEF ns, cnt
<1>7. \A g : g \in Frags' <=>
            \/ \E q \in Keys \ {k} : \E i \in 1..Len(nodes[q]) :
                    g = FragOf(q, nodes[q][i])
            \/ \E i \in 1..Len(ns) : g = FragOf(k, ns[i])
  <2>1. nodes'[k] = ns /\ \A q \in Keys \ {k} : nodes'[q] = nodes[q]
    BY <1>3 DEF Inv, Tables
  <2>2. \A g : g \in Frags' <=>
            \/ \E q \in Keys \ {k} : \E i \in 1..Len(nodes[q]) :
                    g = FragOf(q, nodes[q][i])
            \/ \E i \in 1..Len(nodes'[k]) : g = FragOf(k, nodes'[k][i])
    BY <2>1, FragsAfter
  <2> QED  BY <2>1, <2>2
<1>5. CASE ns = es
  <2>1. nodes' = nodes
    BY <1>3, <1>5 DEF Inv, Tables
  <2> QED  BY <1>4, <2>1 DEF Frags
<1>6. CASE Puts(ns, es, e)
  <2>1. /\ f \in Frag /\ f.beg < f.end /\ f.k = k /\ f.beg = e.beg /\ f.end = e.end
    <3>1. /\ r.beg < r.end /\ r.beg \in 0..ObjSize[k] /\ r.end \in 0..ObjSize[k]
          /\ ObjSize[k] \in 0..MaxObjSize /\ MaxObjSize \in Nat
      BY FragRangesAre, TableAssumption
    <3> QED  BY <3>1 DEF FragOf, Frag
  <2> DEFINE over == Overlapping(es, e)
  <2>2. ASSUME NEW i \in 1..Len(es)
        PROVE  Pinned!Overlaps(f, FragOf(k, es[i])) <=> i \in over
    BY <2>1 DEF Pinned!Overlaps, FragOf, Overlapping, Overlap
  <2>3. ASSUME NEW g, g \in Frags
        PROVE  g \in old <=> \E i \in over : g = FragOf(k, es[i])
    <3>0. PICK q \in Keys : \E i \in 1..Len(nodes[q]) : g = FragOf(q, nodes[q][i])
      BY <2>3, FragsAre
    <3>1. PICK i \in 1..Len(nodes[q]) : g = FragOf(q, nodes[q][i])
      BY <3>0
    <3>2. CASE q = k
      <4>1. \A j \in 1..Len(es) : g = FragOf(k, es[j]) => i = j
        BY <3>1, <3>2, FragOfElem
      <4>2. over \subseteq 1..Len(es)
        BY DEF Overlapping
      <4> QED  BY <2>2, <2>3, <3>1, <3>2, <4>1, <4>2
    <3>3. CASE q # k
      <4>1. g.k = q
        BY <3>1 DEF FragOf
      <4>2. ~Pinned!Overlaps(f, g)
        BY <2>1, <3>3, <4>1 DEF Pinned!Overlaps
      <4>3. \A j : FragOf(k, es[j]).k = k
        BY DEF FragOf
      <4> QED  BY <3>3, <4>1, <4>2, <4>3
    <3> QED  BY <3>2, <3>3
  <2>4. ASSUME NEW g \in old PROVE ~Pinned!Pinned(g)
    <3>1. PICK i \in over : g = FragOf(k, es[i])
      BY <2>3
    <3>2. i \in 1..Len(es) /\ es[i].rd = 0
      BY <1>6 DEF Puts, Overlapping
    <3> QED  BY <3>1, <3>2, NotPinned
  <2>5. Frags' = (Frags \ old) \cup {f}
    <3> SUFFICES ASSUME NEW g PROVE g \in Frags' <=> g \in (Frags \ old) \cup {f}
      OBVIOUS
    <3>1. g \in Frags' <=>
            \/ \E q \in Keys \ {k} : \E i \in 1..Len(nodes[q]) :
                    g = FragOf(q, nodes[q][i])
            \/ \E i \in 1..Len(ns) : g = FragOf(k, ns[i])
      BY <1>7
    <3>2. (\E i \in 1..Len(ns) : g = FragOf(k, ns[i])) <=>
            \/ g = f
            \/ \E j \in (1..Len(es)) \ over : g = FragOf(k, es[j])
      BY <1>6 DEF Puts, Keeps
    <3>3. ASSUME NEW q \in Keys \ {k}, NEW i \in 1..Len(nodes[q]),
                 g = FragOf(q, nodes[q][i])
          PROVE  g \in Frags \ old
      <4>1. g \in Frags /\ g.k # f.k
        BY <2>1, <3>3, FragsAre DEF FragOf
      <4> QED  BY <4>1 DEF Pinned!Overlaps
    <3>4. ASSUME NEW j \in (1..Len(es)) \ over, g = FragOf(k, es[j])
          PROVE  g \in Frags \ old
      BY <2>2, <3>4, FragsAre
    <3>5. ASSUME g \in Frags \ old
          PROVE  \/ \E q \in Keys \ {k} : \E i \in 1..Len(nodes[q]) :
                        g = FragOf(q, nodes[q][i])
                 \/ \E j \in (1..Len(es)) \ over : g = FragOf(k, es[j])
      <4>0. PICK q \in Keys : \E i \in 1..Len(nodes[q]) : g = FragOf(q, nodes[q][i])
        BY <3>5, FragsAre
      <4>1. PICK i \in 1..Len(nodes[q]) : g = FragOf(q, nodes[q][i])
        BY <4>0
      <4> QED  BY <2>3, <3>5, <4>1
    <3> QED  BY <3>1, <3>2, <3>3, <3>4, <3>5
  <2> HIDE DEF f, old
  <2>6. Pinned!Add(f)
    BY <1>4, <2>1, <2>4, <2>5 DEF Pinned!Add, old, Frags, Reads, Frag, Pinned!Frag, Pinned!Offsets
  <2> QED  BY <2>1, <2>6 DEF Pinned!Next, Frag, Pinned!Frag, Pinned!Offsets
<1> QED  BY <1>2, <1>5, <1>6

LEMMA RemovedImplements ==
  ASSUME Inv, Inv', NEW k \in Keys, NEW is, Removed(k, is)
  PROVE  Pinned!Next
<1> DEFINE es == nodes[k]
           fs == {FragOf(k, es[i]) : i \in is}
<1>1. PICK ns \in Seq(Elem(k)) :
            /\ Vector(ns) /\ Drops(ns, es, is)
            /\ nodes' = [nodes EXCEPT ![k] = ns] /\ rtrans' = rtrans
  BY RemEntriesDrops DEF Removed
<1>2. is \subseteq 1..Len(es) /\ \A i \in is : es[i].rd = 0
  BY DEF Removed
<1>3. Reads' = Reads
  BY <1>1 DEF Reads
<1>4. nodes'[k] = ns /\ \A q \in Keys \ {k} : nodes'[q] = nodes[q]
  BY <1>1 DEF Inv, Tables
<1>5. \A g : g \in Frags' <=>
            \/ \E q \in Keys \ {k} : \E i \in 1..Len(nodes[q]) :
                    g = FragOf(q, nodes[q][i])
            \/ \E i \in 1..Len(ns) : g = FragOf(k, ns[i])
  BY <1>4, FragsAfter
<1>6. fs \subseteq Frags
  BY <1>2, FragsAre
<1>7. ASSUME NEW g \in fs PROVE ~Pinned!Pinned(g)
  <2>1. PICK i \in is : g = FragOf(k, es[i])
    OBVIOUS
  <2> QED  BY <1>2, <2>1, NotPinned
<1>8. Frags' = Frags \ fs
  <2> SUFFICES ASSUME NEW g PROVE g \in Frags' <=> g \in Frags \ fs
    OBVIOUS
  <2>1. (\E i \in 1..Len(ns) : g = FragOf(k, ns[i])) <=>
            \E j \in (1..Len(es)) \ is : g = FragOf(k, es[j])
    BY <1>1 DEF Drops, From, Keeps
  <2>2. ASSUME NEW q \in Keys \ {k}, NEW i \in 1..Len(nodes[q]),
               g = FragOf(q, nodes[q][i])
        PROVE  g \in Frags \ fs
    <3>1. g \in Frags /\ g.k = q
      BY <2>2, FragsAre DEF FragOf
    <3>2. \A h \in fs : h.k = k
      BY DEF FragOf
    <3> QED  BY <3>1, <3>2
  <2>3. ASSUME NEW j \in (1..Len(es)) \ is, g = FragOf(k, es[j])
        PROVE  g \in Frags \ fs
    <3>1. g \in Frags
      BY <2>3, FragsAre
    <3>2. \A i \in is : g # FragOf(k, es[i])
      BY <1>2, <2>3, FragOfElem
    <3> QED  BY <3>1, <3>2
  <2>4. ASSUME g \in Frags \ fs
        PROVE  \/ \E q \in Keys \ {k} : \E i \in 1..Len(nodes[q]) :
                      g = FragOf(q, nodes[q][i])
               \/ \E j \in (1..Len(es)) \ is : g = FragOf(k, es[j])
    <3>1. PICK q \in Keys : \E i \in 1..Len(nodes[q]) : g = FragOf(q, nodes[q][i])
      BY <2>4, FragsAre
    <3>2. PICK i \in 1..Len(nodes[q]) : g = FragOf(q, nodes[q][i])
      BY <3>1
    <3> QED  BY <2>4, <3>2
  <2> QED  BY <1>5, <2>1, <2>2, <2>3, <2>4
<1> HIDE DEF fs
<1>9. PICK gs : /\ gs \in SUBSET Frags /\ \A g \in gs : ~Pinned!Pinned(g)
                /\ Frags' = Frags \ gs
  BY <1>6, <1>7, <1>8
<1>10. Pinned!Remove(gs)
  BY <1>3, <1>9 DEF Pinned!Remove, Frags, Reads
<1> QED  BY <1>9, <1>10 DEF Pinned!Next, Frags

\* Marking leaves the fragments as they are.
LEMMA MarkingLeavesFrags ==
  ASSUME Inv, Inv', NEW k \in Keys,
         \A q \in Keys \ {k} : nodes'[q] = nodes[q],
         Len(nodes'[k]) = Len(nodes[k]),
         \A i \in 1..Len(nodes[k]) : /\ nodes'[k][i].beg = nodes[k][i].beg
                                     /\ nodes'[k][i].end = nodes[k][i].end
  PROVE  Frags' = Frags
<1>1. \A i \in 1..Len(nodes[k]) : FragOf(k, nodes'[k][i]) = FragOf(k, nodes[k][i])
  BY DEF FragOf
<1>2. \A g : g \in Frags' <=>
            \/ \E q \in Keys \ {k} : \E i \in 1..Len(nodes[q]) :
                    g = FragOf(q, nodes[q][i])
            \/ \E i \in 1..Len(nodes'[k]) : g = FragOf(k, nodes'[k][i])
  BY FragsAfter
<1>3. \A g : g \in Frags' <=> g \in Frags
  <2> SUFFICES ASSUME NEW g PROVE g \in Frags' <=> g \in Frags
    OBVIOUS
  <2>1. (\E i \in 1..Len(nodes'[k]) : g = FragOf(k, nodes'[k][i])) <=>
            \E i \in 1..Len(nodes[k]) : g = FragOf(k, nodes[k][i])
    BY <1>1
  <2>2. g \in Frags <=>
            \/ \E q \in Keys \ {k} : \E i \in 1..Len(nodes[q]) :
                    g = FragOf(q, nodes[q][i])
            \/ \E i \in 1..Len(nodes[k]) : g = FragOf(k, nodes[k][i])
    BY FragsAre
  <2> QED  BY <1>2, <2>1, <2>2
<1> QED  BY <1>3

LEMMA BeginReadImplements ==
  ASSUME Inv, Inv', NEW t \in Readers, NEW k \in Keys, NEW r \in ObjRanges(k),
         BeginRead(t, k, r)
  PROVE  Pinned!Next
<1> DEFINE es    == nodes[k]
           found == FindFullRange(es, r)
           w     == [k |-> k, r |-> r]
           f     == [k |-> k, beg |-> r.beg, end |-> r.end]
<1>1. Vector(es) /\ DOMAIN es = 1..Len(es) /\ Len(es) \in Nat
  BY LenOf DEF Inv, Tables
<1>2. /\ r \in Bounds /\ r.beg < r.end /\ w \in Trans /\ w # None /\ f \in Frag
      /\ r.beg \in Nat /\ r.end \in Nat
  <2>1. /\ r \in Bounds /\ r.beg < r.end
        /\ r.beg \in 0..ObjSize[k] /\ r.end \in 0..ObjSize[k]
        /\ ObjSize[k] \in 0..MaxObjSize /\ MaxObjSize \in Nat
    BY ObjRangesAre, TableAssumption
  <2>2. w \in Trans /\ w # None
    BY TransAre, TableAssumption
  <2>3. f \in Frag
    BY <2>1 DEF Frag
  <2> QED  BY <2>1, <2>2, <2>3
<1>3. rtrans[t] = None /\ found # {} /\ rtrans' = [rtrans EXCEPT ![t] = w]
  BY DEF BeginRead, Inv, Tables
<1>4. Complete(es, r)
  BY <1>1, <1>2, <1>3, FindFullRangeFinds
<1>5. Frags' = Frags
  BY BeginReadMarks, MarkingLeavesFrags DEF Marked
<1>6. Reads[t] = None /\ Reads' = [Reads EXCEPT ![t] = f]
  BY <1>2, <1>3 DEF Inv, Reading, Reads
<1>7. Pinned!Covered(f, Frags)
  <2> SUFFICES ASSUME NEW x \in 0..MaxObjSize, r.beg <= x, x < r.end
               PROVE  \E g \in Frags : g.k = k /\ g.beg <= x /\ x < g.end
    BY DEF Pinned!Covered, Pinned!Offsets
  <2>1. PICK i \in 1..Len(es) : es[i].beg <= x /\ x < es[i].end
    <3>1. x \in r.beg..(r.end - 1)
      BY <1>2, TableAssumption
    <3> QED  BY <1>4, <3>1 DEF Complete, Held
  <2> DEFINE g == FragOf(k, es[i])
  <2>2. g \in Frags
    BY FragOfElem
  <2>3. g.k = k /\ g.beg <= x /\ x < g.end
    BY <2>1 DEF FragOf
  <2> QED  BY <2>2, <2>3
<1>8. Pinned!Begin(t, f)
  BY <1>2, <1>5, <1>6, <1>7
  DEF Pinned!Begin, Frags, Reads, Frag, Pinned!Frag, Pinned!Offsets
<1> QED  BY <1>2, <1>8 DEF Pinned!Next, Frag, Pinned!Frag, Pinned!Offsets

LEMMA EndReadImplements ==
  ASSUME Inv, Inv', NEW t \in Readers, EndRead(t)
  PROVE  Pinned!Next
<1> DEFINE k == rtrans[t].k
<1>1. /\ rtrans[t] # None /\ k \in Keys /\ rtrans[t].r \in ObjRanges(k)
  BY ReadsRange DEF EndRead, Inv
<1>2. rtrans' = [rtrans EXCEPT ![t] = None]
  BY DEF EndRead
<1>3. Frags' = Frags
  <2> HIDE DEF k
  <2>1. Marked(k)
    BY EndReadMarks DEF k
  <2> QED  BY <1>1, <2>1, MarkingLeavesFrags DEF Marked
<1>4. Reads[t] # None
  <2>1. Reads[t] = [k |-> k, beg |-> rtrans[t].r.beg, end |-> rtrans[t].r.end]
    BY <1>1 DEF Reads
  <2>2. Reads[t] \in Frag
    <3>1. /\ rtrans[t].r.beg \in 0..ObjSize[k] /\ rtrans[t].r.end \in 0..ObjSize[k]
          /\ ObjSize[k] \in 0..MaxObjSize /\ MaxObjSize \in Nat
      BY <1>1, ObjRangesAre, TableAssumption
    <3> QED  BY <1>1, <2>1, <3>1 DEF Frag
  <2> QED  BY <2>2, TableAssumption DEF Frag
<1>5. Reads' = [Reads EXCEPT ![t] = None]
  BY <1>2 DEF Inv, Reading, Reads
<1>6. Pinned!End(t)
  BY <1>3, <1>4, <1>5 DEF Pinned!End, Frags, Reads
<1> QED  BY <1>6 DEF Pinned!Next

LEMMA NextImplements ==
  ASSUME Inv, Inv', [Next]_vars
  PROVE  Pinned!Next \/ UNCHANGED <<Frags, Reads>>
<1>1. ASSUME NEW k \in Keys, NEW r \in FragRanges(k), AddNewFragment(k, r)
      PROVE  Pinned!Next \/ UNCHANGED <<Frags, Reads>>
  BY <1>1, AddImplements
<1>2. ASSUME NEW k \in Keys, NEW rs, RemNonEvacFrags(k, rs) PROVE Pinned!Next
  BY <1>2, RemNonEvacFragsRemoves, RemovedImplements
<1>3. ASSUME NEW k \in Keys, BeginWriteTruncate(k) PROVE Pinned!Next
  BY <1>3, TruncateRemoves, RemovedImplements
<1>4. ASSUME NEW t \in Readers, NEW k \in Keys, NEW r \in ObjRanges(k),
             BeginRead(t, k, r)
      PROVE  Pinned!Next
  BY <1>4, BeginReadImplements
<1>5. ASSUME NEW t \in Readers, EndRead(t) PROVE Pinned!Next
  BY <1>5, EndReadImplements
<1>6. CASE UNCHANGED vars
  BY <1>6 DEF vars, Frags, Reads
<1> QED  BY <1>1, <1>2, <1>3, <1>4, <1>5, <1>6 DEF Next

LEMMA InitImplements == Init => Pinned!Init
<1> SUFFICES ASSUME Init PROVE Frags = {} /\ Reads = [t \in Readers |-> None]
  BY DEF Pinned!Init, Frags, Reads
<1>1. Frags = {}
  BY InitInv, FragsAre DEF Init
<1>2. Reads = [t \in Readers |-> None]
  BY DEF Init, Reads
<1> QED  BY <1>1, <1>2

\* The table, with its sorted vectors, searches and counts of readers, is a set
\* of fragments that readers pin: fs_table, fsmd_add_new_fragment,
\* fsmd_begin_read and fsmd_end_read keep the promise of PinnedRanges.
THEOREM TableImplementsPinned == Spec => PinsWhatIsRead
<1>1. Init => Pinned!Init
  BY InitImplements
<1>2. Inv /\ Inv' /\ [Next]_vars => [Pinned!Next]_(Pinned!vars)
  <2>1. Inv /\ Inv' /\ [Next]_vars => Pinned!Next \/ UNCHANGED <<Frags, Reads>>
    BY NextImplements
  <2> QED  BY <2>1 DEF Pinned!vars, Frags, Reads
<1> QED  BY <1>1, <1>2, TableInvariance, PTL DEF Spec, PinsWhatIsRead, Pinned!Spec

-----------------------------------------------------------------------------
(* What the promise is worth: whatever the fragments and the transactions   *)
(* are, as long as they change as PinnedRanges says, the fragments of an    *)
(* object don't overlap and no reader finds a hole in what it was let to    *)
(* read.                                                                    *)

VARIABLES frags, reads

Promise == INSTANCE PinnedRanges WITH MaxSize <- MaxObjSize

PinTyped  == /\ frags \subseteq Promise!Frag
             /\ reads \in [Readers -> Promise!Frag \cup {None}]
Apart     == \A f, g \in frags : Promise!Overlaps(f, g) => f = g
PinServed == \A t \in Readers : reads[t] # None => Promise!Covered(reads[t], frags)
PinInv    == PinTyped /\ Apart /\ PinServed

\* What holds x of a read range overlaps the range.
LEMMA HolderOverlaps ==
  ASSUME NEW r \in Promise!Frag, NEW f \in Promise!Frag, NEW x \in Promise!Offsets,
         r.beg <= x, x < r.end, f.k = r.k, f.beg <= x, x < f.end
  PROVE  Promise!Overlaps(f, r)
<1>1. /\ x \in Nat /\ r.beg \in Nat /\ r.end \in Nat
      /\ f.beg \in Nat /\ f.end \in Nat
  BY TableAssumption DEF Promise!Offsets, Promise!Frag
<1> QED  BY <1>1 DEF Promise!Overlaps

\* Fragments that no reader of t's range needs can go.
LEMMA StaysCovered ==
  ASSUME NEW fs \in SUBSET Promise!Frag, NEW gs \in SUBSET Promise!Frag,
         NEW r \in Promise!Frag, Promise!Covered(r, fs),
         \A f \in fs : Promise!Overlaps(f, r) => f \in gs
  PROVE  Promise!Covered(r, gs)
<1> SUFFICES ASSUME NEW x \in Promise!Offsets, r.beg <= x, x < r.end
             PROVE  \E f \in gs : f.k = r.k /\ f.beg <= x /\ x < f.end
  BY DEF Promise!Covered
<1>1. PICK f \in fs : f.k = r.k /\ f.beg <= x /\ x < f.end
  BY DEF Promise!Covered
<1>2. Promise!Overlaps(f, r)
  BY <1>1, HolderOverlaps
<1> QED  BY <1>1, <1>2

\* A begun transaction found all of its range there.
LEMMA PromiseBeginKeeps ==
  ASSUME PinInv, NEW t \in Readers, NEW r \in Promise!Frag, Promise!Begin(t, r)
  PROVE  PinInv'
<1>1. PinTyped'
  BY DEF PinInv, PinTyped, Promise!Begin
<1>2. Apart'
  BY DEF PinInv, Apart, Promise!Begin
<1>3. PinServed'
  BY DEF PinInv, PinTyped, PinServed, Promise!Begin
<1> QED  BY <1>1, <1>2, <1>3 DEF PinInv

\* A transaction that ends only needs less.
LEMMA PromiseEndKeeps ==
  ASSUME PinInv, NEW t \in Readers, Promise!End(t)
  PROVE  PinInv'
<1>1. PinTyped'
  BY DEF PinInv, PinTyped, Promise!End
<1>2. Apart'
  BY DEF PinInv, Apart, Promise!End
<1>3. PinServed'
  BY DEF PinInv, PinTyped, PinServed, Promise!End
<1> QED  BY <1>1, <1>2, <1>3 DEF PinInv

\* What a new fragment replaces is pinned by nobody.
LEMMA PromiseAddKeeps ==
  ASSUME PinInv, NEW f \in Promise!Frag, Promise!Add(f)
  PROVE  PinInv'
<1> DEFINE old == {g \in frags : Promise!Overlaps(f, g)}
<1>1. /\ frags' = (frags \ old) \cup {f} /\ reads' = reads
      /\ \A g \in old : ~Promise!Pinned(g)
  BY DEF Promise!Add
<1>2. PinTyped'
  BY <1>1 DEF PinInv, PinTyped
<1>3. ASSUME NEW g \in Promise!Frag PROVE Promise!Overlaps(g, f) <=> Promise!Overlaps(f, g)
  BY DEF Promise!Overlaps
<1>4. Apart'
  BY <1>1, <1>3 DEF PinInv, PinTyped, Apart
<1>5. ASSUME NEW t \in Readers, reads[t] # None
      PROVE  Promise!Covered(reads[t], frags')
  <2>1. reads[t] \in Promise!Frag /\ Promise!Covered(reads[t], frags)
    BY <1>5 DEF PinInv, PinTyped, PinServed
  <2>2. \A g \in frags : Promise!Overlaps(g, reads[t]) => g \in frags'
    BY <1>1, <1>5 DEF Promise!Pinned
  <2> QED  BY <1>2, <2>1, <2>2, StaysCovered DEF PinInv, PinTyped
<1>6. PinServed'
  BY <1>1, <1>5 DEF PinServed
<1> QED  BY <1>2, <1>4, <1>6 DEF PinInv

\* What is removed is pinned by nobody.
LEMMA PromiseRemoveKeeps ==
  ASSUME PinInv, NEW fs \in SUBSET frags, Promise!Remove(fs)
  PROVE  PinInv'
<1>1. /\ frags' = frags \ fs /\ reads' = reads
      /\ \A f \in fs : ~Promise!Pinned(f)
  BY DEF Promise!Remove
<1>2. PinTyped'
  BY <1>1 DEF PinInv, PinTyped
<1>3. Apart'
  BY <1>1 DEF PinInv, Apart
<1>4. ASSUME NEW t \in Readers, reads[t] # None
      PROVE  Promise!Covered(reads[t], frags')
  <2>1. reads[t] \in Promise!Frag /\ Promise!Covered(reads[t], frags)
    BY <1>4 DEF PinInv, PinTyped, PinServed
  <2>2. \A g \in frags : Promise!Overlaps(g, reads[t]) => g \in frags'
    BY <1>1, <1>4 DEF Promise!Pinned
  <2> QED  BY <1>2, <2>1, <2>2, StaysCovered DEF PinInv, PinTyped
<1>5. PinServed'
  BY <1>1, <1>4 DEF PinServed
<1> QED  BY <1>2, <1>3, <1>5 DEF PinInv

\* A read transaction has all of its range under its hands from its begin to its
\* end, and the fragments of an object never overlap: what fsmd_begin_read's
\* caller relies on when it reads one fragment after the other.
THEOREM PinnedStaysServed == Promise!Spec => [](Apart /\ PinServed)
<1>1. Promise!Init => PinInv
  BY DEF Promise!Init, PinInv, PinTyped, Apart, PinServed
<1>2. PinInv /\ [Promise!Next]_(Promise!vars) => PinInv'
  <2> SUFFICES ASSUME PinInv, [Promise!Next]_(Promise!vars) PROVE PinInv'
    OBVIOUS
  <2>1. ASSUME NEW t \in Readers, NEW r \in Promise!Frag, Promise!Begin(t, r) PROVE PinInv'
    BY <2>1, PromiseBeginKeeps
  <2>2. ASSUME NEW t \in Readers, Promise!End(t) PROVE PinInv'
    BY <2>2, PromiseEndKeeps
  <2>3. ASSUME NEW f \in Promise!Frag, Promise!Add(f) PROVE PinInv'
    BY <2>3, PromiseAddKeeps
  <2>4. ASSUME NEW fs \in SUBSET frags, Promise!Remove(fs) PROVE PinInv'
    BY <2>4, PromiseRemoveKeeps
  <2>5. CASE UNCHANGED Promise!vars
    <3>1. PinTyped' BY <2>5 DEF PinInv, PinTyped, Promise!vars
    <3>2. Apart' BY <2>5 DEF PinInv, Apart, Promise!vars
    <3>3. PinServed' BY <2>5 DEF PinInv, PinServed, Promise!vars
    <3> QED  BY <3>1, <3>2, <3>3 DEF PinInv
  <2> QED  BY <2>1, <2>2, <2>3, <2>4, <2>5 DEF Promise!Next
<1>3. PinInv => Apart /\ PinServed
  BY DEF PinInv
<1> QED  BY <1>1, <1>2, <1>3, PTL DEF Promise!Spec
=============================================================================
