----------------------------- MODULE RangeVector -----------------------------
(***************************************************************************)
(* cache/range_vector.cpp: the sorted fragments of one object.  A vector   *)
(* is the sequence of its elements; whether it has one in place or several *)
(* on the heap can be told only by the counting in fs_table.  A range is   *)
(* two offsets [beg, end); an element (range_elem) is a range with rd, the *)
(* count of its readers.  A function that returns a pair of iterators      *)
(* returns the set of the indices between them.                            *)
(***************************************************************************)
EXTENDS Naturals, Sequences, FiniteSets, FiniteSetsExt, SequencesExt

CONSTANTS MaxRanges,  \* max_ranges: elements a vector holds
          MinObjSize  \* min_obj_size: what is read and written isn't smaller

ASSUME RangesAssumption == MaxRanges \in Nat \ {0} /\ MinObjSize \in Nat \ {0}

NoRange       == [beg |-> 0, end |-> 0] \* range{}
Length(r)     == r.end - r.beg
Overlap(r, q) == r.beg < q.end /\ q.beg < r.end
Inside(r, q)  == q.beg <= r.beg /\ r.end <= q.end

\* std::lower_bound: the first element that does not begin before beg.
LowerBound(es, beg) ==
    Min({i \in DOMAIN es : es[i].beg >= beg} \cup {Len(es) + 1})

\* The elements of is with a hole after them.
Holes(es, is) == {i \in is : i + 1 \in is /\ es[i].end < es[i + 1].beg}

-----------------------------------------------------------------------------
\* add_range: refused when the range overlaps a neighbour of its place or the
\* vector is full.
CanAddRange(es, r) ==
    LET i == LowerBound(es, r.beg)
    IN  /\ Len(es) # MaxRanges
        /\ i > 1 => es[i - 1].end <= r.beg
        /\ i <= Len(es) => r.end <= es[i].beg
AddRange(es, r) == InsertAt(es, LowerBound(es, r.beg), r)

RemRange(es, is) ==
    IF is = {} THEN es
    ELSE SubSeq(es, 1, Min(is) - 1) \o SubSeq(es, Max(is) + 1, Len(es))

-----------------------------------------------------------------------------
\* find_full_range: the elements that cover r, if they do without a hole.
FirstFull(es, r) ==
    LET lb == LowerBound(es, r.beg)
    IN  IF lb \in 2..Len(es) /\ es[lb].beg > r.beg THEN lb - 1 ELSE lb

FindFullRange(es, r) ==
    LET n     == Len(es)
        first == FirstFull(es, r)
        ends  == {i \in first..n : es[i].end >= r.end}
        found == first..Min(ends)
    IN  IF first > n THEN {i \in {n} : n > 0 /\ Inside(r, es[n])}
        ELSE IF /\ es[first].beg <= r.beg /\ r.beg < es[first].end
                /\ ends # {} /\ Holes(es, found) = {}
             THEN found ELSE {}

\* find_exact_range of an element.
FindExactRange(es, r) == {i \in {LowerBound(es, r.beg)} \cap DOMAIN es :
                            es[i].beg = r.beg /\ es[i].end = r.end}

\* find_in_range: from the first to the last element that overlaps r.
FirstIn(es, r) ==
    LET lb == LowerBound(es, r.beg)
    IN  IF lb \in 2..Len(es) /\ es[lb].beg > r.beg /\ r.beg < es[lb - 1].end
        THEN lb - 1 ELSE lb

Reaching(es, r, first) == {i \in first..Len(es) : es[i].end >= r.end}
LastInBehind(es, r, first) == \* mutant: with the first element behind r
    LET ends == Reaching(es, r, first)
    IN  IF ends = {} THEN Len(es) ELSE Min(ends)
LastIn(es, r, first) ==
    LET ends == Reaching(es, r, first)
    IN  IF ends = {} THEN Len(es)
        ELSE IF es[Min(ends)].beg >= r.end THEN Min(ends) - 1 ELSE Min(ends)

FindInRange(es, r) ==
    LET n     == Len(es)
        first == FirstIn(es, r)
    IN  IF first > n THEN {i \in {n} : /\ n > 0
                                       /\ es[n].beg <= r.beg /\ r.beg < es[n].end}
        ELSE IF Overlap(r, es[first]) THEN first..LastIn(es, r, first) ELSE {}

\* trim_overlaps: r without what is present at its beginning, up to the first
\* hole, and at its end, from the last hole.
TrimBeg(es, r, found) ==
    LET holes == Holes(es, found)
        end   == es[IF holes = {} THEN Max(found) ELSE Min(holes)].end
    IN  IF es[Min(found)].beg > r.beg THEN r.beg ELSE Min({end, r.end})

TrimEndBefore(es, r, rest) == \* mutant: the element before the last hole
    LET holes == Holes(es, rest)
    IN  IF rest = {} \/ es[Max(rest)].end < r.end THEN r.end
        ELSE es[IF holes = {} THEN Min(rest) ELSE Max(holes)].beg

TrimEnd(es, r, rest) ==
    LET holes == Holes(es, rest)
    IN  IF rest = {} \/ es[Max(rest)].end < r.end THEN r.end
        ELSE es[IF holes = {} THEN Min(rest) ELSE Max(holes) + 1].beg

TrimOverlaps(es, r) ==
    LET found == FindInRange(es, r)
        holes == Holes(es, found)
        beg   == TrimBeg(es, r, found)
        rest  == IF es[Min(found)].beg > r.beg THEN found
                 ELSE {i \in found : holes # {} /\ i >= Min(holes)}
        end   == IF r.end - beg >= MinObjSize THEN TrimEnd(es, r, rest)
                                              ELSE r.end
    IN  IF found = {} THEN r
        ELSE IF end - beg >= MinObjSize THEN [beg |-> beg, end |-> end]
        ELSE NoRange
=============================================================================
