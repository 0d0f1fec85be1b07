------------------------------- MODULE FsTable -------------------------------
(***************************************************************************)
(* cache/fs_table.h with the operations of cache_fs_operations.cpp on it:  *)
(* the fragments of every object, of any bounds, the counts the table      *)
(* keeps of them and the readers that mark them.  CacheFs has the same     *)
(* table with fragments of fixed bounds, and what happens to their data.   *)
(* Each operation runs with the lock of the metadata and is one action.    *)
(***************************************************************************)
EXTENDS RangeVector

CONSTANTS Keys,        \* fs_node_keys
          ObjSize,     \* bound: bytes of the object of each key
          MaxObjSize,  \* max_obj_size
          MaxFragSize, \* object_frag_max_data_size
          MaxReaders,  \* max_cnt_readers (255)
          Readers,     \* read transactions
          MaxDataSize, \* max_allowed_data_size_, in elements
          None

\* sizeof(fs_node_t), an fs_node_key_t of 16 bytes and the vector, in elements
\* of 16 bytes.
NodeSize == 2

Ranges(k, min, max) ==
    {r \in [beg : 0..ObjSize[k], end : 0..ObjSize[k]] :
        r.beg < r.end /\ Length(r) \in min..max}
FragRanges(k) == Ranges(k, 1, MaxFragSize)
ObjRanges(k)  == Ranges(k, MinObjSize, ObjSize[k])
Trans == UNION {[k : {k}, r : ObjRanges(k)] : k \in Keys}

ASSUME TableAssumption ==
    /\ MaxObjSize \in Nat /\ ObjSize \in [Keys -> 0..MaxObjSize]
    /\ MaxFragSize \in Nat \ {0}
    /\ MaxReaders \in Nat \ {0} /\ MaxDataSize \in Nat
    /\ IsFiniteSet(Readers)
    /\ None \notin Trans \cup [k : Keys, beg : 0..MaxObjSize, end : 0..MaxObjSize]

VARIABLES nodes,  \* fs_nodes_: no elements, no node
          counts, \* cnt_ranges_, cnt_entries_, entries_data_size_
          rtrans  \* the read_transactions

vars == <<nodes, counts, rtrans>>

Elem(k)  == {[beg |-> r.beg, end |-> r.end, rd |-> n] :
                r \in FragRanges(k), n \in 0..MaxReaders}
NodesIn(ns)  == {k \in Keys : ns[k] # <<>>}

\* The sum of the lengths of elements: each offset of each of them.
BytesOf(es, is) == {b \in is \X (0..MaxObjSize) :
                        es[b[1]].beg <= b[2] /\ b[2] < es[b[1]].end}
Bytes(es, is)   == Cardinality(BytesOf(es, is))

TypeOK ==
    /\ \A k \in Keys : nodes[k] \in Seq(Elem(k)) /\ Len(nodes[k]) <= MaxRanges
    /\ DOMAIN nodes = Keys
    /\ counts \in [ranges : Nat, entries : Nat, bytes : Nat]
    /\ rtrans \in [Readers -> Trans \cup {None}]

Init == /\ nodes  = [k \in Keys |-> <<>>]
        /\ counts = [ranges |-> 0, entries |-> 0, bytes |-> 0]
        /\ rtrans = [t \in Readers |-> None]

-----------------------------------------------------------------------------
\* What of a vector's elements is counted: not the one that is kept in place.
CalcIncCntRanges(size) ==
    CASE size = 0 -> 0 [] size = 1 -> 2 [] OTHER -> 1
CalcDecCntRangesAll(size, dec) == \* mutant: nothing is kept in place
    IF size = 1 THEN 0 ELSE dec
CalcDecCntRanges(size, dec) ==
    IF size = 1 THEN 0 ELSE IF size = dec + 1 THEN dec + 1 ELSE dec

DataSize(nodes_, ranges) == nodes_ * NodeSize + ranges

IncEntries(c, inc, r) ==
    [ranges |-> c.ranges + inc, entries |-> c.entries + 1,
     bytes |-> c.bytes + Length(r)]
DecEntries(c, es, is) ==
    [ranges  |-> c.ranges - CalcDecCntRanges(Len(es), Cardinality(is)),
     entries |-> c.entries - Cardinality(is),
     bytes   |-> c.bytes - Bytes(es, is)]

\* The overwrite condition of fsmd_add_new_fragment.
MayOverwriteFirst(es, is) == is # {} => es[Min(is)].rd = 0 \* mutant: the first
MayOverwrite(es, is) == \A i \in is : es[i].rd = 0

\* fs_table::add_entry, called by fsmd_add_new_fragment: the vector and the
\* counts after it.
AddEntry(es, cnt_nodes, c, r) ==
    LET e     == [beg |-> r.beg, end |-> r.end, rd |-> 0]
        found == FindInRange(es, r)
        rest  == RemRange(es, found)
        inc   == CalcIncCntRanges(Len(es))
        same  == [es |-> es, c |-> c]
    IN  CASE es = <<>> ->
                IF DataSize(cnt_nodes + 1, c.ranges) > MaxDataSize THEN same
                ELSE [es |-> <<e>>, c |-> IncEntries(c, 0, r)]
          [] es # <<>> /\ found = {} ->
                IF \/ DataSize(cnt_nodes, c.ranges + inc) > MaxDataSize
                   \/ ~CanAddRange(es, r)
                THEN same
                ELSE [es |-> AddRange(es, e), c |-> IncEntries(c, inc, r)]
          [] found # {} ->
                IF ~MayOverwrite(es, found) THEN same
                ELSE [es |-> AddRange(rest, e),
                      c  |-> IncEntries(DecEntries(c, es, found),
                                        CalcIncCntRanges(Len(rest)), r)]

AddNewFragment(k, r) ==
    LET added == AddEntry(nodes[k], Cardinality(NodesIn(nodes)), counts, r)
    IN  /\ nodes'  = [nodes EXCEPT ![k] = added.es]
        /\ counts' = added.c
        /\ UNCHANGED rtrans

\* The indices of a vector but is, in their order.
Remaining(es, is) ==
    {at \in [1..(Len(es) - Cardinality(is)) -> DOMAIN es \ is] :
        /\ Range(at) = DOMAIN es \ is
        /\ \A i, j \in DOMAIN at : i < j => at[i] < at[j]}

\* fs_table::rem_entries: is are the elements the caller's function removes.
RemEntries(k, is) ==
    \E at \in Remaining(nodes[k], is) :
        /\ nodes'  = [nodes EXCEPT ![k] = [i \in DOMAIN at |-> @[at[i]]]]
        /\ counts' = DecEntries(counts, nodes[k], is)
        /\ UNCHANGED rtrans

\* fsmd_rem_non_evac_frags, of the entries rs that the metadata of a block has
\* for k.
RemNonEvacFragsRead(k, rs) == \* mutant: those that are being read, too
    nodes[k] # <<>> /\
    RemEntries(k, UNION {FindExactRange(nodes[k], r) : r \in rs})
RemNonEvacFrags(k, rs) ==
    LET found == UNION {FindExactRange(nodes[k], r) : r \in rs}
    IN  nodes[k] # <<>> /\ RemEntries(k, {i \in found : nodes[k][i].rd = 0})

\* fsmd_begin_write_truncate, when it succeeds.
BeginWriteTruncate(k) ==
    /\ nodes[k] # <<>> /\ MayOverwrite(nodes[k], DOMAIN nodes[k])
    /\ RemEntries(k, DOMAIN nodes[k])

-----------------------------------------------------------------------------
\* The readers count of the elements that cover a transaction's range.
MarkReader(es, is) ==
    [i \in DOMAIN es |-> IF i \in is THEN [es[i] EXCEPT !.rd = @ + 1] ELSE es[i]]
UnmarkReader(es, is) ==
    [i \in DOMAIN es |-> IF i \in is THEN [es[i] EXCEPT !.rd = @ - 1] ELSE es[i]]

\* fsmd_begin_read: when one element has its most readers none gets another.
BeginRead(t, k, r) ==
    LET found == FindFullRange(nodes[k], r)
    IN  /\ rtrans[t] = None
        /\ found # {} /\ \A i \in found : nodes[k][i].rd < MaxReaders
        /\ nodes'  = [nodes EXCEPT ![k] = MarkReader(@, found)]
        /\ rtrans' = [rtrans EXCEPT ![t] = [k |-> k, r |-> r]]
        /\ UNCHANGED counts

\* fsmd_end_read: it finds its elements again.
EndRead(t) ==
    LET k     == rtrans[t].k
        found == FindFullRange(nodes[k], rtrans[t].r)
    IN  /\ rtrans[t] # None
        /\ nodes'  = [nodes EXCEPT ![k] = UnmarkReader(@, found)]
        /\ rtrans' = [rtrans EXCEPT ![t] = None]
        /\ UNCHANGED counts

\* fsmd_begin_write: the range a write transaction gets.
BeginWrite(k, r) == IF nodes[k] = <<>> THEN r ELSE TrimOverlaps(nodes[k], r)

Next ==
    \/ \E k \in Keys : \E r \in FragRanges(k) : AddNewFragment(k, r)
    \/ \E k \in Keys : \E es \in SUBSET Range(nodes[k]) :
            RemNonEvacFrags(k, es)
    \/ \E k \in Keys : BeginWriteTruncate(k)
    \/ \E t \in Readers, k \in Keys : \E r \in ObjRanges(k) : BeginRead(t, k, r)
    \/ \E t \in Readers : EndRead(t)

Spec == Init /\ [][Next]_vars
-----------------------------------------------------------------------------
\* Properties.

Holds(k, x) == \E i \in DOMAIN nodes[k] :
                   nodes[k][i].beg <= x /\ x < nodes[k][i].end

\* How much all the objects have of something.
Total(of) == Cardinality(UNION {{k} \X of[k] : k \in Keys})
InHeap    == [k \in Keys |-> {i \in DOMAIN nodes[k] : Len(nodes[k]) > 1}]
Entries   == [k \in Keys |-> DOMAIN nodes[k]]
Stored    == [k \in Keys |-> {x \in 0..MaxObjSize : Holds(k, x)}]

\* The counts of the table are those of what is in it: elements but those kept
\* in place, entries and bytes of the objects.  A count that drifts makes the
\* table refuse fragments, or lets it grow beyond what it is allowed: with a
\* fragment that needs no memory itself but moves a vector to the heap it stays
\* within.
CountsExact ==
    /\ counts.ranges  = Total(InHeap)
    /\ counts.entries = Total(Entries)
    /\ counts.bytes   = Total(Stored)
    /\ DataSize(Cardinality(NodesIn(nodes)), counts.ranges) <= MaxDataSize

\* The readers of an element are the transactions whose range it is a part of,
\* although the fragments around it come and go: fsmd_end_read finds the elements
\* that fsmd_begin_read has marked, and no others.
ReadersExact ==
    \A k \in Keys : \A i \in DOMAIN nodes[k] :
        nodes[k][i].rd = Cardinality({t \in Readers :
            /\ rtrans[t] # None /\ rtrans[t].k = k
            /\ Overlap(rtrans[t].r, nodes[k][i])})

\* What a search returns, said without the order of the elements.
Here(k, r)   == {i \in DOMAIN nodes[k] : Overlap(r, nodes[k][i])}
Missing(k, r) == {x \in r.beg .. (r.end - 1) : ~Holds(k, x)}

\* find_full_range and find_in_range find what overlaps the range, the first
\* one only when all of the range is there.
SearchesFind ==
    \A k \in Keys : \A r \in Ranges(k, 1, ObjSize[k]) :
        /\ FindInRange(nodes[k], r) = Here(k, r)
        /\ FindFullRange(nodes[k], r) =
                IF Missing(k, r) = {} THEN Here(k, r) ELSE {}

\* A write transaction gets the bytes from the first to the last one that are
\* missing, or nothing when that is less than the smallest object.
WritesMissing ==
    \A k \in Keys : \A r \in ObjRanges(k) :
        LET miss == Missing(k, r)
            want == [beg |-> Min(miss), end |-> Max(miss) + 1]
        IN  BeginWrite(k, r) =
                IF miss # {} /\ Length(want) >= MinObjSize THEN want ELSE NoRange

\* The table keeps what it promises its readers (PinnedRanges): a fragment is
\* never removed or replaced, by whatever fragments of other bounds, while it is
\* a part of what a transaction reads.
Pinned == INSTANCE PinnedRanges WITH
    MaxSize <- MaxObjSize,
    frags <- UNION {{[k |-> k, beg |-> nodes[k][i].beg, end |-> nodes[k][i].end] :
                        i \in DOMAIN nodes[k]} : k \in Keys},
    reads <- [t \in Readers |-> IF rtrans[t] = None THEN None
                ELSE [k |-> rtrans[t].k, beg |-> rtrans[t].r.beg,
                      end |-> rtrans[t].r.end]]
PinsWhatIsRead == Pinned!Spec
=============================================================================
