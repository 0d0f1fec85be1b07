----------------------------- MODULE PinnedRanges -----------------------------
(***************************************************************************)
(* What the table of fragments promises to those who read: a set of        *)
(* fragments of objects that don't overlap, and read transactions that pin *)
(* what they read.  A transaction begins only when all of its range is     *)
(* there, and until it ends nothing of it is replaced or removed.  How the *)
(* fragments are kept, found, marked and counted is FsTable's.             *)
(***************************************************************************)
EXTENDS Naturals

CONSTANTS Keys,    \* objects
          Readers, \* read transactions
          MaxSize, \* bytes of the largest object
          None

Offsets == 0..MaxSize

VARIABLES frags, \* the fragments: [k |-> key, beg |-> , end |-> ]
          reads  \* what each transaction reads, or None

vars == <<frags, reads>>

Frag == [k : Keys, beg : Offsets, end : Offsets]

Overlaps(f, g)  == f.k = g.k /\ f.beg < g.end /\ g.beg < f.end
Covered(r, fs)  == \A x \in Offsets : r.beg <= x /\ x < r.end =>
                        \E f \in fs : f.k = r.k /\ f.beg <= x /\ x < f.end
Pinned(f)       == \E t \in Readers : reads[t] # None /\ Overlaps(f, reads[t])

Init == frags = {} /\ reads = [t \in Readers |-> None]

Begin(t, r) == /\ reads[t] = None
               /\ r \in Frag /\ Covered(r, frags)
               /\ reads' = [reads EXCEPT ![t] = r]
               /\ UNCHANGED frags

End(t) == /\ reads[t] # None
          /\ reads' = [reads EXCEPT ![t] = None]
          /\ UNCHANGED frags

\* A new fragment takes the place of all that overlap it.
Add(f) == LET old == {g \in frags : Overlaps(f, g)}
          IN  /\ f \in Frag /\ f.beg < f.end
              /\ \A g \in old : ~Pinned(g)
              /\ frags' = (frags \ old) \cup {f}
              /\ UNCHANGED reads

Remove(fs) == /\ fs \subseteq frags
              /\ \A f \in fs : ~Pinned(f)
              /\ frags' = frags \ fs
              /\ UNCHANGED reads

Next == \/ \E t \in Readers, r \in Frag : Begin(t, r)
        \/ \E t \in Readers : End(t)
        \/ \E f \in Frag : Add(f)
        \/ \E fs \in SUBSET frags : Remove(fs)

Spec == Init /\ [][Next]_vars
=============================================================================
