------------------------------ MODULE MCFsTable ------------------------------
(* Small instances of FsTable for TLC.                                       *)
EXTENDS FsTable

CONSTANTS k1, k2, t1, t2, t3

\* An object with several fragments and one that is a single fragment.
McObjSize == k1 :> 5 @@ k2 :> 2

Symmetry == Permutations(Readers)
=============================================================================
