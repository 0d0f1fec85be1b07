----------------------------- MODULE MCCacheFs -----------------------------
(* CacheFs on small instances.  Read handles only differ by what they do,  *)
(* so permuting them is a symmetry of the safety runs that have several.   *)
EXTENDS CacheFs, TLC

Symmetry == Permutations(ReadHandles)
=============================================================================
