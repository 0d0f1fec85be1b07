------------------------------ MODULE MCCacheMgr ------------------------------
(* TLC: two volumes, of which any may be removed while the other goes on,  *)
(* and two open handles, so that one is told of the end of a service after *)
(* the other, and one is pushed in front of the other.                     *)
EXTENDS CacheMgr

=============================================================================
