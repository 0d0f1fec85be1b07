--------------------------- MODULE MCWriteHandle ---------------------------
(* TLC: an object of five units of which the first and the last are not    *)
(* wanted, fragments of two units, writes of one to four units.            *)
EXTENDS WriteHandle

=============================================================================
