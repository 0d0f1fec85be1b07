---------------------------- MODULE MCFsMetadata ----------------------------
(* TLC: one node.  A vector of one range is not counted, one of two ranges *)
(* is, and makes the table need a second chunk.                            *)
EXTENDS FsMetadata

=============================================================================
