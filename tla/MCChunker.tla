----------------------------- MODULE MCChunker -----------------------------
(***************************************************************************)
(* Options for Chunker: a configuration cannot name a negative number.     *)
(***************************************************************************)
EXTENDS Chunker

MCOverlaps == {-1, 1, 3}
=============================================================================
