----------------------------- MODULE MCService -----------------------------
(* One body of two chunks.                                                 *)
EXTENDS Service, TLC
CONSTANTS h1
MCChunksOf == h1 :> 2
=============================================================================
