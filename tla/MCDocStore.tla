----------------------------- MODULE MCDocStore -----------------------------
(* Small instances of DocStore.                                            *)
EXTENDS DocStore, TLC

CONSTANTS h1, h2, d1, d2, d3, r1, r2, r3

\* A body of one chunk and one of two.
MCChunksOf == h1 :> 2 @@ h2 :> 1

\* Requests and ids are interchangeable; hashes are not (MCChunksOf).
Symmetry == Permutations(Req) \union Permutations(DocId)
=============================================================================
