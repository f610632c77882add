---------------------------- MODULE MCHybridQuery ----------------------------
(* Two bodies, of two chunks and of one; every chunk but one matches the     *)
(* keywords, and the three scorers disagree on the order.                    *)
EXTENDS HybridQuery, TLC

CONSTANTS h1, h2

MCChunksOf     == h1 :> 2 @@ h2 :> 1
MCKeywordScore == <<h1, 1>> :> 5 @@ <<h1, 2>> :> 0 @@ <<h2, 1>> :> 5
MCVectorScore  == <<h1, 1>> :> 1 @@ <<h1, 2>> :> 3 @@ <<h2, 1>> :> 2
MCRerankScore  == <<h1, 1>> :> 2 @@ <<h1, 2>> :> 2 @@ <<h2, 1>> :> 9
=============================================================================
