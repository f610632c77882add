-------------------------- MODULE MCQueryFunctions --------------------------
(* The pure functions a query goes through, the sanitiser before the searches *)
(* and the fusion with the lexical reranker behind them, each from every      *)
(* input: one is at work and the other rests, with nothing left to do.        *)
EXTENDS Sanitize, RankFusion

SanitizeRests ==
    /\ q = <<>> /\ b = <<>> /\ i = 1 /\ prevSpace = TRUE
    /\ pass = 2 /\ pc = "done"

FusionRests ==
    /\ lists = [s \in Signal |-> <<>>] /\ topN = 1
    /\ todo = {} /\ scores = <<>> /\ out = <<>>
    /\ candidates = <<>> /\ snippet = <<>> /\ phase = "reranked"

QInit == (Init /\ FusionRests) \/ (FInit /\ SanitizeRests)

QNext == (Next /\ UNCHANGED fvars) \/ (FNext /\ UNCHANGED vars)

QSpec == QInit /\ [][QNext]_<<vars, fvars>>
=============================================================================
