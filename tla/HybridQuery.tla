---------------------------- MODULE HybridQuery ----------------------------
(***************************************************************************)
(* POST /v1/query (handleQuery, Engine.Query) over the index of DocIndex,  *)
(* which documents enter and leave while the query runs.  The query is one *)
(* goroutine: SearchBM25, Embed, SearchVector, FuseRRF and Rerank in turn, *)
(* each search a statement with a snapshot of its own, Embed and the cross *)
(* encoder calls to the sidecar, which fails and recovers.  Queries share  *)
(* nothing but the index and the sidecar, so one at a time is modelled,    *)
(* and a client that asks again.                                           *)
(*                                                                         *)
(* A chunk is numbered ChunkNo(d, i); the number stands for its uuid.      *)
(***************************************************************************)
EXTENDS DocIndex, Ranking

CONSTANTS
    MaxChunks,      \* bound: chunks of a document
    KeywordScore,   \* ts_rank_cd of a chunk, 0 where it does not match
    VectorScore,    \* cosine similarity of a chunk
    RerankScore,    \* what the reranker thinks of it
    Modes,          \* of "hybrid", "keyword", "vector", "hybrid+rerank"
    Ks,             \* values of k in requests, 0 for none
    DefaultK,
    PerListLimit, RerankInputN,
    RerankerKinds,  \* of "none", "heuristic", "cross"
    MaxQueries,     \* bound: queries
    MaxFaults       \* bound: failed searches and sidecar outages

ASSUME HybridAssumption ==
    /\ DocId \subseteq Nat /\ IsFiniteSet(DocId) /\ MaxChunks \in Nat \ {0}
    /\ \A h \in Hash : ChunksOf[h] \in 1..MaxChunks
    /\ NoHash \notin Hash
    /\ Ks \subseteq Nat
    /\ DefaultK \in Nat \ {0} /\ PerListLimit \in Nat \ {0}
    /\ RerankInputN \in Nat \ {0}
    /\ PerListLimit <= MaxList
    /\ RerankerKinds \subseteq {"none", "heuristic", "cross"}

VARIABLES
    pc, mode, k, bm, vec, cands, results,
    sidecarUp,
    reranker,       \* the reranker the server was started with
    \* history
    goneBefore,     \* documents already deleted when the query arrived
    stable,         \* documents live at the arrival and ever since
    queries, faults

store   == avars
query   == <<mode, k, bm, vec, cands, results>>
ghosts  == <<goneBefore, stable>>
env     == <<store, sidecarUp, reranker, ghosts, queries, faults>>
vars    == <<store, pc, query, sidecarUp, reranker, ghosts, queries, faults>>

ChunkNo(d, i)  == d * MaxChunks + i - 1
DocOf(c)       == c \div MaxChunks
Chunk(h, i)    == <<h, i>>
Live           == {d \in DocId : stage[d] = "live"}
ChunksOfDocs(D) == {ChunkNo(p[1], p[2]) : p \in
                       {x \in D \X (1..MaxChunks) : x[2] <= text[x[1]]}}

\* mutant: the joins on docs.deleted_at are forgotten
AllChunks      == ChunksOfDocs(DocId)
LiveChunks     == ChunksOfDocs(Live)
ScoreOf(table, c) == table[Chunk(content[DocOf(c)], (c % MaxChunks) + 1)]
Matching       == {c \in LiveChunks : ScoreOf(KeywordScore, c) > 0}

TypeOK ==
    /\ pc \in {"idle", "bm25", "embed", "vector", "fuse", "rerank", "ok", "failed"}
    /\ mode \in Modes /\ k \in Nat
    /\ \A s \in {bm, vec, cands, results} : s \in Seq(Nat) /\ IsInjective(s)
    /\ sidecarUp \in BOOLEAN /\ reranker \in RerankerKinds
    /\ goneBefore \subseteq DocId /\ stable \subseteq Live

Init ==
    /\ AInit
    /\ pc = "idle" /\ mode \in Modes /\ k = 0
    /\ bm = <<>> /\ vec = <<>> /\ cands = <<>> /\ results = <<>>
    /\ sidecarUp = TRUE /\ reranker \in RerankerKinds
    /\ goneBefore = {} /\ stable = {}
    /\ queries = 0 /\ faults = 0

(***************************************************************************)
(* The index changes, and the sidecar comes and goes.                      *)
(***************************************************************************)
StoreChanges ==
    /\ ANext
    /\ stable' = {d \in stable : stage'[d] = "live"}
    /\ UNCHANGED <<pc, query, sidecarUp, reranker, goneBefore, queries, faults>>

SidecarChanges ==
    /\ \/ sidecarUp /\ faults < MaxFaults /\ faults' = faults + 1
       \/ ~sidecarUp /\ UNCHANGED faults
    /\ sidecarUp' = ~sidecarUp
    /\ UNCHANGED <<store, pc, query, reranker, ghosts, queries>>

(***************************************************************************)
(* The handler and the engine.                                             *)
(***************************************************************************)
UseBM25   == mode \in {"hybrid", "keyword", "hybrid+rerank"}

UseVector == mode \in {"hybrid", "vector", "hybrid+rerank"}
Reranks   == mode = "hybrid+rerank" /\ reranker # "none"

QueryArrives(m, n) ==
    /\ pc \in {"idle", "ok", "failed"}
    /\ queries < MaxQueries
    /\ queries' = queries + 1
    /\ mode' = m /\ k' = IF n = 0 THEN DefaultK ELSE n
    /\ bm' = <<>> /\ vec' = <<>> /\ cands' = <<>> /\ results' = <<>>
    /\ pc' = IF m = "vector" THEN "embed" ELSE "bm25"
    /\ goneBefore' = {d \in DocId : stage[d] \in {"deleted", "reclaimed"}}
    /\ stable' = Live
    /\ UNCHANGED <<store, sidecarUp, reranker, faults>>

\* 500 query_failed, whatever failed.
QueryFails ==
    /\ pc' = "failed"
    /\ UNCHANGED <<store, query, sidecarUp, reranker, goneBefore, stable, queries>>

DatabaseFails ==
    /\ pc \in {"bm25", "vector"}
    /\ faults < MaxFaults /\ faults' = faults + 1
    /\ QueryFails

\* ORDER BY a score, LIMIT PerListLimit: equal scores come in any order.
Ranked(S, table) ==
    {Cut(t, PerListLimit) : t \in
        SortedBy(S, {x \in S \X S : ScoreOf(table, x[1]) > ScoreOf(table, x[2])})}

SearchBM25 ==
    /\ pc = "bm25"
    /\ bm' \in Ranked(Matching, KeywordScore)
    /\ pc' = IF UseVector THEN "embed" ELSE "fuse"
    /\ UNCHANGED <<mode, k, vec, cands, results, env>>

\* mutant: the client has no timeout
EmbedPatiently ==
    /\ pc = "embed" /\ sidecarUp
    /\ pc' = "vector"
    /\ UNCHANGED <<query, env>>

EmbedQuery ==
    /\ pc = "embed"
    /\ \/ /\ sidecarUp
          /\ pc' = "vector"
          /\ UNCHANGED <<query, env>>
       \/ ~sidecarUp /\ QueryFails /\ UNCHANGED faults

\* The HNSW index is approximate: any of the live chunks may be missed.
SearchVector ==
    /\ pc = "vector"
    /\ \E S \in SUBSET LiveChunks : vec' \in Ranked(S, VectorScore)
    /\ pc' = "fuse"
    /\ UNCHANGED <<mode, k, bm, cands, results, env>>

FuseLimit == IF Reranks THEN RerankInputN ELSE k

Fuse ==
    /\ pc = "fuse"
    /\ \E fused \in Fused([bm25 |-> bm, vector |-> vec], FuseLimit) :
           IF Reranks /\ fused # <<>>
           THEN cands' = fused /\ pc' = "rerank" /\ UNCHANGED results
           ELSE results' = fused /\ pc' = "ok" /\ UNCHANGED cands
    /\ UNCHANGED <<mode, k, bm, vec, env>>

Rerank ==
    /\ pc = "rerank"
    /\ \/ /\ reranker = "heuristic" \/ sidecarUp
          /\ results' \in Reranked(cands,
                 [c \in ToSet(cands) |-> ScoreOf(RerankScore, c)], k)
          /\ pc' = "ok"
          /\ UNCHANGED <<mode, k, bm, vec, cands, env>>
       \/ /\ reranker = "cross" /\ ~sidecarUp
          /\ QueryFails /\ UNCHANGED faults

Engine == SearchBM25 \/ EmbedQuery \/ SearchVector \/ Fuse \/ Rerank

Next ==
    \/ StoreChanges \/ SidecarChanges \/ DatabaseFails \/ Engine
    \/ \E m \in Modes, n \in Ks : QueryArrives(m, n)

Spec == Init /\ [][Next]_vars
FairSpec == Spec /\ WF_vars(Engine)
-----------------------------------------------------------------------------
\* A query that arrives after a DELETE was acknowledged shows no chunk of that
\* document, however long it runs and whatever is compacted meanwhile.
NothingDeletedBefore ==
    pc = "ok" => \A p \in DOMAIN results : DocOf(results[p]) \notin goneBefore

\* A keyword page shorter than k is complete: every chunk that matched while
\* the query ran, of a document live all along, is on it.  So is a hybrid page,
\* unless the reranker was given fewer candidates than k (see RerankHasChoice).
ShortPageComplete ==
    (pc = "ok" /\ UseBM25 /\ Len(results) < k
     /\ Len(bm) < PerListLimit /\ (Reranks => k <= RerankInputN))
    => \A c \in Matching : DocOf(c) \in stable => Contains(results, c)

\* What is answered was found, once, and there are at most k of it: reranking
\* and fusing two lists that overlap add and repeat nothing.
ResultsFound ==
    pc = "ok" => /\ IsInjective(results)
                 /\ ToSet(results) \subseteq ToSet(bm) \union ToSet(vec)
                 /\ Len(results) <= k

\* Every query is answered, with the sidecar up or down.
QueryAnswered == pc \notin {"idle", "ok", "failed"} ~> pc \in {"ok", "failed"}

\* What a comment says and the code does not do.
\* hybrid.go: "For the rerank path we pull more candidates out of fusion than
\* we will ultimately return".
RerankHasChoice ==
    pc = "rerank" =>
        \/ Len(cands) >= k
        \/ Len(cands) = Cardinality(ToSet(bm) \union ToSet(vec))
=============================================================================
