----------------------------- MODULE RankFusion -----------------------------
(***************************************************************************)
(* FuseRRF as the loop it is: Go's range over the map of lists takes the   *)
(* lists in any order, each adds to the running scores, and the sums are   *)
(* sorted and cut at the end.  Then HeuristicReranker.Rerank orders what   *)
(* was kept by the words each snippet shares with the query.               *)
(*                                                                         *)
(* A snippet is what its score depends on: the words of the query in it    *)
(* and all its words.  Scores are squared, freed of the factor all share   *)
(* and scaled to integers.  At these sizes float64 tells the same apart;   *)
(* at larger ones equal scores may differ in the last bit, as 3 of 45      *)
(* words from 2 of 20.                                                     *)
(***************************************************************************)
EXTENDS Ranking

CONSTANTS
    Id, Signal, TopN,
    QueryWords,     \* number of words of the query
    MaxWords,       \* bound: words of a snippet
    Target          \* TargetSnippetTokens

ASSUME RankFusionAssumption ==
    /\ Id \subseteq Nat /\ IsFiniteSet(Signal)
    /\ RRFK \in Nat \ {0} /\ TopN \subseteq Nat \ {0}
    /\ MaxList \in Nat /\ QueryWords \in Nat /\ MaxWords \in Nat /\ Target \in Nat \ {0}

VARIABLES lists, topN, todo, scores, out, phase, candidates, snippet
fvars == <<lists, topN, todo, scores, out, phase, candidates, snippet>>

\* The retrievers never return a chunk twice: one row per chunk.
RankedLists == {s \in SeqOf(Id, MaxList) : IsInjective(s)}

FInit ==
    /\ lists \in [Signal -> RankedLists]
    /\ topN \in TopN
    /\ todo = Signal
    /\ scores = <<>>
    /\ out = <<>> /\ phase = "fuse"
    /\ candidates = <<>> /\ snippet = <<>>

AddList(signal) ==
    /\ signal \in todo
    /\ todo' = todo \ {signal}
    /\ scores' = [i \in DOMAIN scores \union ToSet(lists[signal]) |->
                    (IF i \in DOMAIN scores THEN scores[i] ELSE 0)
                        + Contribution(lists[signal], i)]
    /\ UNCHANGED <<lists, topN, out, phase, candidates, snippet>>

Finish ==
    /\ todo = {} /\ phase = "fuse"
    /\ out' \in SortAndCut(scores, topN)
    /\ phase' = "fused"
    /\ UNCHANGED <<lists, topN, todo, scores, candidates, snippet>>

(***************************************************************************)
(* The reranker: it sees the fused order and the snippets, nothing else.   *)
(***************************************************************************)
Snippets == {s \in [overlap : 0..QueryWords, size : 0..MaxWords] : s.overlap <= s.size}

HandOver ==
    /\ phase = "fused" /\ phase' = "rerank"
    /\ candidates' = out /\ snippet' \in [ToSet(out) -> Snippets]
    /\ topN' \in TopN
    /\ lists' = [s \in Signal |-> <<>>] /\ scores' = <<>> /\ out' = <<>>
    /\ UNCHANGED todo

\* mutant: a long snippet loses its divisor
LongerIsBetter(size) == IF size > Target THEN 1 ELSE Target

Penalty(size) == IF size > Target THEN size ELSE Target

\* The square of denom / penalty.
Weight(size) == (IF size = 0 THEN 1 ELSE size) * Penalty(size) * Penalty(size)

Weights == ProductSet({Weight(n) : n \in 0..MaxWords})

HeuristicScore(s) == s.overlap * s.overlap * (Weights \div Weight(s.size))

HeuristicRerank ==
    /\ phase = "rerank" /\ phase' = "reranked"
    /\ out' \in Reranked(candidates,
           [i \in ToSet(candidates) |-> HeuristicScore(snippet[i])], topN)
    /\ UNCHANGED <<lists, topN, todo, scores, candidates, snippet>>

FNext == (\E signal \in Signal : AddList(signal)) \/ Finish \/ HandOver \/ HeuristicRerank
FSpec == FInit /\ [][FNext]_fvars
-----------------------------------------------------------------------------
Rank(signal, i) == CHOOSE p \in DOMAIN lists[signal] : lists[signal][p] = i
HitsOf(signal)  == ToSet(lists[signal])
AllHits         == UNION {HitsOf(signal) : signal \in Signal}

\* i stands above j in out, which it may have pushed out.
Above(i, j) ==
    Contains(out, j) => \E p, q \in DOMAIN out : out[p] = i /\ out[q] = j /\ p < q

\* Whatever the order in which the map is walked, the page is the one that the
\* scores and, for equal scores, the ids determine: as many hits as there are,
\* up to topN, none twice, and none left out that would stand before one kept.
OrderIndependent ==
    phase = "fused" =>
        LET score == [i \in AllHits |-> RRF(lists, i)]
        IN  /\ IsInjective(out) /\ ToSet(out) \subseteq AllHits
            /\ Len(out) = IF Cardinality(AllHits) < topN THEN Cardinality(AllHits) ELSE topN
            /\ \A i, j \in AllHits :
                  (score[i] > score[j] \/ (score[i] = score[j] /\ i < j)) => Above(i, j)

\* A hit that every retriever ranks above another is never listed below it,
\* nor left out in its favour (the reason to fuse ranks and not raw scores).
ParetoOrder ==
    phase = "fused" => \A i, j \in AllHits :
        (/\ i # j
         /\ \A signal \in Signal : j \in HitsOf(signal) =>
                i \in HitsOf(signal) /\ Rank(signal, i) < Rank(signal, j))
        => Above(i, j)

\* Reranking prefers no snippet that has fewer of the query's words among more
\* words of its own; with neither better, the fused order stands.
RerankDominates ==
    phase = "reranked" => \A p, q \in DOMAIN candidates :
        LET a == snippet[candidates[p]]  b == snippet[candidates[q]]
        IN  (/\ a.overlap >= b.overlap /\ a.size <= b.size
             /\ p < q \/ a.overlap > b.overlap)
            => Above(candidates[p], candidates[q])
=============================================================================
