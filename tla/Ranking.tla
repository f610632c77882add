------------------------------ MODULE Ranking ------------------------------
(***************************************************************************)
(* The order in which results come: reciprocal rank fusion (rrf.go) and    *)
(* the order of the rerankers (rerank.go, cross_encoder.go).               *)
(*                                                                         *)
(* Ids are numbers, so that "<" is the order of the id strings.  Scores    *)
(* 1 / (RRFK + rank) are scaled by a common multiple of the denominators,  *)
(* which makes them integers.  Sums that differ here differ as float64;    *)
(* among ranks 1..50 two equal sums differ in the last bit (ranks 6 and 39 *)
(* against 12 and 28 is one), beyond the ranks that TLC can enumerate.     *)
(***************************************************************************)
EXTENDS Integers, Sequences, FiniteSets, SequencesExt, FiniteSetsExt

CONSTANTS
    RRFK,       \* DefaultRRFK
    MaxList     \* bound: length of a ranked list

Scale == ProductSet({RRFK + i : i \in 1..MaxList})

\* mutant: the rank is forgotten
FlatContribution(list, i) == IF i \in ToSet(list) THEN Scale ELSE 0

\* What one ranked list adds to the score of an id.
Contribution(list, i) ==
    SumFunctionOnSet([p \in DOMAIN list |-> Scale \div (RRFK + p)],
                     {p \in DOMAIN list : list[p] = i})

\* mutant: ties are left to the order of the map
TiesUnordered(score, i, j) ==
    score[i] > score[j] \/ (score[i] = score[j] /\ i > j)

\* The order of the result: best score first, ties by id.
Before(score, i, j) ==
    score[i] > score[j] \/ (score[i] = score[j] /\ i < j)

\* sort.Slice: any sequence of S in which nothing stands behind what it is less
\* than; less is a set of pairs.
SortedBy(S, less) ==
    {t \in SetToSeqs(S) : \A p, q \in DOMAIN t : p < q => <<t[q], t[p]>> \notin less}

Cut(s, n) == SubSeq(s, 1, IF Len(s) < n THEN Len(s) ELSE n)

ByScore(score) == {x \in (DOMAIN score) \X (DOMAIN score) : Before(score, x[1], x[2])}

\* mutant: the slice is cut one short
CutShort(score, n) == {Cut(t, n - 1) : t \in SortedBy(DOMAIN score, ByScore(score))}

SortAndCut(score, n) == {Cut(t, n) : t \in SortedBy(DOMAIN score, ByScore(score))}

\* FuseRRF of ranked lists by signal, each without repetitions.
IdsOf(lists)    == UNION {ToSet(lists[s]) : s \in DOMAIN lists}
RRF(lists, i)   == SumFunction([s \in DOMAIN lists |-> Contribution(lists[s], i)])
Fused(lists, n) == SortAndCut([i \in IdsOf(lists) |-> RRF(lists, i)], n)

\* Higher rerank score first, the prior rank on ties.
Preferred(cands, score) ==
    {x \in (DOMAIN cands) \X (DOMAIN cands) :
        \/ score[cands[x[1]]] > score[cands[x[2]]]
        \/ score[cands[x[1]]] = score[cands[x[2]]] /\ x[1] < x[2]}

InOrder(cands, order) == [p \in DOMAIN order |-> cands[order[p]]]

\* mutant: the reranked list is not cut
RerankedUncut(cands, score, n) ==
    {InOrder(cands, order) : order \in SortedBy(DOMAIN cands, Preferred(cands, score))}

Reranked(cands, score, n) ==
    {Cut(InOrder(cands, order), n) :
        order \in SortedBy(DOMAIN cands, Preferred(cands, score))}
=============================================================================
