---------------------------- MODULE QueryProofs ----------------------------
(***************************************************************************)
(* What a query answers and in which order, for any number of documents,   *)
(* chunks and ranked lists, any scores, snippets and limits, and whatever  *)
(* happens to the index while it runs.                                     *)
(*                                                                         *)
(* The argument follows the pipeline.  Each search, the fusion and the     *)
(* reranker make a page: chunks of a set, each once, at most as many as    *)
(* the limit, and all of them when there are fewer.  Of the order, the     *)
(* scores and ids determine it; the running scores of FuseRRF are at any   *)
(* time the sums over the lists it has walked (FInv).  The invariant of    *)
(* the query (HInv) says of which set each list is a page, and what of the *)
(* index has not changed since it was made.                                *)
(***************************************************************************)
EXTENDS HybridQuery, RankFusion, SumProofs

-----------------------------------------------------------------------------
(* Pages.                                                                  *)

IsPage(s, S, n) ==
    /\ s \in Seq(S) /\ IsInjective(s) /\ Len(s) <= n
    /\ Len(s) < n => S \subseteq ToSet(s)

\* A finite set written out as a sequence.
LEMMA Enumeration ==
    ASSUME NEW S, IsFiniteSet(S), NEW t \in SetToSeqs(S)
    PROVE  t \in Seq(S) /\ IsInjective(t) /\ ToSet(t) = S
<1> DEFINE n == Cardinality(S)
           D == 1..n
<1>1. n \in Nat
  BY FS_CardinalityType
<1>2. t \in [D -> S] /\ \A i, j \in D : i # j => t[i] # t[j]
  BY DEF SetToSeqs
<1>3. IsFiniteSet(D) /\ Cardinality(D) = n
  BY <1>1, FS_Interval
<1>4. t \in Injection(D, S)
  BY <1>2 DEF Injection, IsInjective
<1>5. t \in Surjection(D, S)
  BY <1>3, <1>4, FS_Injection
<1>6. \A m \in S : \E p \in D : t[p] = m
  BY <1>5 DEF Surjection
<1>7. DOMAIN t = D
  BY <1>2
<1>8. t \in Seq(S)
  BY <1>1, <1>2
<1> QED BY <1>2, <1>6, <1>7, <1>8 DEF IsInjective, ToSet

LEMMA CutRows ==
    ASSUME NEW S, NEW t \in Seq(S), IsInjective(t), NEW n \in Nat
    PROVE  /\ Cut(t, n) \in Seq(S) /\ IsInjective(Cut(t, n)) /\ Len(Cut(t, n)) <= n
           /\ ToSet(Cut(t, n)) \subseteq ToSet(t)
           /\ Len(Cut(t, n)) < n => Cut(t, n) = t
<1> DEFINE m == IF Len(t) < n THEN Len(t) ELSE n
<1>1. m \in Nat /\ m <= Len(t) /\ Len(t) \in Nat /\ m <= n /\ (m < n => m = Len(t))
  OBVIOUS
<1>2. Cut(t, n) = SubSeq(t, 1, m)
  BY DEF Cut
<1> HIDE DEF m
<1>3. /\ SubSeq(t, 1, m) \in Seq(S) /\ Len(SubSeq(t, 1, m)) = m
      /\ \A p \in 1..m : SubSeq(t, 1, m)[p] = t[p] /\ p \in DOMAIN t
      /\ DOMAIN SubSeq(t, 1, m) = 1..m
  BY <1>1
<1>4. IsInjective(SubSeq(t, 1, m)) /\ ToSet(SubSeq(t, 1, m)) \subseteq ToSet(t)
  BY <1>3 DEF IsInjective, ToSet
<1>5. m = Len(t) => SubSeq(t, 1, m) = t
  <2> SUFFICES ASSUME m = Len(t) PROVE SubSeq(t, 1, m) = t
    OBVIOUS
  <2> QED BY <1>1, <1>3
<1> QED BY <1>1, <1>2, <1>3, <1>4, <1>5

LEMMA CutPrefix ==
    ASSUME NEW S, NEW t \in Seq(S), NEW n \in Nat
    PROVE  /\ Len(Cut(t, n)) \in Nat /\ Len(Cut(t, n)) <= Len(t)
           /\ DOMAIN Cut(t, n) = 1..Len(Cut(t, n))
           /\ \A p \in DOMAIN Cut(t, n) : p \in DOMAIN t /\ Cut(t, n)[p] = t[p]
           /\ DOMAIN t = 1..Len(t) /\ Len(t) \in Nat
<1> DEFINE m == IF Len(t) < n THEN Len(t) ELSE n
<1>1. m \in Nat /\ m <= Len(t) /\ Len(t) \in Nat /\ DOMAIN t = 1..Len(t)
  OBVIOUS
<1>2. Cut(t, n) = SubSeq(t, 1, m)
  BY DEF Cut
<1> HIDE DEF m
<1>3. /\ Len(SubSeq(t, 1, m)) = m /\ DOMAIN SubSeq(t, 1, m) = 1..m
      /\ \A p \in 1..m : SubSeq(t, 1, m)[p] = t[p] /\ p \in DOMAIN t
  BY <1>1
<1> QED BY <1>1, <1>2, <1>3

LEMMA CutPage ==
    ASSUME NEW S, IsFiniteSet(S), NEW t \in SetToSeqs(S), NEW n \in Nat
    PROVE  IsPage(Cut(t, n), S, n)
BY Enumeration, CutRows DEF IsPage

LEMMA WiderSeq ==
    ASSUME NEW S, NEW T, S \subseteq T, NEW s \in Seq(S)
    PROVE  s \in Seq(T)
<1>1. s \in [1..Len(s) -> S] /\ Len(s) \in Nat
  OBVIOUS
<1>2. s \in [1..Len(s) -> T]
  BY <1>1
<1> QED BY <1>1, <1>2

LEMMA SeqRange ==
    ASSUME NEW S, NEW s \in Seq(S)
    PROVE  IsFiniteSet(ToSet(s)) /\ ToSet(s) \subseteq S /\ s \in Seq(ToSet(s))
<1>1. s \in [1..Len(s) -> S] /\ Len(s) \in Nat
  OBVIOUS
<1>2. IsFiniteSet(1..Len(s))
  BY <1>1, FS_Interval
<1>3. s \in Surjection(1..Len(s), ToSet(s))
  BY <1>1 DEF Surjection, ToSet
<1>4. s \in [1..Len(s) -> ToSet(s)]
  BY <1>1 DEF ToSet
<1>5. s \in Seq(ToSet(s))
  BY <1>1, <1>4
<1>6. ToSet(s) \subseteq S
  BY <1>1 DEF ToSet
<1> QED BY <1>2, <1>3, <1>5, <1>6, FS_Surjection

\* A sequence without repetitions is as long as its set is large.
LEMMA RowCount ==
    ASSUME NEW S, NEW u \in Seq(S), IsInjective(u)
    PROVE  Cardinality(ToSet(u)) = Len(u) /\ IsFiniteSet(ToSet(u))
<1>1. u \in [1..Len(u) -> ToSet(u)] /\ Len(u) \in Nat
  BY DEF ToSet
<1>2. IsFiniteSet(1..Len(u)) /\ Cardinality(1..Len(u)) = Len(u)
  <2>1. PICK n \in Nat : n = Len(u)
    BY <1>1
  <2>2. IsFiniteSet(1..n) /\ Cardinality(1..n) = n
    BY FS_Interval
  <2> QED BY <2>1, <2>2
<1>3. u \in Surjection(1..Len(u), ToSet(u))
  BY <1>1 DEF Surjection, ToSet
<1>4. u \in Injection(1..Len(u), ToSet(u))
  BY <1>1 DEF Injection, IsInjective
<1>5. u \in Bijection(1..Len(u), ToSet(u))
  BY <1>3, <1>4 DEF Bijection
<1>6. ExistsBijection(1..Len(u), ToSet(u))
  BY <1>5 DEF ExistsBijection
<1> QED BY <1>2, <1>6, FS_Bijection

\* So it is no longer than one that has all it has.
LEMMA FewerRows ==
    ASSUME NEW S, NEW s \in Seq(S), IsInjective(s), NEW t \in Seq(S), IsInjective(t),
           ToSet(s) \subseteq ToSet(t)
    PROVE  Len(s) <= Len(t)
<1>1. /\ Cardinality(ToSet(s)) = Len(s) /\ IsFiniteSet(ToSet(s))
      /\ Cardinality(ToSet(t)) = Len(t) /\ IsFiniteSet(ToSet(t))
  BY RowCount
<1>2. Cardinality(ToSet(s)) <= Cardinality(ToSet(t))
  BY <1>1, FS_Subset
<1> QED BY <1>1, <1>2

\* FuseRRF returns a page of what the two lists hold together.
LEMMA FusedPage ==
    ASSUME NEW S, bm \in Seq(S), vec \in Seq(S), NEW n \in Nat,
           NEW s \in Fused([bm25 |-> bm, vector |-> vec], n)
    PROVE  IsPage(s, ToSet(bm) \union ToSet(vec), n)
<1> DEFINE found == [bm25 |-> bm, vector |-> vec]
           score == [i \in IdsOf(found) |-> RRF(found, i)]
<1>1. IdsOf(found) = ToSet(bm) \union ToSet(vec)
  BY DEF IdsOf
<1>2. IsFiniteSet(ToSet(bm) \union ToSet(vec))
  BY SeqRange, FS_Union
<1>3. DOMAIN score = ToSet(bm) \union ToSet(vec)
  BY <1>1
<1> HIDE DEF score
<1>4. s \in SortAndCut(score, n)
  BY DEF Fused, score
<1>5. PICK t \in SetToSeqs(DOMAIN score) : s = Cut(t, n)
  BY <1>4 DEF SortAndCut, SortedBy
<1> QED BY <1>2, <1>3, <1>5, CutPage

\* Reranking orders the candidates and cuts them.
LEMMA RerankedPage ==
    ASSUME NEW S, cands \in Seq(S), IsInjective(cands), NEW score, NEW n \in Nat,
           NEW s \in Reranked(cands, score, n)
    PROVE  IsPage(s, ToSet(cands), n)
<1>1. PICK order \in SetToSeqs(DOMAIN cands) : s = Cut(InOrder(cands, order), n)
  BY DEF Reranked, SortedBy
<1>2. DOMAIN cands = 1..Len(cands) /\ Len(cands) \in Nat /\ IsFiniteSet(DOMAIN cands)
  BY FS_Interval
<1>3. /\ order \in Seq(DOMAIN cands) /\ IsInjective(order)
      /\ ToSet(order) = DOMAIN cands
  BY <1>1, <1>2, Enumeration
<1>4. /\ InOrder(cands, order) \in Seq(ToSet(cands))
      /\ DOMAIN InOrder(cands, order) = DOMAIN order
      /\ \A p \in DOMAIN order : InOrder(cands, order)[p] = cands[order[p]]
  <2>1. DOMAIN order = 1..Len(order) /\ Len(order) \in Nat
    BY <1>3
  <2>2. \A p \in DOMAIN order : order[p] \in DOMAIN cands
    BY <1>3
  <2> QED BY <2>1, <2>2 DEF InOrder, ToSet
<1>5. IsInjective(InOrder(cands, order))
  BY <1>3, <1>4 DEF IsInjective
<1>6. ToSet(InOrder(cands, order)) = ToSet(cands)
  BY <1>3, <1>4 DEF ToSet
<1>7. IsPage(Cut(InOrder(cands, order), n), ToSet(cands), n)
  BY <1>4, <1>5, <1>6, CutRows DEF IsPage
<1> QED BY <1>1, <1>7

-----------------------------------------------------------------------------
(* The order of a page: scores and ids determine it, and nothing else.     *)

\* What SortAndCut has cut, and that it is in order.
LEMMA SortedRows ==
    ASSUME NEW S, IsFiniteSet(S), S \subseteq Nat, NEW score \in [S -> Int],
           NEW n \in Nat, NEW s \in SortAndCut(score, n)
    PROVE  \E t \in Seq(S) :
              /\ IsInjective(t) /\ ToSet(t) = S /\ s = Cut(t, n)
              /\ \A p, q \in DOMAIN t : p < q => Before(score, t[p], t[q])
<1>1. DOMAIN score = S
  OBVIOUS
<1>2. PICK t \in SetToSeqs(S) :
          /\ s = Cut(t, n)
          /\ \A p, q \in DOMAIN t : p < q => <<t[q], t[p]>> \notin ByScore(score)
  BY <1>1 DEF SortAndCut, SortedBy
<1>3. t \in Seq(S) /\ IsInjective(t) /\ ToSet(t) = S
  BY Enumeration
<1>4. ASSUME NEW p \in DOMAIN t, NEW q \in DOMAIN t, p < q
      PROVE  Before(score, t[p], t[q])
  <2>0. p \in Int /\ q \in Int /\ p # q
    BY <1>3, <1>4
  <2>1. t[p] \in S /\ t[q] \in S /\ t[p] # t[q]
    BY <1>3, <2>0 DEF IsInjective
  <2>2. <<t[q], t[p]>> \notin ByScore(score)
    BY <1>2, <1>4
  <2>3. ~Before(score, t[q], t[p])
    BY <1>1, <2>1, <2>2 DEF ByScore
  <2>4. t[p] \in Nat /\ t[q] \in Nat /\ score[t[p]] \in Int /\ score[t[q]] \in Int
    BY <2>1
  <2> QED BY <2>1, <2>3, <2>4 DEF Before
<1> QED BY <1>2, <1>3, <1>4

LEMMA BeforeStrict ==
    ASSUME NEW score, NEW i \in Int, NEW j \in Int, score[i] \in Int, score[j] \in Int,
           Before(score, i, j)
    PROVE  i # j /\ ~Before(score, j, i)
BY DEF Before

\* None of S is left out of s, nor below one, that it stands before.
BestKept(S, score, s) ==
    \A i \in S, q \in DOMAIN s : Before(score, i, s[q]) =>
        \E p \in DOMAIN s : p < q /\ s[p] = i

\* FuseRRF never lists a hit below, nor leaves it out in favour of, one that it
\* should stand before: by a higher sum or, for equal sums, a smaller id.
THEOREM BestFirst ==
    ASSUME NEW S, IsFiniteSet(S), S \subseteq Nat, NEW score \in [S -> Int],
           NEW n \in Nat, NEW s \in SortAndCut(score, n)
    PROVE  BestKept(S, score, s)
<1>0. SUFFICES ASSUME NEW i \in S, NEW q \in DOMAIN s, Before(score, i, s[q])
               PROVE  \E p \in DOMAIN s : p < q /\ s[p] = i
  BY DEF BestKept
<1>1. PICK t \in Seq(S) :
          /\ IsInjective(t) /\ ToSet(t) = S /\ s = Cut(t, n)
          /\ \A p, r \in DOMAIN t : p < r => Before(score, t[p], t[r])
  BY SortedRows
<1>2. /\ Len(s) \in Nat /\ Len(s) <= Len(t) /\ DOMAIN s = 1..Len(s)
      /\ \A p \in DOMAIN s : p \in DOMAIN t /\ s[p] = t[p]
      /\ DOMAIN t = 1..Len(t) /\ Len(t) \in Nat
  BY <1>1, CutPrefix
<1>3. PICK p \in DOMAIN t : t[p] = i
  BY <1>1 DEF ToSet
<1>4. q \in DOMAIN t /\ t[q] = s[q] /\ t[q] \in S
  BY <1>1, <1>2
<1>5. i \in Nat /\ t[q] \in Nat /\ score[i] \in Int /\ score[t[q]] \in Int
  BY <1>4
<1>6. p # q /\ ~(q < p)
  <2>1. Before(score, i, t[q])
    BY <1>0, <1>4
  <2>2. i # t[q] /\ ~Before(score, t[q], i)
    BY <1>5, <2>1, BeforeStrict
  <2>3. q < p => Before(score, t[q], t[p])
    BY <1>1, <1>3, <1>4
  <2> QED BY <1>3, <2>2, <2>3
<1>7. p < q /\ p \in DOMAIN s
  BY <1>2, <1>6
<1> QED BY <1>2, <1>3, <1>7

\* The sums determine the page: no order in which Go walks the map of sums, and
\* none in which the sort meets them, makes another.
THEOREM OnePage ==
    ASSUME NEW S, IsFiniteSet(S), S \subseteq Nat, NEW score \in [S -> Int],
           NEW n \in Nat, NEW s \in SortAndCut(score, n), NEW u \in SortAndCut(score, n)
    PROVE  s = u
<1>1. PICK t \in Seq(S) :
          /\ IsInjective(t) /\ ToSet(t) = S /\ s = Cut(t, n)
          /\ \A p, q \in DOMAIN t : p < q => Before(score, t[p], t[q])
  BY SortedRows
<1>2. PICK v \in Seq(S) :
          /\ IsInjective(v) /\ ToSet(v) = S /\ u = Cut(v, n)
          /\ \A p, q \in DOMAIN v : p < q => Before(score, v[p], v[q])
  BY SortedRows
<1>3. Len(t) <= Len(v) /\ Len(v) <= Len(t)
  BY <1>1, <1>2, FewerRows
<1>4. /\ Len(t) \in Nat /\ Len(v) = Len(t)
      /\ DOMAIN t = 1..Len(t) /\ DOMAIN v = 1..Len(t)
  BY <1>3
<1> DEFINE Differ == {p \in 1..Len(t) : t[p] # v[p]}
<1>5. ASSUME Differ # {} PROVE FALSE
  <2>1. PICK p \in Differ : \A q \in Differ : p <= q
    <3>1. Differ \subseteq Nat
      OBVIOUS
    <3> HIDE DEF Differ
    <3> QED BY <1>5, <3>1, LeastNatural
  <2>2. p \in 1..Len(t) /\ t[p] # v[p] /\ t[p] \in S /\ v[p] \in S
    BY <1>1, <1>2, <1>4
  <2>3. PICK q \in 1..Len(t) : v[q] = t[p]
    BY <1>2, <1>4, <2>2 DEF ToSet
  <2>4. PICK r \in 1..Len(t) : t[r] = v[p]
    BY <1>1, <1>4, <2>2 DEF ToSet
  <2>5. p < q
    <3>1. ASSUME q < p PROVE FALSE
      <4>1. q \notin Differ
        BY <2>1, <2>2, <2>3, <3>1
      <4>2. t[q] = t[p]
        BY <2>3, <4>1
      <4> QED BY <1>1, <1>4, <2>2, <2>3, <3>1, <4>2 DEF IsInjective
    <3> QED BY <2>2, <2>3, <3>1
  <2>6. p < r
    <3>1. ASSUME r < p PROVE FALSE
      <4>1. r \notin Differ
        BY <2>1, <2>2, <2>4, <3>1
      <4>2. v[r] = v[p]
        BY <2>4, <4>1
      <4> QED BY <1>2, <1>4, <2>2, <2>4, <3>1, <4>2 DEF IsInjective
    <3> QED BY <2>2, <2>4, <3>1
  <2>7. Before(score, v[p], t[p])
    BY <1>2, <1>4, <2>2, <2>3, <2>5
  <2>8. Before(score, t[p], v[p])
    BY <1>1, <1>4, <2>2, <2>4, <2>6
  <2>9. t[p] \in Nat /\ v[p] \in Nat /\ score[t[p]] \in Int /\ score[v[p]] \in Int
    BY <2>2
  <2> QED BY <2>7, <2>8, <2>9 DEF Before
<1>6. t = v
  <2>1. \A p \in 1..Len(t) : t[p] = v[p]
    BY <1>5
  <2> HIDE DEF Differ
  <2> QED BY <1>4, <2>1
<1> QED BY <1>1, <1>2, <1>6

-----------------------------------------------------------------------------
(* What a list adds to a score.                                            *)

ShareOf(p) == Scale \div (RRFK + p)

\* A rank is worth something, and more than every rank below it.
LEMMA ShareFalls ==
    /\ \A p \in 1..MaxList : ShareOf(p) \in Nat \ {0}
    /\ \A p, q \in 1..MaxList : p < q => ShareOf(q) < ShareOf(p)
<1> USE RankFusionAssumption
<1> DEFINE D == {RRFK + i : i \in 1..MaxList}
           f == [i \in 1..MaxList |-> RRFK + i]
<1>1. IsFiniteSet(1..MaxList) /\ f \in Surjection(1..MaxList, D)
  BY FS_Interval DEF Surjection
<1>2. D \subseteq Nat \ {0}
  OBVIOUS
<1>3. \A p \in 1..MaxList : RRFK + p \in D
  OBVIOUS
<1>4. Scale = ProductSet(D)
  BY DEF Scale
<1> HIDE DEF D, f
<1>5. IsFiniteSet(D)
  BY <1>1, FS_Surjection
<1>6. \A x \in D : \E j \in Nat \ {0} : Scale = x * j
  BY <1>2, <1>4, <1>5, ProductDivides
<1>7. ASSUME NEW p \in 1..MaxList
      PROVE  ShareOf(p) \in Nat \ {0} /\ Scale = (RRFK + p) * ShareOf(p)
  <2>1. PICK j \in Nat \ {0} : Scale = (RRFK + p) * j
    BY <1>3, <1>6
  <2>2. PICK a \in Nat \ {0} : a = RRFK + p
    OBVIOUS
  <2>3. (a * j) \div a = j
    OBVIOUS
  <2> QED BY <2>1, <2>2, <2>3 DEF ShareOf
<1>8. ASSUME NEW p \in 1..MaxList, NEW q \in 1..MaxList, p < q
      PROVE  ShareOf(q) < ShareOf(p)
  <2>1. PICK a \in Nat \ {0}, b \in Nat \ {0} : a = RRFK + p /\ b = RRFK + q /\ a < b
    BY <1>8
  <2>2. PICK x \in Nat \ {0}, y \in Nat \ {0} :
            x = ShareOf(p) /\ y = ShareOf(q) /\ a * x = b * y
    BY <1>7, <2>1
  <2>3. ASSUME x <= y PROVE FALSE
    <3>1. a * x <= a * y /\ a * y < b * y
      BY <2>1, <2>3
    <3> QED BY <2>2, <3>1
  <2> QED BY <2>2, <2>3
<1> QED BY <1>7, <1>8

LEMMA ListFacts ==
    ASSUME NEW list \in RankedLists
    PROVE  /\ list \in Seq(Id) /\ IsInjective(list) /\ DOMAIN list = 1..Len(list)
           /\ DOMAIN list \subseteq 1..MaxList /\ IsFiniteSet(DOMAIN list)
           /\ ToSet(list) \subseteq Id /\ IsFiniteSet(ToSet(list))
<1>1. PICK m \in 0..MaxList : list \in [1..m -> Id]
  BY DEF RankedLists, SeqOf
<1>2. MaxList \in Nat /\ m \in Nat /\ m <= MaxList
  BY <1>1, RankFusionAssumption
<1>3. list \in Seq(Id) /\ Len(list) = m /\ DOMAIN list = 1..m
  BY <1>1, <1>2
<1>4. 1..m \subseteq 1..MaxList /\ IsFiniteSet(1..m)
  BY <1>2, FS_Interval
<1>5. IsInjective(list)
  BY DEF RankedLists
<1> QED BY <1>3, <1>4, <1>5, SeqRange

\* A list gives a hit the share of its rank, and what is no hit nothing.
LEMMA ContributionIs ==
    ASSUME NEW list \in RankedLists, NEW i
    PROVE  /\ Contribution(list, i) \in Nat
           /\ i \notin ToSet(list) => Contribution(list, i) = 0
           /\ \A p \in DOMAIN list : list[p] = i => Contribution(list, i) = ShareOf(p)
<1> DEFINE w == [p \in DOMAIN list |-> Scale \div (RRFK + p)]
           P == {p \in DOMAIN list : list[p] = i}
<1>1. Contribution(list, i) = SumFunctionOnSet(w, P)
  BY DEF Contribution
<1>2. \A p \in DOMAIN list : w[p] = ShareOf(p)
  BY DEF ShareOf
<1>3. i \notin ToSet(list) => P = {}
  BY DEF ToSet
<1>4. ASSUME NEW p \in DOMAIN list, list[p] = i PROVE P = {p}
  BY <1>4, ListFacts DEF IsInjective
<1>5. \A p \in DOMAIN list : w[p] \in Nat
  BY <1>2, ListFacts, ShareFalls
<1> HIDE DEF w, P
<1>6. ASSUME NEW p \in DOMAIN list, list[p] = i PROVE Contribution(list, i) = ShareOf(p)
  <2>1. P = {p} /\ IsFiniteSet({p}) /\ {p} \ {p} = {}
    BY <1>4, <1>6, FS_Singleton
  <2>2. \A x \in {p} : w[x] \in Int
    BY <1>5
  <2>3. SumFunctionOnSet(w, {p}) = w[p] + SumFunctionOnSet(w, {p} \ {p})
    BY <2>1, <2>2, SumRemove
  <2>4. SumFunctionOnSet(w, {p}) = w[p] + 0
    BY <2>1, <2>3, SumEmpty
  <2> QED BY <1>1, <1>2, <1>5, <2>1, <2>4
<1>7. ASSUME i \notin ToSet(list) PROVE Contribution(list, i) = 0
  BY <1>1, <1>3, <1>7, SumEmpty
<1>8. Contribution(list, i) \in Nat
  <2>1. CASE i \in ToSet(list)
    <3>1. PICK p \in DOMAIN list : list[p] = i
      BY <2>1 DEF ToSet
    <3> QED BY <1>2, <1>5, <1>6, <3>1
  <2> QED BY <1>7, <2>1
<1> QED BY <1>6, <1>7, <1>8

-----------------------------------------------------------------------------
(* The running scores of FuseRRF.                                          *)

\* What the lists of the set T give to i.
SumOver(ls, T, i) == SumFunctionOnSet([s \in Signal |-> Contribution(ls[s], i)], T)

SeenIn(ls, T) == UNION {ToSet(ls[s]) : s \in T}

LEMMA SumOverLists ==
    ASSUME NEW ls \in [Signal -> RankedLists], NEW T \in SUBSET Signal, NEW i
    PROVE  /\ SumOver(ls, T, i) \in Int
           /\ i \notin SeenIn(ls, T) => SumOver(ls, T, i) = 0
           /\ \A s \in Signal \ T :
                 SumOver(ls, T \union {s}, i) = SumOver(ls, T, i) + Contribution(ls[s], i)
<1> DEFINE w == [s \in Signal |-> Contribution(ls[s], i)]
<1>1. \A s \in Signal : w[s] = Contribution(ls[s], i)
  OBVIOUS
<1>2. \A s \in Signal : ls[s] \in RankedLists
  OBVIOUS
<1>3. \A U : SumOver(ls, U, i) = SumFunctionOnSet(w, U)
  BY DEF SumOver
<1> HIDE DEF w
<1>4. \A s \in Signal : w[s] \in Int
  BY <1>1, <1>2, ContributionIs
<1>5. IsFiniteSet(Signal) /\ IsFiniteSet(T)
  BY RankFusionAssumption, FS_Subset
<1>6. SumOver(ls, T, i) \in Int
  BY <1>3, <1>4, <1>5, SumInt
<1>7. ASSUME i \notin SeenIn(ls, T) PROVE SumOver(ls, T, i) = 0
  <2>1. \A s \in T : i \notin ToSet(ls[s])
    BY <1>7 DEF SeenIn
  <2>2. \A s \in T : w[s] = 0
    BY <1>1, <1>2, <2>1, ContributionIs
  <2> QED BY <1>3, <1>5, <2>2, SumZero
<1>8. ASSUME NEW s \in Signal \ T
      PROVE  SumOver(ls, T \union {s}, i) = SumOver(ls, T, i) + Contribution(ls[s], i)
  <2> DEFINE U == T \union {s}
  <2>1. U \subseteq Signal /\ s \in U /\ U \ {s} = T
    BY <1>8
  <2> HIDE DEF U
  <2>2. IsFiniteSet(U)
    BY <1>5, <2>1, FS_Subset
  <2>3. SumFunctionOnSet(w, U) = w[s] + SumFunctionOnSet(w, U \ {s})
    BY <1>4, <2>1, <2>2, SumRemove
  <2>4. SumOver(ls, U, i) = Contribution(ls[s], i) + SumOver(ls, T, i)
    BY <1>1, <1>3, <2>1, <2>3
  <2>5. Contribution(ls[s], i) \in Int
    BY <1>1, <1>4
  <2>6. SumOver(ls, U, i) = SumOver(ls, T, i) + Contribution(ls[s], i)
    BY <1>6, <2>4, <2>5
  <2> QED BY <2>6 DEF U
<1> QED BY <1>6, <1>7, <1>8

\* At the end they are the scores of reciprocal rank fusion.
LEMMA SumIsRRF ==
    ASSUME NEW ls \in [Signal -> RankedLists], NEW i
    PROVE  RRF(ls, i) = SumOver(ls, Signal, i)
<1>1. DOMAIN ls = Signal
  OBVIOUS
<1> QED BY <1>1 DEF RRF, SumOver, SumFunction

RunningSums(ls, T, sc) ==
    /\ sc \in [SeenIn(ls, T) -> Int]
    /\ \A i \in SeenIn(ls, T) : sc[i] = SumOver(ls, T, i)

\* The pass of FuseRRF over one list.
Added(ls, s, sc) ==
    [i \in DOMAIN sc \union ToSet(ls[s]) |->
       (IF i \in DOMAIN sc THEN sc[i] ELSE 0) + Contribution(ls[s], i)]

\* One list more, whichever it is, and the running scores are sums again.
LEMMA OneListMore ==
    ASSUME NEW ls \in [Signal -> RankedLists], NEW T \in SUBSET Signal,
           NEW s \in Signal \ T, NEW sc, RunningSums(ls, T, sc)
    PROVE  RunningSums(ls, T \union {s}, Added(ls, s, sc))
<1> DEFINE U == T \union {s}
           new == Added(ls, s, sc)
<1>1. DOMAIN sc = SeenIn(ls, T)
  BY DEF RunningSums
<1>2. SeenIn(ls, U) = SeenIn(ls, T) \union ToSet(ls[s])
  BY DEF SeenIn
<1>3. DOMAIN new = SeenIn(ls, U)
  BY <1>1, <1>2 DEF Added
<1>4. ASSUME NEW i \in SeenIn(ls, U)
      PROVE  new[i] = SumOver(ls, U, i) /\ new[i] \in Int
  <2>1. new[i] = (IF i \in SeenIn(ls, T) THEN sc[i] ELSE 0) + Contribution(ls[s], i)
    BY <1>1, <1>3 DEF Added
  <2>2. (IF i \in SeenIn(ls, T) THEN sc[i] ELSE 0) = SumOver(ls, T, i)
    BY SumOverLists DEF RunningSums
  <2>3. ls[s] \in RankedLists
    OBVIOUS
  <2>4. SumOver(ls, T, i) \in Int /\ Contribution(ls[s], i) \in Nat
    BY <2>3, SumOverLists, ContributionIs
  <2>5. SumOver(ls, U, i) = SumOver(ls, T, i) + Contribution(ls[s], i)
    BY SumOverLists
  <2> HIDE DEF new, U
  <2> QED BY <2>1, <2>2, <2>4, <2>5
<1>5. new \in [SeenIn(ls, U) -> Int]
  <2>1. new = [i \in SeenIn(ls, U) |-> new[i]]
    BY <1>3 DEF Added
  <2> HIDE DEF new, U
  <2> QED BY <1>4, <2>1
<1>6. RunningSums(ls, U, new)
  <2> HIDE DEF new, U
  <2> QED BY <1>4, <1>5 DEF RunningSums
<1> QED BY <1>6

-----------------------------------------------------------------------------
(* The invariant of the fusion and of the reranker after it.               *)

Scored(ls) == [i \in SeenIn(ls, Signal) |-> RRF(ls, i)]

ScoredSnippets(cs, sn) == [i \in ToSet(cs) |-> HeuristicScore(sn[i])]

FTypeOK ==
    /\ lists \in [Signal -> RankedLists] /\ topN \in TopN /\ todo \subseteq Signal
    /\ phase \in {"fuse", "fused", "rerank", "reranked"}
    /\ phase # "fuse" => todo = {}

Summing   == phase = "fuse" => RunningSums(lists, Signal \ todo, scores)
Fusing    == phase = "fused" => out \in SortAndCut(Scored(lists), topN)
Handed    == phase \in {"rerank", "reranked"} =>
                /\ candidates \in Seq(Id) /\ IsInjective(candidates)
                /\ snippet \in [ToSet(candidates) -> Snippets]
Reranking == phase = "reranked" =>
                out \in Reranked(candidates, ScoredSnippets(candidates, snippet), topN)

FInv == FTypeOK /\ Summing /\ Fusing /\ Handed /\ Reranking

LEMMA ScoredInt ==
    ASSUME NEW ls \in [Signal -> RankedLists]
    PROVE  /\ IsFiniteSet(SeenIn(ls, Signal)) /\ SeenIn(ls, Signal) \subseteq Id
           /\ SeenIn(ls, Signal) \subseteq Nat
           /\ Scored(ls) \in [SeenIn(ls, Signal) -> Int]
           /\ \A i : RRF(ls, i) \in Int
<1> DEFINE R == {ToSet(ls[s]) : s \in Signal}
           f == [s \in Signal |-> ToSet(ls[s])]
<1>1. \A s \in Signal : ls[s] \in RankedLists
  OBVIOUS
<1>2. IsFiniteSet(Signal) /\ f \in Surjection(Signal, R)
  BY RankFusionAssumption DEF Surjection
<1>3. SeenIn(ls, Signal) = UNION R
  BY DEF SeenIn
<1>4. \A r \in R : IsFiniteSet(r) /\ r \subseteq Id
  BY <1>1, ListFacts
<1> HIDE DEF R, f
<1>5. IsFiniteSet(R)
  BY <1>2, FS_Surjection
<1>6. IsFiniteSet(UNION R)
  BY <1>4, <1>5, FS_UNION
<1>7. UNION R \subseteq Id /\ UNION R \subseteq Nat
  BY <1>4, RankFusionAssumption
<1>8. \A i : RRF(ls, i) \in Int
  <2> TAKE i
  <2>1. SumOver(ls, Signal, i) \in Int
    BY SumOverLists
  <2> QED BY <2>1, SumIsRRF
<1>9. Scored(ls) \in [SeenIn(ls, Signal) -> Int]
  BY <1>8 DEF Scored
<1> QED BY <1>3, <1>6, <1>7, <1>8, <1>9

\* When no list is left the running scores are the scores.
LEMMA SumsAreScores ==
    ASSUME NEW ls \in [Signal -> RankedLists], NEW sc, RunningSums(ls, Signal, sc)
    PROVE  sc = Scored(ls)
<1>1. sc \in [SeenIn(ls, Signal) -> Int]
  BY DEF RunningSums
<1>2. \A i \in SeenIn(ls, Signal) : sc[i] = RRF(ls, i)
  BY SumIsRRF DEF RunningSums
<1> QED BY <1>1, <1>2 DEF Scored

LEMMA InitFInv == FInit => FInv
<1> SUFFICES ASSUME FInit PROVE FInv
  OBVIOUS
<1>1. FTypeOK
  BY DEF FInit, FTypeOK
<1>2. Summing
  <2>1. scores = <<>> /\ Signal \ todo = {}
    BY DEF FInit
  <2>2. SeenIn(lists, {}) = {}
    BY DEF SeenIn
  <2>3. scores \in [{} -> Int]
    BY <2>1
  <2> QED BY <2>1, <2>2, <2>3 DEF Summing, RunningSums
<1>3. Fusing /\ Handed /\ Reranking
  BY DEF FInit, Fusing, Handed, Reranking
<1> QED BY <1>1, <1>2, <1>3 DEF FInv

LEMMA AddListStep ==
    ASSUME FInv, NEW s \in Signal, AddList(s) PROVE FInv'
<1>1. /\ UNCHANGED <<lists, topN, out, phase, candidates, snippet>>
      /\ s \in todo /\ todo' = todo \ {s}
      /\ scores' = Added(lists, s, scores)
  BY DEF AddList, Added
<1>2. FTypeOK /\ FTypeOK' /\ phase = "fuse"
  BY <1>1 DEF FInv, FTypeOK
<1>3. /\ Signal \ todo \in SUBSET Signal /\ s \in Signal \ (Signal \ todo)
      /\ Signal \ todo' = (Signal \ todo) \union {s}
      /\ lists \in [Signal -> RankedLists]
  BY <1>1, <1>2 DEF FTypeOK
<1>4. RunningSums(lists, Signal \ todo, scores)
  BY <1>2 DEF FInv, Summing
<1>5. RunningSums(lists, Signal \ todo', scores')
  <2> DEFINE T == Signal \ todo
  <2>1. T \in SUBSET Signal /\ s \in Signal \ T /\ Signal \ todo' = T \union {s}
    BY <1>3
  <2>2. RunningSums(lists, T, scores)
    BY <1>4
  <2> HIDE DEF T
  <2>3. RunningSums(lists, T \union {s}, Added(lists, s, scores))
    BY <1>3, <2>1, <2>2, OneListMore
  <2> QED BY <1>1, <2>1, <2>3
<1>6. Summing'
  <2>1. RunningSums(lists, Signal \ todo, scores)'
    BY <1>1, <1>5 DEF RunningSums, SeenIn, SumOver
  <2> QED BY <2>1 DEF Summing
<1>7. Fusing' /\ Handed' /\ Reranking'
  BY <1>1, <1>2 DEF Fusing, Handed, Reranking
<1> QED BY <1>2, <1>6, <1>7 DEF FInv

LEMMA FinishStep == FInv /\ Finish => FInv'
<1> SUFFICES ASSUME FInv, Finish PROVE FInv'
  OBVIOUS
<1>1. /\ UNCHANGED <<lists, topN, todo, scores, candidates, snippet>>
      /\ todo = {} /\ phase = "fuse" /\ phase' = "fused"
      /\ out' \in SortAndCut(scores, topN)
  BY DEF Finish
<1>2. FTypeOK /\ FTypeOK'
  BY <1>1 DEF FInv, FTypeOK
<1>3. RunningSums(lists, Signal, scores) /\ lists \in [Signal -> RankedLists]
  <2>1. Signal \ todo = Signal
    BY <1>1
  <2> QED BY <1>1, <1>2, <2>1 DEF FInv, Summing, FTypeOK
<1>4. scores = Scored(lists)
  BY <1>3, SumsAreScores
<1>5. Fusing'
  <2>1. out' \in SortAndCut(Scored(lists), topN)
    BY <1>1, <1>4
  <2>2. Scored(lists)' = Scored(lists)
    BY <1>1 DEF Scored, SeenIn
  <2>3. SortAndCut(Scored(lists), topN)' = SortAndCut(Scored(lists), topN)
    BY <1>1, <2>2
  <2> QED BY <2>1, <2>3 DEF Fusing
<1>6. Summing' /\ Handed' /\ Reranking'
  BY <1>1 DEF Summing, Handed, Reranking
<1> QED BY <1>2, <1>5, <1>6 DEF FInv

\* The fused page is a page of distinct ids.
LEMMA FusedIds ==
    ASSUME NEW ls \in [Signal -> RankedLists], NEW n \in Nat,
           NEW s \in SortAndCut(Scored(ls), n)
    PROVE  s \in Seq(Id) /\ IsInjective(s)
<1> DEFINE S == SeenIn(ls, Signal)
<1>1. IsFiniteSet(S) /\ S \subseteq Id /\ S \subseteq Nat /\ Scored(ls) \in [S -> Int]
  BY ScoredInt
<1> HIDE DEF S
<1>2. PICK t \in Seq(S) : IsInjective(t) /\ s = Cut(t, n)
  BY <1>1, SortedRows
<1>3. s \in Seq(S) /\ IsInjective(s)
  BY <1>2, CutRows
<1> QED BY <1>1, <1>3, WiderSeq

LEMMA HandOverStep == FInv /\ HandOver => FInv'
<1> SUFFICES ASSUME FInv, HandOver PROVE FInv'
  OBVIOUS
<1>1. /\ phase = "fused" /\ phase' = "rerank" /\ candidates' = out
      /\ snippet' \in [ToSet(out) -> Snippets] /\ topN' \in TopN
      /\ lists' = [s \in Signal |-> <<>>] /\ todo' = todo
  BY DEF HandOver
<1>2. FTypeOK /\ out \in SortAndCut(Scored(lists), topN)
  BY <1>1 DEF FInv, Fusing
<1>3. lists \in [Signal -> RankedLists] /\ topN \in Nat
  BY <1>2, RankFusionAssumption DEF FTypeOK
<1>4. out \in Seq(Id) /\ IsInjective(out)
  BY <1>2, <1>3, FusedIds
<1>5. FTypeOK'
  <2>1. <<>> \in RankedLists
    <3>1. 0 \in 0..MaxList /\ <<>> \in [1..0 -> Id]
      BY RankFusionAssumption
    <3>2. <<>> \in SeqOf(Id, MaxList)
      BY <3>1 DEF SeqOf
    <3> QED BY <3>2 DEF RankedLists, IsInjective
  <2>2. lists' \in [Signal -> RankedLists]
    BY <1>1, <2>1
  <2> QED BY <1>1, <1>2, <2>2 DEF FTypeOK
<1>6. Handed'
  BY <1>1, <1>4 DEF Handed
<1>7. Summing' /\ Fusing' /\ Reranking'
  BY <1>1 DEF Summing, Fusing, Reranking
<1> QED BY <1>5, <1>6, <1>7 DEF FInv

LEMMA HeuristicRerankStep == FInv /\ HeuristicRerank => FInv'
<1> SUFFICES ASSUME FInv, HeuristicRerank PROVE FInv'
  OBVIOUS
<1>1. /\ phase = "rerank" /\ phase' = "reranked"
      /\ UNCHANGED <<lists, topN, todo, scores, candidates, snippet>>
      /\ out' \in Reranked(candidates, ScoredSnippets(candidates, snippet), topN)
  BY DEF HeuristicRerank, ScoredSnippets
<1>2. FTypeOK' /\ Handed'
  BY <1>1 DEF FInv, FTypeOK, Handed
<1>3. Reranking'
  <2>1. ScoredSnippets(candidates, snippet)' = ScoredSnippets(candidates, snippet)
    BY <1>1
  <2>2. Reranked(candidates, ScoredSnippets(candidates, snippet), topN)'
           = Reranked(candidates, ScoredSnippets(candidates, snippet), topN)
    BY <1>1, <2>1
  <2> QED BY <1>1, <2>2 DEF Reranking
<1>4. Summing' /\ Fusing'
  BY <1>1 DEF Summing, Fusing
<1> QED BY <1>2, <1>3, <1>4 DEF FInv

LEMMA NextFInv == FInv /\ [FNext]_fvars => FInv'
<1> SUFFICES ASSUME FInv, [FNext]_fvars PROVE FInv'
  OBVIOUS
<1>1. CASE UNCHANGED fvars
  <2>1. UNCHANGED <<lists, topN, todo, scores, out, phase, candidates, snippet>>
    BY <1>1 DEF fvars
  <2>2. FTypeOK' /\ Summing' /\ Handed'
    BY <2>1 DEF FInv, FTypeOK, Summing, Handed, RunningSums, SeenIn, SumOver
  <2>3. Fusing' /\ Reranking'
    BY <2>1 DEF FInv, Fusing, Reranking, Scored, ScoredSnippets, SeenIn
  <2> QED BY <2>2, <2>3 DEF FInv
<1>2. CASE \E signal \in Signal : AddList(signal)
  BY <1>2, AddListStep
<1> QED BY <1>1, <1>2, FinishStep, HandOverStep, HeuristicRerankStep DEF FNext

\* The running scores are sums over the lists walked so far, the page is the
\* sorted and cut sums, and the reranked list that of the scored snippets.
THEOREM FusionInvariant == FSpec => []FInv
BY InitFInv, NextFInv, PTL DEF FSpec

\* A page has as many rows as there are, up to its limit.
LEMMA CutLength ==
    ASSUME NEW S, IsFiniteSet(S), NEW t \in Seq(S), IsInjective(t), ToSet(t) = S, NEW n \in Nat
    PROVE  Len(Cut(t, n)) = IF Cardinality(S) < n THEN Cardinality(S) ELSE n
<1> DEFINE m == IF Len(t) < n THEN Len(t) ELSE n
<1>1. m \in Nat /\ m <= Len(t) /\ Len(t) \in Nat
  OBVIOUS
<1>2. Cut(t, n) = SubSeq(t, 1, m)
  BY DEF Cut
<1>3. Cardinality(S) = Len(t)
  BY RowCount
<1> HIDE DEF m
<1>4. Len(SubSeq(t, 1, m)) = m
  BY <1>1
<1> QED BY <1>2, <1>3, <1>4 DEF m

\* A hit that stands before another is above it on the page.
LEMMA BeforeIsAbove ==
    ASSUME FInv, phase = "fused", NEW i \in AllHits, NEW j \in AllHits,
           Before(Scored(lists), i, j)
    PROVE  Above(i, j)
<1>1. lists \in [Signal -> RankedLists] /\ topN \in Nat
  BY RankFusionAssumption DEF FInv, FTypeOK
<1>2. out \in SortAndCut(Scored(lists), topN)
  BY DEF FInv, Fusing
<1>3. AllHits = SeenIn(lists, Signal)
  BY DEF AllHits, HitsOf, SeenIn
<1>4. /\ IsFiniteSet(AllHits) /\ AllHits \subseteq Nat
      /\ Scored(lists) \in [AllHits -> Int] /\ out \in Seq(Id)
  BY <1>1, <1>2, <1>3, ScoredInt, FusedIds
<1>5. BestKept(AllHits, Scored(lists), out)
  <2> DEFINE S == AllHits
             score == Scored(lists)
  <2>1. IsFiniteSet(S) /\ S \subseteq Nat /\ score \in [S -> Int]
    BY <1>4
  <2>2. out \in SortAndCut(score, topN)
    BY <1>2
  <2> HIDE DEF S, score
  <2>3. BestKept(S, score, out)
    BY <1>1, <2>1, <2>2, BestFirst
  <2> QED BY <2>3 DEF S, score
<1>6. ASSUME Contains(out, j)
      PROVE  \E p, q \in DOMAIN out : out[p] = i /\ out[q] = j /\ p < q
  <2>1. PICK q \in DOMAIN out : out[q] = j
    BY <1>4, <1>6 DEF Contains
  <2>2. \E p \in DOMAIN out : p < q /\ out[p] = i
    BY <1>5, <2>1 DEF BestKept
  <2> QED BY <2>1, <2>2
<1> QED BY <1>6 DEF Above

\* However Go walks the map of lists, the page is the one that the sums of the
\* reciprocal ranks and the ids determine.
THEOREM FusionOrder == FSpec => []OrderIndependent
<1>1. FInv => OrderIndependent
  <2> SUFFICES ASSUME FInv, phase = "fused" PROVE OrderIndependent
    BY DEF OrderIndependent
  <2> DEFINE score == [i \in AllHits |-> RRF(lists, i)]
  <2>1. lists \in [Signal -> RankedLists] /\ topN \in Nat
    BY RankFusionAssumption DEF FInv, FTypeOK
  <2>2. AllHits = SeenIn(lists, Signal)
    BY DEF AllHits, HitsOf, SeenIn
  <2>3. score = Scored(lists)
    BY <2>2 DEF Scored
  <2>4. /\ IsFiniteSet(AllHits) /\ AllHits \subseteq Nat
        /\ Scored(lists) \in [AllHits -> Int]
    BY <2>1, <2>2, ScoredInt
  <2>5. out \in SortAndCut(Scored(lists), topN)
    BY DEF FInv, Fusing
  <2>6. PICK t \in Seq(AllHits) :
            IsInjective(t) /\ ToSet(t) = AllHits /\ out = Cut(t, topN)
    BY <2>1, <2>4, <2>5, SortedRows
  <2>7. IsInjective(out) /\ ToSet(out) \subseteq AllHits
    BY <2>1, <2>6, CutRows
  <2>8. Len(out) = IF Cardinality(AllHits) < topN THEN Cardinality(AllHits) ELSE topN
    BY <2>1, <2>4, <2>6, CutLength
  <2> HIDE DEF score
  <2>9. ASSUME NEW i \in AllHits, NEW j \in AllHits,
               score[i] > score[j] \/ (score[i] = score[j] /\ i < j)
        PROVE  Above(i, j)
    <3>1. Before(Scored(lists), i, j)
      BY <2>3, <2>9 DEF Before
    <3> QED BY <3>1, BeforeIsAbove
  <2> QED BY <2>7, <2>8, <2>9 DEF OrderIndependent, score
<1> QED BY <1>1, FusionInvariant, PTL

\* The loop over the lists comes to what HybridQuery takes for FuseRRF.
THEOREM LoopIsFused == FSpec => [](phase = "fused" => out \in Fused(lists, topN))
<1>1. FInv /\ phase = "fused" => out \in Fused(lists, topN)
  <2> SUFFICES ASSUME FInv, phase = "fused" PROVE out \in Fused(lists, topN)
    OBVIOUS
  <2>1. DOMAIN lists = Signal
    BY DEF FInv, FTypeOK
  <2>2. IdsOf(lists) = SeenIn(lists, Signal)
    BY <2>1 DEF IdsOf, SeenIn
  <2>3. Fused(lists, topN) = SortAndCut(Scored(lists), topN)
    BY <2>2 DEF Fused, Scored
  <2> QED BY <2>3 DEF FInv, Fusing
<1> QED BY <1>1, FusionInvariant, PTL

\* The lists give more to i than to j, which every list that has j has below i.
LEMMA ParetoScores ==
    ASSUME NEW ls \in [Signal -> RankedLists], NEW i, NEW j, NEW g \in Signal,
           j \in ToSet(ls[g]),
           \A s \in Signal : j \in ToSet(ls[s]) =>
               \E p, q \in DOMAIN ls[s] : ls[s][p] = i /\ ls[s][q] = j /\ p < q
    PROVE  RRF(ls, j) < RRF(ls, i)
<1> DEFINE v == [s \in Signal |-> Contribution(ls[s], j)]
           w == [s \in Signal |-> Contribution(ls[s], i)]
<1>1. ASSUME NEW s \in Signal
      PROVE  /\ v[s] \in Int /\ w[s] \in Int /\ v[s] <= w[s]
             /\ j \in ToSet(ls[s]) => v[s] < w[s]
  <2>1. ls[s] \in RankedLists /\ v[s] = Contribution(ls[s], j)
        /\ w[s] = Contribution(ls[s], i)
    OBVIOUS
  <2> HIDE DEF v, w
  <2>2. v[s] \in Nat /\ w[s] \in Nat /\ (j \notin ToSet(ls[s]) => v[s] = 0)
    BY <2>1, ContributionIs
  <2>3. ASSUME j \in ToSet(ls[s]) PROVE v[s] < w[s]
    <3>1. PICK p \in DOMAIN ls[s], q \in DOMAIN ls[s] :
              ls[s][p] = i /\ ls[s][q] = j /\ p < q
      BY <2>3
    <3>2. v[s] = ShareOf(q) /\ w[s] = ShareOf(p)
      BY <2>1, <3>1, ContributionIs
    <3>3. p \in 1..MaxList /\ q \in 1..MaxList
      BY <2>1, ListFacts
    <3> QED BY <3>1, <3>2, <3>3, ShareFalls
  <2> QED BY <2>2, <2>3
<1>2. RRF(ls, i) = SumFunctionOnSet(w, Signal) /\ RRF(ls, j) = SumFunctionOnSet(v, Signal)
  BY SumIsRRF DEF SumOver
<1> HIDE DEF v, w
<1>3. IsFiniteSet(Signal)
  BY RankFusionAssumption
<1>4. v[g] < w[g]
  BY <1>1
<1>5. SumFunctionOnSet(v, Signal) < SumFunctionOnSet(w, Signal)
  BY <1>1, <1>3, <1>4, SumLarger
<1> QED BY <1>2, <1>5

\* A hit that every list ranks above another is above it on the page.
THEOREM FusionPareto == FSpec => []ParetoOrder
<1>1. FInv => ParetoOrder
  <2> SUFFICES ASSUME FInv, phase = "fused", NEW i \in AllHits, NEW j \in AllHits, i # j,
                      \A s \in Signal : j \in HitsOf(s) =>
                          i \in HitsOf(s) /\ Rank(s, i) < Rank(s, j)
               PROVE  Above(i, j)
    BY DEF ParetoOrder
  <2>1. lists \in [Signal -> RankedLists]
    BY DEF FInv, FTypeOK
  <2>2. PICK g \in Signal : j \in ToSet(lists[g])
    BY DEF AllHits, HitsOf
  <2>3. ASSUME NEW s \in Signal, j \in ToSet(lists[s])
        PROVE  \E p, q \in DOMAIN lists[s] : lists[s][p] = i /\ lists[s][q] = j /\ p < q
    <3>1. i \in ToSet(lists[s]) /\ Rank(s, i) < Rank(s, j)
      BY <2>3 DEF HitsOf
    <3>2. Rank(s, i) \in DOMAIN lists[s] /\ lists[s][Rank(s, i)] = i
      BY <3>1 DEF Rank, ToSet
    <3>3. Rank(s, j) \in DOMAIN lists[s] /\ lists[s][Rank(s, j)] = j
      BY <2>3 DEF Rank, ToSet
    <3> QED BY <3>1, <3>2, <3>3
  <2>4. RRF(lists, j) < RRF(lists, i)
    BY <2>1, <2>2, <2>3, ParetoScores
  <2>5. Before(Scored(lists), i, j)
    <3>1. i \in SeenIn(lists, Signal) /\ j \in SeenIn(lists, Signal)
      BY DEF AllHits, HitsOf, SeenIn
    <3>2. Scored(lists)[i] = RRF(lists, i) /\ Scored(lists)[j] = RRF(lists, j)
      BY <3>1 DEF Scored
    <3>3. RRF(lists, i) \in Int /\ RRF(lists, j) \in Int
      BY <2>1, ScoredInt
    <3> QED BY <2>4, <3>2, <3>3 DEF Before
  <2> QED BY <2>5, BeforeIsAbove
<1> QED BY <1>1, FusionInvariant, PTL

-----------------------------------------------------------------------------
(* The score of a snippet.                                                 *)

PerWeight(n) == Weights \div Weight(n)

\* A longer snippet weighs as much or more, and its share is as small or smaller.
LEMMA WeightGrows ==
    /\ \A n \in 0..MaxWords : PerWeight(n) \in Nat \ {0}
    /\ \A n, m \in 0..MaxWords : n <= m => PerWeight(m) <= PerWeight(n)
<1> USE RankFusionAssumption
<1> DEFINE D == {Weight(n) : n \in 0..MaxWords}
           f == [n \in 0..MaxWords |-> Weight(n)]
<1>1. IsFiniteSet(0..MaxWords) /\ f \in Surjection(0..MaxWords, D)
  <2>1. IsFiniteSet(0..MaxWords)
    BY FS_Interval
  <2>2. f \in Surjection(0..MaxWords, D)
    BY DEF Surjection
  <2> QED BY <2>1, <2>2
<1>2. ASSUME NEW n \in 0..MaxWords
      PROVE  Weight(n) \in Nat \ {0} /\ Penalty(n) \in Nat \ {0}
  <2>1. Penalty(n) \in Nat \ {0}
    BY DEF Penalty
  <2>2. PICK p \in Nat \ {0} : p = Penalty(n)
    BY <2>1
  <2>3. PICK s \in Nat \ {0} : s = IF n = 0 THEN 1 ELSE n
    OBVIOUS
  <2>4. s * p * p \in Nat \ {0}
    <3>1. s * p \in Nat \ {0}
      BY <2>2, <2>3
    <3> QED BY <2>2, <3>1
  <2> QED BY <2>1, <2>2, <2>3, <2>4 DEF Weight
<1>3. ASSUME NEW n \in 0..MaxWords, NEW m \in 0..MaxWords, n <= m
      PROVE  Weight(n) <= Weight(m)
  <2>1. PICK p \in Nat \ {0}, q \in Nat \ {0} :
            p = Penalty(n) /\ q = Penalty(m) /\ p <= q
    BY <1>2, <1>3 DEF Penalty
  <2>2. PICK s \in Nat \ {0}, t \in Nat \ {0} :
            /\ s = (IF n = 0 THEN 1 ELSE n) /\ t = (IF m = 0 THEN 1 ELSE m)
            /\ s <= t
    BY <1>3
  <2>3. s * p <= t * q /\ s * p \in Nat /\ t * q \in Nat
    BY <2>1, <2>2
  <2>4. PICK a \in Nat, b \in Nat : a = s * p /\ b = t * q /\ a <= b
    BY <2>3
  <2>5. a * p <= b * q
    BY <2>1, <2>4
  <2> QED BY <2>1, <2>2, <2>4, <2>5 DEF Weight
<1>4. Weights = ProductSet(D) /\ D \subseteq Nat \ {0}
  BY <1>2 DEF Weights
<1>5. \A n \in 0..MaxWords : Weight(n) \in D
  OBVIOUS
<1> HIDE DEF D, f
<1>6. IsFiniteSet(D)
  BY <1>1, FS_Surjection
<1>7. \A x \in D : \E j \in Nat \ {0} : Weights = x * j
  BY <1>4, <1>6, ProductDivides
<1>8. ASSUME NEW n \in 0..MaxWords
      PROVE  PerWeight(n) \in Nat \ {0} /\ Weights = Weight(n) * PerWeight(n)
  <2>1. PICK j \in Nat \ {0} : Weights = Weight(n) * j
    BY <1>5, <1>7
  <2>2. PICK a \in Nat \ {0} : a = Weight(n)
    BY <1>2
  <2>3. (a * j) \div a = j
    OBVIOUS
  <2> QED BY <2>1, <2>2, <2>3 DEF PerWeight
<1>9. ASSUME NEW n \in 0..MaxWords, NEW m \in 0..MaxWords, n <= m
      PROVE  PerWeight(m) <= PerWeight(n)
  <2>1. PICK a \in Nat \ {0}, b \in Nat \ {0} : a = Weight(n) /\ b = Weight(m) /\ a <= b
    BY <1>2, <1>3, <1>9
  <2>2. PICK x \in Nat \ {0}, y \in Nat \ {0} :
            x = PerWeight(n) /\ y = PerWeight(m) /\ a * x = b * y
    BY <1>8, <2>1
  <2>3. ASSUME x < y PROVE FALSE
    <3>1. a * x < a * y /\ a * y <= b * y
      BY <2>1, <2>3
    <3> QED BY <2>2, <3>1
  <2> QED BY <2>2, <2>3
<1> QED BY <1>8, <1>9

\* Words of the query count for a snippet, words of its own against it.
LEMMA BetterSnippet ==
    ASSUME NEW a \in Snippets, NEW b \in Snippets, a.overlap >= b.overlap, a.size <= b.size
    PROVE  /\ HeuristicScore(a) \in Nat /\ HeuristicScore(b) \in Nat
           /\ HeuristicScore(b) <= HeuristicScore(a)
           /\ a.overlap > b.overlap => HeuristicScore(b) < HeuristicScore(a)
<1>1. /\ a.overlap \in Nat /\ b.overlap \in Nat
      /\ a.size \in 0..MaxWords /\ b.size \in 0..MaxWords
  BY RankFusionAssumption DEF Snippets
<1>2. PICK o \in Nat, u \in Nat : o = a.overlap /\ u = b.overlap /\ u <= o
  BY <1>1
<1>3. PICK x \in Nat \ {0}, y \in Nat \ {0} :
          x = PerWeight(a.size) /\ y = PerWeight(b.size) /\ y <= x
  BY <1>1, WeightGrows
<1>4. HeuristicScore(a) = o * o * x /\ HeuristicScore(b) = u * u * y
  BY <1>2, <1>3 DEF HeuristicScore, PerWeight
<1>5. u * u \in Nat /\ o * o \in Nat /\ u * u <= o * o
  BY <1>2
<1>6. u < o => u * u < o * o
  BY <1>2
<1>7. PICK c \in Nat, d \in Nat : c = o * o /\ d = u * u /\ d <= c /\ (u < o => d < c)
  BY <1>5, <1>6
<1>8. c * x \in Nat /\ d * y \in Nat /\ d * y <= c * x
  BY <1>3, <1>7
<1>9. d < c => d * y < c * x
  <2> SUFFICES ASSUME d < c PROVE d * y < c * x
    OBVIOUS
  <2>1. d * y <= d * x /\ d * x < c * x
    BY <1>3, <1>7
  <2> QED BY <1>8, <2>1
<1> QED BY <1>2, <1>4, <1>7, <1>8, <1>9

\* No candidate is above one that its score, or else its place, puts before it.
BetterFirst(cs, score, s) ==
    \A p, q \in DOMAIN cs, b \in 1..Len(s) :
        /\ s[b] = cs[q]
        /\ score[cs[p]] > score[cs[q]] \/ (score[cs[p]] = score[cs[q]] /\ p < q)
        => \E a \in DOMAIN s : s[a] = cs[p] /\ b \in DOMAIN s /\ a < b

\* Of two candidates the preferred one is above the other in what Rerank returns.
LEMMA PreferredIsAbove ==
    ASSUME NEW S, NEW cs \in Seq(S), IsInjective(cs), NEW score \in [ToSet(cs) -> Int],
           NEW n \in Nat, NEW s \in Reranked(cs, score, n)
    PROVE  BetterFirst(cs, score, s)
<1>0. SUFFICES
        ASSUME NEW p \in DOMAIN cs, NEW q \in DOMAIN cs, NEW b \in 1..Len(s), s[b] = cs[q],
               score[cs[p]] > score[cs[q]] \/ (score[cs[p]] = score[cs[q]] /\ p < q)
        PROVE  \E a \in DOMAIN s : s[a] = cs[p] /\ b \in DOMAIN s /\ a < b
  BY DEF BetterFirst
<1>1. PICK order \in SetToSeqs(DOMAIN cs) :
          /\ s = Cut(InOrder(cs, order), n)
          /\ \A x, y \in DOMAIN order : x < y =>
                <<order[y], order[x]>> \notin Preferred(cs, score)
  BY DEF Reranked, SortedBy
<1>2. DOMAIN cs = 1..Len(cs) /\ Len(cs) \in Nat /\ IsFiniteSet(DOMAIN cs)
  BY FS_Interval
<1>3. order \in Seq(DOMAIN cs) /\ IsInjective(order) /\ ToSet(order) = DOMAIN cs
  BY <1>1, <1>2, Enumeration
<1>4. /\ InOrder(cs, order) \in Seq(ToSet(cs))
      /\ DOMAIN InOrder(cs, order) = DOMAIN order
      /\ \A x \in DOMAIN order : InOrder(cs, order)[x] = cs[order[x]]
  <2>1. DOMAIN order = 1..Len(order) /\ Len(order) \in Nat
    BY <1>3
  <2>2. \A x \in DOMAIN order : order[x] \in DOMAIN cs
    BY <1>3
  <2> QED BY <2>1, <2>2 DEF InOrder, ToSet
<1>5. /\ Len(s) \in Nat /\ DOMAIN s = 1..Len(s) /\ DOMAIN order = 1..Len(order)
      /\ Len(s) <= Len(order) /\ Len(order) \in Nat
      /\ \A x \in DOMAIN s : x \in DOMAIN order /\ s[x] = cs[order[x]]
  <2> DEFINE t == InOrder(cs, order)
  <2>1. /\ Len(s) \in Nat /\ Len(s) <= Len(t) /\ DOMAIN s = 1..Len(s)
        /\ \A x \in DOMAIN s : x \in DOMAIN t /\ s[x] = t[x]
        /\ DOMAIN t = 1..Len(t) /\ Len(t) \in Nat
    BY <1>1, <1>4, CutPrefix
  <2>2. DOMAIN order = 1..Len(order) /\ Len(order) \in Nat
    BY <1>3
  <2>3. Len(t) = Len(order)
    <3>1. PICK x \in Nat, y \in Nat : x = Len(t) /\ y = Len(order) /\ 1..x = 1..y
      BY <1>4, <2>1, <2>2
    <3>2. ~(x < y) /\ ~(y < x)
      BY <3>1
    <3> QED BY <3>1, <3>2
  <2> QED BY <1>4, <2>1, <2>2, <2>3
<1>6. b \in DOMAIN s /\ b \in DOMAIN order /\ cs[order[b]] = cs[q] /\ order[b] \in DOMAIN cs
  <2>1. b \in DOMAIN s /\ b \in DOMAIN order /\ cs[order[b]] = cs[q]
    BY <1>0, <1>5
  <2>2. order[b] \in DOMAIN cs
    BY <1>3, <2>1 DEF ToSet
  <2> QED BY <2>1, <2>2
<1>7. order[b] = q
  BY <1>6 DEF IsInjective
<1>8. PICK a \in DOMAIN order : order[a] = p
  BY <1>3 DEF ToSet
<1>9. cs[p] \in ToSet(cs) /\ cs[q] \in ToSet(cs)
  BY DEF ToSet
<1>10. score[cs[p]] \in Int /\ score[cs[q]] \in Int /\ p \in Nat /\ q \in Nat
  BY <1>2, <1>9
<1>11. p # q /\ <<p, q>> \in Preferred(cs, score)
  BY <1>0, <1>10 DEF Preferred
<1>12. a # b /\ ~(b < a)
  BY <1>1, <1>6, <1>7, <1>8, <1>11
<1>13. a < b /\ a \in DOMAIN s
  BY <1>5, <1>6, <1>8, <1>12
<1> QED BY <1>5, <1>6, <1>8, <1>13

\* A snippet with more of the query's words, or as many, and no more words of its
\* own is not listed below the other, nor left out in its favour.
THEOREM RerankPrefersBetter == FSpec => []RerankDominates
<1>1. FInv => RerankDominates
  <2> SUFFICES ASSUME FInv, phase = "reranked",
                      NEW p \in DOMAIN candidates, NEW q \in DOMAIN candidates,
                      snippet[candidates[p]].overlap >= snippet[candidates[q]].overlap,
                      snippet[candidates[p]].size <= snippet[candidates[q]].size,
                      \/ p < q
                      \/ snippet[candidates[p]].overlap > snippet[candidates[q]].overlap
               PROVE  Above(candidates[p], candidates[q])
    BY DEF RerankDominates
  <2>1. /\ candidates \in Seq(Id) /\ IsInjective(candidates) /\ topN \in Nat
        /\ snippet \in [ToSet(candidates) -> Snippets]
        /\ out \in Reranked(candidates, ScoredSnippets(candidates, snippet), topN)
    BY RankFusionAssumption DEF FInv, FTypeOK, Handed, Reranking
  <2> DEFINE score == ScoredSnippets(candidates, snippet)
  <2>2. \A i \in ToSet(candidates) : score[i] = HeuristicScore(snippet[i])
    BY DEF ScoredSnippets
  <2>3. \A i \in ToSet(candidates) : HeuristicScore(snippet[i]) \in Nat
    <3> SUFFICES ASSUME NEW i \in ToSet(candidates) PROVE HeuristicScore(snippet[i]) \in Nat
      OBVIOUS
    <3>1. snippet[i] \in Snippets
      BY <2>1
    <3>2. snippet[i].overlap \in Int /\ snippet[i].size \in Int
      BY <3>1 DEF Snippets
    <3> QED BY <3>1, <3>2, BetterSnippet
  <2>4. score \in [ToSet(candidates) -> Int]
    BY <2>3 DEF ScoredSnippets
  <2>5. candidates[p] \in ToSet(candidates) /\ candidates[q] \in ToSet(candidates)
    BY DEF ToSet
  <2>6. /\ snippet[candidates[p]] \in Snippets /\ snippet[candidates[q]] \in Snippets
        /\ p \in Int /\ q \in Int
    BY <2>1, <2>5
  <2> HIDE DEF score
  <2>7. \/ score[candidates[p]] > score[candidates[q]]
        \/ score[candidates[p]] = score[candidates[q]] /\ p < q
    <3> DEFINE a == snippet[candidates[p]]
               c == snippet[candidates[q]]
    <3>1. score[candidates[p]] = HeuristicScore(a) /\ score[candidates[q]] = HeuristicScore(c)
      BY <2>2, <2>5
    <3>2. a \in Snippets /\ c \in Snippets /\ a.overlap >= c.overlap /\ a.size <= c.size
          /\ (p < q \/ a.overlap > c.overlap)
      BY <2>6
    <3> HIDE DEF a, c
    <3>3. /\ HeuristicScore(a) \in Nat /\ HeuristicScore(c) \in Nat
          /\ HeuristicScore(c) <= HeuristicScore(a)
          /\ a.overlap > c.overlap => HeuristicScore(c) < HeuristicScore(a)
      BY <3>2, BetterSnippet
    <3> QED BY <3>1, <3>2, <3>3
  <2>8. SUFFICES ASSUME Contains(out, candidates[q])
                 PROVE  \E x, y \in DOMAIN out :
                            out[x] = candidates[p] /\ out[y] = candidates[q] /\ x < y
    BY DEF Above
  <2>9. PICK b \in 1..Len(out) : out[b] = candidates[q]
    BY <2>8 DEF Contains
  <2>10. PICK x \in DOMAIN out : out[x] = candidates[p] /\ b \in DOMAIN out /\ x < b
    <3>1. out \in Reranked(candidates, score, topN)
      BY <2>1 DEF score
    <3>2. BetterFirst(candidates, score, out)
      BY <2>1, <2>4, <3>1, PreferredIsAbove
    <3> QED BY <2>7, <2>9, <3>2 DEF BetterFirst
  <2> QED BY <2>9, <2>10
<1> QED BY <1>1, FusionInvariant, PTL

-----------------------------------------------------------------------------
(* Chunks of documents.                                                    *)

USE HybridAssumption

\* The rows of a search.
LEMMA RankedPage ==
    ASSUME NEW S, IsFiniteSet(S), NEW table, NEW s \in Ranked(S, table)
    PROVE  IsPage(s, S, PerListLimit)
<1>1. PICK t \in SetToSeqs(S) : s = Cut(t, PerListLimit)
  BY DEF Ranked, SortedBy
<1> QED BY <1>1, CutPage

LEMMA DocOfChunk ==
    ASSUME NEW d \in DocId, NEW i \in 1..MaxChunks
    PROVE  ChunkNo(d, i) \in Nat /\ DocOf(ChunkNo(d, i)) = d
<1>1. d \in Nat /\ MaxChunks \in Nat /\ i \in Nat /\ 1 <= i /\ i <= MaxChunks
  OBVIOUS
<1>2. d * MaxChunks \in Nat
  BY <1>1
<1>3. ChunkNo(d, i) \in Nat
  BY <1>1, <1>2 DEF ChunkNo
<1> QED BY <1>1, <1>2, <1>3, SMTT(30) DEF ChunkNo, DocOf

\* The chunks that can be found are numbers, finitely many, of live documents.
LEMMA LiveChunksFinite ==
    /\ IsFiniteSet(LiveChunks) /\ LiveChunks \subseteq Nat
    /\ \A c \in LiveChunks : DocOf(c) \in Live
<1> DEFINE P == {x \in Live \X (1..MaxChunks) : x[2] <= text[x[1]]}
           f == [x \in P |-> ChunkNo(x[1], x[2])]
<1>1. \A x \in P : /\ x[1] \in Live /\ x[1] \in DocId /\ x[2] \in 1..MaxChunks
                   /\ ChunkNo(x[1], x[2]) \in Nat /\ DocOf(ChunkNo(x[1], x[2])) = x[1]
  <2> SUFFICES ASSUME NEW x \in P
               PROVE  /\ x[1] \in Live /\ x[1] \in DocId /\ x[2] \in 1..MaxChunks
                      /\ ChunkNo(x[1], x[2]) \in Nat /\ DocOf(ChunkNo(x[1], x[2])) = x[1]
    OBVIOUS
  <2>1. x[1] \in Live /\ x[2] \in 1..MaxChunks
    OBVIOUS
  <2>2. x[1] \in DocId
    BY <2>1 DEF Live
  <2> QED BY <2>1, <2>2, DocOfChunk
<1>2. LiveChunks = {ChunkNo(x[1], x[2]) : x \in P}
  BY DEF LiveChunks, ChunksOfDocs
<1>3. IsFiniteSet(P)
  <2>1. IsFiniteSet(DocId) /\ IsFiniteSet(1..MaxChunks)
    BY FS_Interval
  <2>2. IsFiniteSet(DocId \X (1..MaxChunks))
    BY <2>1, FS_Product
  <2>3. P \subseteq DocId \X (1..MaxChunks)
    BY DEF Live
  <2> QED BY <2>2, <2>3, FS_Subset
<1>4. f \in Surjection(P, LiveChunks)
  BY <1>2 DEF Surjection
<1> HIDE DEF P, f
<1>5. IsFiniteSet(LiveChunks)
  BY <1>3, <1>4, FS_Surjection
<1>6. LiveChunks \subseteq Nat
  BY <1>1, <1>2
<1>7. \A c \in LiveChunks : DocOf(c) \in Live
  BY <1>1, <1>2
<1> QED BY <1>5, <1>6, <1>7

LEMMA MatchingFinite ==
    IsFiniteSet(Matching) /\ Matching \subseteq Nat /\ Matching \subseteq LiveChunks
<1>1. Matching \subseteq LiveChunks
  BY DEF Matching
<1> QED BY <1>1, LiveChunksFinite, FS_Subset

-----------------------------------------------------------------------------
(* The invariant.                                                          *)

StoreOK ==
    /\ content \in [DocId -> Hash \union {NoHash}]
    /\ stage \in [DocId -> {"absent", "live", "deleted", "reclaimed"}]
    /\ text \in [DocId -> Nat]

Hits == ToSet(bm) \union ToSet(vec)

\* What was deleted stays deleted, and is in neither list.
Gone  == \A d \in goneBefore : stage[d] \in {"deleted", "reclaimed"}
Fresh == \A c \in Hits : DocOf(c) \notin goneBefore

\* What still matches of the documents live all along was found.
Searched ==
    (pc \in {"embed", "vector", "fuse", "rerank", "ok"} /\ UseBM25 /\ Len(bm) < PerListLimit)
    => \A c \in Matching : DocOf(c) \in stable => c \in ToSet(bm)

Candidates == pc = "rerank" => Reranks /\ IsPage(cands, Hits, RerankInputN)

Answer ==
    pc = "ok" =>
        /\ results \in Seq(Hits) /\ IsInjective(results) /\ Len(results) <= k
        /\ (Len(results) < k /\ (Reranks => k <= RerankInputN))
              => Hits \subseteq ToSet(results)

HInv == StoreOK /\ TypeOK /\ Gone /\ Fresh /\ Searched /\ Candidates /\ Answer

LEMMA SameIndex ==
    ASSUME UNCHANGED store
    PROVE  /\ Live' = Live /\ LiveChunks' = LiveChunks /\ Matching' = Matching
           /\ StoreOK => StoreOK'
BY DEF store, avars, Live, LiveChunks, ChunksOfDocs, Matching, ScoreOf, StoreOK

LEMMA InitHInv == Init => HInv
<1> SUFFICES ASSUME Init PROVE HInv
  OBVIOUS
<1>1. StoreOK
  BY DEF Init, AInit, StoreOK
<1>2. pc = "idle" /\ bm = <<>> /\ vec = <<>> /\ goneBefore = {}
  BY DEF Init
<1>3. TypeOK
  <2>1. <<>> \in Seq(Nat) /\ IsInjective(<<>>)
    BY DEF IsInjective
  <2> QED BY <2>1 DEF Init, TypeOK
<1>4. Gone /\ Fresh /\ Searched /\ Candidates /\ Answer
  BY <1>2 DEF Gone, Fresh, Searched, Candidates, Answer
<1> QED BY <1>1, <1>3, <1>4 DEF HInv

\* A change of the index leaves alone the documents that are live before and
\* after, and raises none from the dead.
LEMMA IndexChanges ==
    ASSUME StoreOK, ANext
    PROVE  /\ StoreOK'
           /\ \A d \in DocId : stage[d] \in {"deleted", "reclaimed"}
                  => stage'[d] \in {"deleted", "reclaimed"}
           /\ \A d \in DocId : stage[d] = "live" /\ stage'[d] = "live"
                  => content'[d] = content[d] /\ text'[d] = text[d]
<1> USE DEF StoreOK
<1>1. ASSUME NEW d \in DocId, NEW h \in Hash, Index(h, d)
      PROVE  /\ StoreOK'
             /\ \A e \in DocId : e # d => /\ stage'[e] = stage[e] /\ text'[e] = text[e]
                                         /\ content'[e] = content[e]
             /\ stage[d] = "absent"
  <2>1. ChunksOf[h] \in Nat
    OBVIOUS
  <2> QED BY <1>1, <2>1 DEF Index
<1>2. ASSUME NEW d \in DocId, Delete(d)
      PROVE  /\ StoreOK' /\ content' = content /\ text' = text
             /\ \A e \in DocId : e # d => stage'[e] = stage[e]
             /\ stage'[d] = "deleted" /\ stage[d] = "live"
  BY <1>2 DEF Delete
<1>3. ASSUME NEW d \in DocId, Reclaim(d)
      PROVE  /\ StoreOK' /\ content' = content
             /\ \A e \in DocId : e # d => stage'[e] = stage[e] /\ text'[e] = text[e]
             /\ stage'[d] = "reclaimed" /\ stage[d] = "deleted"
  <2>1. 0 \in Nat
    OBVIOUS
  <2> QED BY <1>3, <2>1 DEF Reclaim
<1> QED
  <2>1. ASSUME NEW d \in DocId, NEW h \in Hash, Index(h, d)
        PROVE  /\ StoreOK'
               /\ \A e \in DocId : stage[e] \in {"deleted", "reclaimed"}
                      => stage'[e] \in {"deleted", "reclaimed"}
               /\ \A e \in DocId : stage[e] = "live" /\ stage'[e] = "live"
                      => content'[e] = content[e] /\ text'[e] = text[e]
    <3> HIDE DEF StoreOK
    <3> QED BY <1>1, <2>1
  <2>2. ASSUME NEW d \in DocId, Delete(d) \/ Reclaim(d)
        PROVE  /\ StoreOK'
               /\ \A e \in DocId : stage[e] \in {"deleted", "reclaimed"}
                      => stage'[e] \in {"deleted", "reclaimed"}
               /\ \A e \in DocId : stage[e] = "live" /\ stage'[e] = "live"
                      => content'[e] = content[e] /\ text'[e] = text[e]
    <3> HIDE DEF StoreOK
    <3> QED BY <1>2, <1>3, <2>2
  <2> HIDE DEF StoreOK
  <2> QED BY <2>1, <2>2 DEF ANext

LEMMA StoreStep == HInv /\ StoreChanges => HInv'
<1> SUFFICES ASSUME HInv, StoreChanges PROVE HInv'
  OBVIOUS
<1>0. /\ StoreOK /\ TypeOK /\ ANext
      /\ UNCHANGED <<pc, mode, k, bm, vec, cands, results, sidecarUp, reranker, goneBefore>>
      /\ stable' = {d \in stable : stage'[d] = "live"}
  BY DEF HInv, StoreChanges, query
<1>1. /\ StoreOK'
      /\ \A d \in DocId : stage[d] \in {"deleted", "reclaimed"}
            => stage'[d] \in {"deleted", "reclaimed"}
      /\ \A d \in DocId : stage[d] = "live" /\ stage'[d] = "live"
            => content'[d] = content[d] /\ text'[d] = text[d]
  BY <1>0, IndexChanges
<1>2. TypeOK'
  <2>1. stable' \subseteq Live'
    BY <1>0 DEF TypeOK, Live
  <2> QED BY <1>0, <2>1 DEF TypeOK
<1>3. Gone'
  BY <1>0, <1>1 DEF HInv, Gone, TypeOK
<1>4. Fresh' /\ Candidates' /\ Answer'
  BY <1>0 DEF HInv, Fresh, Candidates, Answer, Hits, Reranks
<1>5. ASSUME NEW c \in Matching', DocOf(c) \in stable'
      PROVE  c \in Matching /\ DocOf(c) \in stable
  <2> DEFINE d == DocOf(c)
  <2>1. c \in LiveChunks' /\ ScoreOf(KeywordScore, c)' > 0
    BY <1>5 DEF Matching
  <2>2. PICK e \in Live', i \in 1..MaxChunks : c = ChunkNo(e, i) /\ i <= text'[e]
    BY <2>1 DEF LiveChunks, ChunksOfDocs
  <2>3. e \in DocId /\ DocOf(c) = e
    BY <2>2, DocOfChunk DEF Live
  <2>4. e \in stable /\ e \in Live /\ stage[e] = "live" /\ stage'[e] = "live"
    BY <1>0, <1>5, <2>3 DEF TypeOK, Live
  <2>5. content'[e] = content[e] /\ text'[e] = text[e]
    BY <1>1, <2>3, <2>4
  <2>6. c \in LiveChunks
    <3>1. <<e, i>> \in {x \in Live \X (1..MaxChunks) : x[2] <= text[x[1]]}
      BY <2>2, <2>4, <2>5
    <3>2. c = ChunkNo(<<e, i>>[1], <<e, i>>[2])
      BY <2>2
    <3> QED BY <3>1, <3>2 DEF LiveChunks, ChunksOfDocs
  <2>7. ScoreOf(KeywordScore, c) > 0
    BY <2>1, <2>3, <2>5 DEF ScoreOf
  <2> QED BY <2>3, <2>4, <2>6, <2>7 DEF Matching
<1>6. Searched'
  BY <1>0, <1>5 DEF HInv, Searched, UseBM25
<1> QED BY <1>1, <1>2, <1>3, <1>4, <1>6 DEF HInv

\* Steps that touch neither the index nor the lists.
LEMMA PlainStep ==
    ASSUME HInv, UNCHANGED <<store, query, reranker, ghosts>>, sidecarUp' \in BOOLEAN,
           pc' = pc \/ pc' = "failed" \/ (pc = "embed" /\ pc' = "vector")
    PROVE  HInv'
<1>1. UNCHANGED <<mode, k, bm, vec, cands, results, goneBefore, stable, stage>>
  BY DEF query, ghosts, store, avars
<1>2. Live' = Live /\ Matching' = Matching /\ StoreOK'
  BY SameIndex DEF HInv
<1>3. TypeOK'
  BY <1>1, <1>2 DEF HInv, TypeOK
<1>4. Gone' /\ Fresh'
  BY <1>1 DEF HInv, Gone, Fresh, Hits
<1>5. Searched'
  BY <1>1, <1>2 DEF HInv, Searched, UseBM25
<1>6. Candidates' /\ Answer'
  BY <1>1 DEF HInv, Candidates, Answer, Hits, Reranks
<1> QED BY <1>2, <1>3, <1>4, <1>5, <1>6 DEF HInv

LEMMA ArriveStep ==
    ASSUME HInv, NEW m \in Modes, NEW n \in Ks, QueryArrives(m, n) PROVE HInv'
<1>1. /\ UNCHANGED <<store, sidecarUp, reranker>> /\ UNCHANGED stage
      /\ mode' = m /\ k' \in Nat
      /\ bm' = <<>> /\ vec' = <<>> /\ cands' = <<>> /\ results' = <<>>
      /\ pc' = IF m = "vector" THEN "embed" ELSE "bm25"
      /\ goneBefore' = {d \in DocId : stage[d] \in {"deleted", "reclaimed"}}
      /\ stable' = Live
  BY DEF QueryArrives, store, avars
<1>2. Live' = Live /\ StoreOK'
  BY <1>1, SameIndex DEF HInv
<1>3. TypeOK'
  <2>1. <<>> \in Seq(Nat) /\ IsInjective(<<>>)
    BY DEF IsInjective
  <2> QED BY <1>1, <1>2, <2>1 DEF HInv, TypeOK
<1>4. Gone' /\ Fresh'
  BY <1>1 DEF Gone, Fresh, Hits, ToSet
<1>5. Searched' /\ Candidates' /\ Answer'
  BY <1>1 DEF Searched, Candidates, Answer, UseBM25
<1> QED BY <1>2, <1>3, <1>4, <1>5 DEF HInv

\* What a search of the live chunks finds is fresh.
LEMMA LiveIsFresh ==
    ASSUME Gone, NEW c \in LiveChunks PROVE DocOf(c) \notin goneBefore
BY LiveChunksFinite DEF Gone, Live

LEMMA SearchBM25Step == HInv /\ SearchBM25 => HInv'
<1> SUFFICES ASSUME HInv, SearchBM25 PROVE HInv'
  OBVIOUS
<1>1. /\ UNCHANGED <<mode, k, vec, cands, results>> /\ UNCHANGED store
      /\ UNCHANGED <<sidecarUp, reranker, goneBefore, stable, stage>>
      /\ bm' \in Ranked(Matching, KeywordScore)
      /\ pc' \in {"embed", "fuse"}
  BY DEF SearchBM25, env, ghosts, store, avars
<1>2. Live' = Live /\ Matching' = Matching /\ StoreOK'
  BY <1>1, SameIndex DEF HInv
<1>3. IsPage(bm', Matching, PerListLimit)
  BY <1>1, MatchingFinite, RankedPage
<1>4. bm' \in Seq(Nat) /\ IsInjective(bm') /\ ToSet(bm') \subseteq Matching
  <2>1. bm' \in Seq(Matching) /\ IsInjective(bm')
    BY <1>3 DEF IsPage
  <2>2. Matching \subseteq Nat
    BY MatchingFinite
  <2>3. bm' \in Seq(Nat)
    BY <2>1, <2>2, WiderSeq
  <2> QED BY <2>1, <2>3, SeqRange
<1>5. TypeOK'
  BY <1>1, <1>2, <1>4 DEF HInv, TypeOK
<1>6. Gone' /\ Fresh'
  <2>1. Gone'
    BY <1>1 DEF HInv, Gone
  <2>2. \A c \in ToSet(bm') : DocOf(c) \notin goneBefore
    BY <1>4, MatchingFinite, LiveIsFresh DEF HInv
  <2> QED BY <1>1, <2>1, <2>2 DEF HInv, Fresh, Hits
<1>7. Searched'
  BY <1>2, <1>3 DEF Searched, IsPage
<1>8. Candidates' /\ Answer'
  BY <1>1 DEF Candidates, Answer
<1> QED BY <1>2, <1>5, <1>6, <1>7, <1>8 DEF HInv

LEMMA SearchVectorStep == HInv /\ SearchVector => HInv'
<1> SUFFICES ASSUME HInv, SearchVector PROVE HInv'
  OBVIOUS
<1>1. /\ UNCHANGED <<mode, k, bm, cands, results>> /\ UNCHANGED store
      /\ UNCHANGED <<sidecarUp, reranker, goneBefore, stable, stage>>
      /\ pc = "vector" /\ pc' = "fuse"
  BY DEF SearchVector, env, ghosts, store, avars
<1>2. Live' = Live /\ Matching' = Matching /\ StoreOK'
  BY <1>1, SameIndex DEF HInv
<1>3. PICK S \in SUBSET LiveChunks : vec' \in Ranked(S, VectorScore)
  BY DEF SearchVector
<1>4. IsFiniteSet(S) /\ S \subseteq Nat
  BY LiveChunksFinite, FS_Subset
<1>5. IsPage(vec', S, PerListLimit)
  BY <1>3, <1>4, RankedPage
<1>6. vec' \in Seq(Nat) /\ IsInjective(vec') /\ ToSet(vec') \subseteq LiveChunks
  <2>1. vec' \in Seq(S) /\ IsInjective(vec')
    BY <1>5 DEF IsPage
  <2>2. vec' \in Seq(Nat)
    BY <1>4, <2>1, WiderSeq
  <2>3. ToSet(vec') \subseteq S
    BY <2>1, SeqRange
  <2> QED BY <2>1, <2>2, <2>3
<1>7. TypeOK'
  BY <1>1, <1>2, <1>6 DEF HInv, TypeOK
<1>8. Gone' /\ Fresh'
  <2>1. Gone'
    BY <1>1 DEF HInv, Gone
  <2>2. \A c \in ToSet(vec') : DocOf(c) \notin goneBefore
    BY <1>6, LiveIsFresh DEF HInv
  <2> QED BY <1>1, <2>1, <2>2 DEF HInv, Fresh, Hits
<1>9. Searched'
  BY <1>1, <1>2 DEF HInv, Searched, UseBM25
<1>10. Candidates' /\ Answer'
  BY <1>1 DEF Candidates, Answer
<1> QED BY <1>2, <1>7, <1>8, <1>9, <1>10 DEF HInv

LEMMA HitsAreChunks ==
    TypeOK => /\ Hits \subseteq Nat /\ bm \in Seq(Nat) /\ vec \in Seq(Nat)
<1> SUFFICES ASSUME TypeOK PROVE Hits \subseteq Nat /\ bm \in Seq(Nat) /\ vec \in Seq(Nat)
  OBVIOUS
<1>1. bm \in Seq(Nat) /\ vec \in Seq(Nat)
  BY DEF TypeOK
<1> QED BY <1>1, SeqRange DEF Hits

LEMMA FuseStep == HInv /\ Fuse => HInv'
<1> SUFFICES ASSUME HInv, Fuse PROVE HInv'
  OBVIOUS
<1>1. /\ UNCHANGED <<mode, k, bm, vec>> /\ UNCHANGED store
      /\ UNCHANGED <<sidecarUp, reranker, goneBefore, stable, stage>> /\ pc = "fuse"
  BY DEF Fuse, env, ghosts, store, avars
<1>2. /\ Live' = Live /\ Matching' = Matching /\ StoreOK' /\ Hits' = Hits
      /\ Reranks' = Reranks /\ UseBM25' = UseBM25
  BY <1>1, SameIndex DEF HInv, Hits, Reranks, UseBM25
<1>3. PICK fused \in Fused([bm25 |-> bm, vector |-> vec], FuseLimit) :
          \/ /\ Reranks /\ fused # <<>>
             /\ cands' = fused /\ pc' = "rerank" /\ results' = results
          \/ /\ ~(Reranks /\ fused # <<>>)
             /\ results' = fused /\ pc' = "ok" /\ cands' = cands
  BY DEF Fuse
<1>4. FuseLimit \in Nat /\ k \in Nat
  BY DEF HInv, TypeOK, FuseLimit
<1>5. IsPage(fused, Hits, FuseLimit)
  BY <1>3, <1>4, FusedPage, HitsAreChunks DEF HInv, Hits
<1>6. fused \in Seq(Hits) /\ fused \in Seq(Nat) /\ IsInjective(fused)
  <2>1. fused \in Seq(Hits) /\ IsInjective(fused)
    BY <1>5 DEF IsPage
  <2> QED BY <2>1, HitsAreChunks DEF HInv
<1>7. TypeOK'
  BY <1>1, <1>2, <1>3, <1>6 DEF HInv, TypeOK
<1>8. Gone' /\ Fresh'
  BY <1>1, <1>2 DEF HInv, Gone, Fresh
<1>9. Searched'
  BY <1>1, <1>2 DEF HInv, Searched
<1>10. Candidates'
  BY <1>2, <1>3, <1>5 DEF Candidates, FuseLimit
<1>11. Answer'
  <2> SUFFICES ASSUME pc' = "ok" PROVE Answer'
    BY DEF Answer
  <2>1. results' = fused /\ (Reranks => fused = <<>>)
    BY <1>3
  <2>2. CASE Reranks
    <3>1. fused = <<>> /\ FuseLimit = RerankInputN
      BY <2>1, <2>2 DEF FuseLimit
    <3>2. Hits \subseteq ToSet(fused)
      BY <1>5, <3>1 DEF IsPage
    <3> QED BY <1>1, <1>2, <1>4, <1>6, <2>1, <3>1, <3>2 DEF Answer
  <2>3. CASE ~Reranks
    <3>1. FuseLimit = k
      BY <2>3 DEF FuseLimit
    <3> QED BY <1>1, <1>2, <1>5, <2>1, <3>1 DEF Answer, IsPage
  <2> QED BY <2>2, <2>3
<1> QED BY <1>2, <1>7, <1>8, <1>9, <1>10, <1>11 DEF HInv

LEMMA RerankStep == HInv /\ Rerank => HInv'
<1> SUFFICES ASSUME HInv, Rerank PROVE HInv'
  OBVIOUS
<1>1. CASE QueryFails /\ UNCHANGED faults
  BY <1>1, PlainStep DEF QueryFails, HInv, TypeOK, ghosts
<1>2. CASE ~(QueryFails /\ UNCHANGED faults)
  <2>1. /\ UNCHANGED <<mode, k, bm, vec, cands>> /\ UNCHANGED store
        /\ UNCHANGED <<sidecarUp, reranker, goneBefore, stable, stage>>
        /\ pc = "rerank" /\ pc' = "ok"
        /\ results' \in Reranked(cands, [c \in ToSet(cands) |-> ScoreOf(RerankScore, c)], k)
    BY <1>2 DEF Rerank, env, ghosts, store, avars
  <2>2. /\ Live' = Live /\ Matching' = Matching /\ StoreOK' /\ Hits' = Hits
        /\ Reranks' = Reranks /\ UseBM25' = UseBM25
    BY <2>1, SameIndex DEF HInv, Hits, Reranks, UseBM25
  <2>3. Reranks /\ IsPage(cands, Hits, RerankInputN) /\ k \in Nat
    BY <2>1 DEF HInv, Candidates, TypeOK
  <2>4. cands \in Seq(Hits) /\ IsInjective(cands)
    BY <2>3 DEF IsPage
  <2>5. IsPage(results', ToSet(cands), k)
    BY <2>1, <2>3, <2>4, RerankedPage
  <2>6. ToSet(cands) \subseteq Hits /\ IsFiniteSet(ToSet(cands))
    BY <2>4, SeqRange
  <2>7. results' \in Seq(Hits) /\ results' \in Seq(Nat) /\ IsInjective(results')
    <3>1. results' \in Seq(ToSet(cands)) /\ IsInjective(results')
      BY <2>5 DEF IsPage
    <3>2. results' \in Seq(Hits)
      BY <2>6, <3>1
    <3> QED BY <3>1, <3>2, HitsAreChunks DEF HInv
  <2>8. TypeOK'
    BY <2>1, <2>2, <2>7 DEF HInv, TypeOK
  <2>9. Gone' /\ Fresh'
    BY <2>1, <2>2 DEF HInv, Gone, Fresh
  <2>10. Searched'
    BY <2>1, <2>2 DEF HInv, Searched
  <2>11. ASSUME Len(results') < k, k <= RerankInputN PROVE Hits \subseteq ToSet(results')
    <3>1. ToSet(cands) \subseteq ToSet(results')
      BY <2>5, <2>11 DEF IsPage
    <3>2. Len(cands) <= Len(results')
      BY <2>4, <2>7, <3>1, FewerRows
    <3>3. Len(cands) < RerankInputN
      BY <2>3, <2>4, <2>7, <2>11, <3>2
    <3> QED BY <2>3, <3>1, <3>3 DEF IsPage
  <2>12. Answer'
    BY <2>1, <2>2, <2>3, <2>5, <2>7, <2>11 DEF Answer, IsPage
  <2>13. Candidates'
    BY <2>1 DEF Candidates
  <2> QED BY <2>2, <2>8, <2>9, <2>10, <2>12, <2>13 DEF HInv
<1> QED BY <1>1, <1>2

LEMMA NextHInv == HInv /\ [Next]_vars => HInv'
<1> SUFFICES ASSUME HInv, [Next]_vars PROVE HInv'
  OBVIOUS
<1>1. CASE UNCHANGED vars
  BY <1>1, PlainStep DEF vars, HInv, TypeOK
<1>2. CASE SidecarChanges \/ DatabaseFails
  BY <1>2, PlainStep DEF SidecarChanges, DatabaseFails, QueryFails, HInv, TypeOK, ghosts
<1>3. CASE EmbedQuery
  BY <1>3, PlainStep DEF EmbedQuery, QueryFails, HInv, TypeOK, ghosts, env
<1>4. CASE \E m \in Modes, n \in Ks : QueryArrives(m, n)
  BY <1>4, ArriveStep
<1> QED BY <1>1, <1>2, <1>3, <1>4, StoreStep, SearchBM25Step, SearchVectorStep,
           FuseStep, RerankStep DEF Next, Engine

\* Through the whole pipeline every list is a page of what it was made from, what
\* was deleted before the query is in none, and what matched throughout was found.
THEOREM Invariant == Spec => []HInv
BY InitHInv, NextHInv, PTL DEF Spec

\* A query that arrives after a DELETE was acknowledged shows no chunk of that
\* document, however long it runs.
THEOREM NoneDeleted == Spec => []NothingDeletedBefore
<1>1. HInv => NothingDeletedBefore
  <2> SUFFICES ASSUME HInv, pc = "ok", NEW p \in DOMAIN results
               PROVE  DocOf(results[p]) \notin goneBefore
    BY DEF NothingDeletedBefore
  <2>1. results[p] \in Hits
    BY DEF HInv, Answer
  <2> QED BY <2>1 DEF HInv, Fresh
<1> QED BY <1>1, Invariant, PTL

\* The answer holds what was found, once, and at most k of it.
THEOREM AnswerFound == Spec => []ResultsFound
<1>1. HInv => ResultsFound
  <2> SUFFICES ASSUME HInv, pc = "ok"
               PROVE  /\ IsInjective(results) /\ ToSet(results) \subseteq Hits
                      /\ Len(results) <= k
    BY DEF ResultsFound, Hits
  <2>1. results \in Seq(Hits) /\ IsInjective(results) /\ Len(results) <= k
    BY DEF HInv, Answer
  <2> QED BY <2>1, SeqRange
<1> QED BY <1>1, Invariant, PTL

\* A page with room left shows every chunk that matched all along.
THEOREM ShortPages == Spec => []ShortPageComplete
<1>1. HInv => ShortPageComplete
  <2> SUFFICES ASSUME HInv, pc = "ok", UseBM25, Len(results) < k, Len(bm) < PerListLimit,
                      Reranks => k <= RerankInputN,
                      NEW c \in Matching, DocOf(c) \in stable
               PROVE  Contains(results, c)
    BY DEF ShortPageComplete
  <2>1. c \in Hits
    BY DEF HInv, Searched, Hits
  <2>2. c \in ToSet(results)
    BY <2>1 DEF HInv, Answer
  <2> QED BY <2>2 DEF Contains, ToSet
<1> QED BY <1>1, Invariant, PTL
=============================================================================
