-------------------------- MODULE BenchGateProofs --------------------------
(***************************************************************************)
(* What a green and a red gate mean, for any latencies and numbers of      *)
(* queries, documents and modes, any tolerance and any percentiles.        *)
(*                                                                         *)
(* A percentile is the least latency within which that share was answered  *)
(* (PctIs), which is what NoSlower asks of the queries themselves; a rate  *)
(* drifts beyond the tolerance exactly if the amounts per second do.       *)
(***************************************************************************)
EXTENDS BenchGate, SumProofs

USE BenchAssumption

-----------------------------------------------------------------------------
(* Counts of queries.                                                      *)

LEMMA Counts ==
    ASSUME NEW bag \in [Lat -> Nat], NEW S, NEW T, T \subseteq Lat, S \subseteq T
    PROVE  /\ SumFunctionOnSet(bag, S) \in Nat /\ SumFunctionOnSet(bag, T) \in Nat
           /\ SumFunctionOnSet(bag, S) <= SumFunctionOnSet(bag, T)
<1>1. IsFiniteSet(T) /\ \A x \in T : bag[x] \in Nat
  BY FS_Subset
<1> QED BY <1>1, SumBigger

LEMMA UpToGrows ==
    ASSUME NEW bag \in [Lat -> Nat], NEW l \in Int, NEW m \in Int, l <= m
    PROVE  /\ UpTo(bag, l) \in Nat /\ UpTo(bag, m) \in Nat
           /\ UpTo(bag, l) <= UpTo(bag, m)
<1> DEFINE S == {x \in DOMAIN bag : x <= l}
           T == {x \in DOMAIN bag : x <= m}
<1>0. DOMAIN bag = Lat /\ \A x \in Lat : x \in Int /\ (x <= l => x <= m)
  OBVIOUS
<1>1. T \subseteq Lat /\ S \subseteq T
  BY <1>0
<1> HIDE DEF S, T
<1>2. /\ SumFunctionOnSet(bag, S) \in Nat /\ SumFunctionOnSet(bag, T) \in Nat
      /\ SumFunctionOnSet(bag, S) <= SumFunctionOnSet(bag, T)
  BY <1>1, Counts
<1> QED BY <1>2 DEF UpTo, S, T

LEMMA NoLatency ==
    ASSUME Lat = {}, NEW bag \in [Lat -> Nat], NEW S, S \subseteq DOMAIN bag
    PROVE  SumFunctionOnSet(bag, S) = 0
<1>1. S = {}
  OBVIOUS
<1> QED BY <1>1, SumEmpty

\* All the answered queries took no more than the longest latency.
LEMMA AnsweredIs ==
    ASSUME NEW bag \in [Lat -> Nat]
    PROVE  /\ Answered(bag) \in Nat
           /\ \A S \in SUBSET Lat : /\ SumFunctionOnSet(bag, S) \in Nat
                                    /\ SumFunctionOnSet(bag, S) <= Answered(bag)
<1>1. CASE Lat = {}
  <2>1. Answered(bag) = 0
    BY <1>1, NoLatency DEF Answered, UpTo
  <2>2. \A S \in SUBSET Lat : SumFunctionOnSet(bag, S) = 0
    BY <1>1, NoLatency
  <2> QED BY <2>1, <2>2
<1>2. CASE Lat # {}
  <2>1. PICK x \in Lat : \A y \in Lat : y <= x
    BY <1>2, GreatestNatural
  <2>2. \A y \in Lat : y <= Max(Lat)
    BY <2>1 DEF Max
  <2>3. {x1 \in DOMAIN bag : x1 <= Max(Lat)} = Lat
    BY <2>2
  <2>4. Answered(bag) = SumFunctionOnSet(bag, Lat)
    BY <2>3, Zenon DEF Answered, UpTo
  <2>5. Answered(bag) \in Nat
    BY <2>4, Counts
  <2>6. ASSUME NEW S \in SUBSET Lat
        PROVE  /\ SumFunctionOnSet(bag, S) \in Nat
               /\ SumFunctionOnSet(bag, S) <= SumFunctionOnSet(bag, Lat)
    BY Counts
  <2> QED BY <2>4, <2>5, <2>6
<1> QED BY <1>1, <1>2

\* A set of latencies that each leave less than c queries answered within them
\* covers less than c queries.
LEMMA Below ==
    ASSUME NEW bag \in [Lat -> Nat], NEW S \in SUBSET Lat, NEW c \in Nat \ {0},
           \A x \in S : 1000 * UpTo(bag, x) < c
    PROVE  1000 * SumFunctionOnSet(bag, S) < c
<1>1. CASE S = {}
  <2>1. SumFunctionOnSet(bag, {}) = 0
    BY SumEmpty
  <2> QED BY <1>1, <2>1
<1>2. CASE S # {}
  <2>1. IsFiniteSet(S) /\ S \subseteq Nat
    BY FS_Subset
  <2>2. PICK x \in S : \A y \in S : y <= x
    BY <1>2, <2>1, GreatestNatural
  <2> DEFINE T == {y \in DOMAIN bag : y <= x}
  <2>3. T \subseteq Lat /\ S \subseteq T
    BY <2>2
  <2> HIDE DEF T
  <2>4. /\ SumFunctionOnSet(bag, S) \in Nat /\ SumFunctionOnSet(bag, T) \in Nat
        /\ SumFunctionOnSet(bag, S) <= SumFunctionOnSet(bag, T)
    BY <2>3, Counts
  <2>5. 1000 * SumFunctionOnSet(bag, T) < c
    BY <2>2 DEF T, UpTo
  <2> QED BY <2>4, <2>5
<1> QED BY <1>1, <1>2

-----------------------------------------------------------------------------
(* Percentiles.                                                            *)

\* The nearest rank lies in the answers, and the latency there is the least within
\* which the share p was answered.
LEMMA PctLeast ==
    ASSUME NEW bag \in [Lat -> Nat], Answered(bag) > 0, NEW p \in Pcts
    PROVE  /\ Pct(bag, p) \in Lat
           /\ 1000 * UpTo(bag, Pct(bag, p)) >= p * Answered(bag)
           /\ \A x \in Lat : 1000 * UpTo(bag, x) >= p * Answered(bag) => Pct(bag, p) <= x
<1> DEFINE n == Answered(bag)
           S == {l \in Lat : UpTo(bag, l) > PctIndex(n, p)}
<1>1. n \in Nat \ {0} /\ p \in 1..1000
  BY AnsweredIs
<1>2. \A l \in Lat : UpTo(bag, l) \in Nat
  BY UpToGrows
<1> DEFINE a == p * n
<1>3. /\ PctIndex(n, p) \in 0..(n - 1)
      /\ \A u \in Nat : u > PctIndex(n, p) <=> 1000 * u >= a
  <2> HIDE DEF n
  <2>1. a \in Nat \ {0} /\ a <= 1000 * n
    BY <1>1
  <2>2. PctIndex(n, p) = LET i == (a + 999) \div 1000 - 1
                         IN  IF i < 0 THEN 0 ELSE IF i >= n THEN n - 1 ELSE i
    BY DEF PctIndex
  <2> HIDE DEF a
  <2> QED BY <1>1, <2>1, <2>2
<1>4. \A l \in Lat : l \in S <=> 1000 * UpTo(bag, l) >= p * n
  <2> HIDE DEF a
  <2>1. \A l \in Lat : UpTo(bag, l) > PctIndex(n, p) <=> 1000 * UpTo(bag, l) >= a
    BY <1>2, <1>3
  <2> QED BY <2>1 DEF a
<1>5. Lat # {}
  BY <1>1, NoLatency DEF Answered, UpTo
<1>6. PICK x \in Lat : \A y \in Lat : y <= x
  BY <1>5, GreatestNatural
<1>7. x = Max(Lat)
  <2>1. Max(Lat) \in Lat /\ \A y \in Lat : Max(Lat) >= y
    BY <1>6 DEF Max
  <2>2. x <= Max(Lat) /\ Max(Lat) <= x /\ x \in Nat /\ Max(Lat) \in Nat
    BY <1>6, <2>1
  <2> QED BY <2>2
<1>8. x \in S
  BY <1>1, <1>3, <1>7 DEF Answered
<1>9. Pct(bag, p) = Min(S)
  BY <1>1 DEF Pct
<1>10. S \subseteq Lat
  OBVIOUS
<1> HIDE DEF S, n
<1>11. Min(S) \in S /\ \A y \in S : Min(S) <= y
  BY <1>8, <1>10, LeastNatural DEF Min
<1>12. /\ Pct(bag, p) \in Lat /\ 1000 * UpTo(bag, Pct(bag, p)) >= p * n
       /\ \A y \in Lat : 1000 * UpTo(bag, y) >= p * n => Pct(bag, p) <= y
  <2>1. Min(S) \in Lat /\ 1000 * UpTo(bag, Min(S)) >= p * n
    BY <1>4, <1>10, <1>11
  <2>2. ASSUME NEW y \in Lat, 1000 * UpTo(bag, y) >= p * n PROVE Min(S) <= y
    BY <1>4, <1>11, <2>2
  <2> QED BY <1>9, <2>1, <2>2
<1> QED BY <1>12 DEF n

\* Pct is the latency within which the share p was answered, and not before.
LEMMA PctIs ==
    ASSUME NEW bag \in [Lat -> Nat], NEW p \in Pcts, NEW l \in Lat
    PROVE  IsPct(bag, p, l) <=> Answered(bag) > 0 /\ Pct(bag, p) = l
<1> DEFINE c == p * Answered(bag)
<1>0. /\ Answered(bag) \in Nat /\ l \in Nat /\ l - 1 \in Int
      /\ UpTo(bag, l) \in Nat /\ UpTo(bag, l - 1) \in Nat
  BY AnsweredIs, UpToGrows
<1>1. CASE Answered(bag) = 0
  BY <1>0, <1>1 DEF IsPct
<1>2. CASE Answered(bag) # 0
  <2>0. Answered(bag) > 0 /\ c \in Nat \ {0}
    <3>1. PICK n \in Nat \ {0} : n = Answered(bag)
      BY <1>0, <1>2
    <3>2. p * n \in Nat \ {0}
      OBVIOUS
    <3> QED BY <3>1, <3>2
  <2>1. /\ Pct(bag, p) \in Lat /\ 1000 * UpTo(bag, Pct(bag, p)) >= c
        /\ \A x \in Lat : 1000 * UpTo(bag, x) >= c => Pct(bag, p) <= x
    BY <2>0, PctLeast
  <2> HIDE DEF c
  <2>2. ASSUME 1000 * UpTo(bag, l) >= c, 1000 * UpTo(bag, l - 1) < c
        PROVE  Pct(bag, p) = l
    <3>1. Pct(bag, p) <= l /\ Pct(bag, p) \in Nat
      <4>1. Pct(bag, p) \in Lat
        BY <2>1
      <4>2. Pct(bag, p) <= l
        BY <2>1, <2>2
      <4> QED BY <4>1, <4>2
    <3>2. ASSUME Pct(bag, p) <= l - 1 PROVE FALSE
      <4>1. UpTo(bag, Pct(bag, p)) \in Nat /\ UpTo(bag, Pct(bag, p)) <= UpTo(bag, l - 1)
        BY <1>0, <3>1, <3>2, UpToGrows
      <4> QED BY <1>0, <2>0, <2>1, <2>2, <4>1
    <3> QED BY <1>0, <3>1, <3>2
  <2>3. ASSUME Pct(bag, p) = l
        PROVE  1000 * UpTo(bag, l) >= c /\ 1000 * UpTo(bag, l - 1) < c
    <3> DEFINE S == {x \in DOMAIN bag : x <= l - 1}
    <3>1. S \in SUBSET Lat
      OBVIOUS
    <3>2. \A x \in S : 1000 * UpTo(bag, x) < c
      <4> SUFFICES ASSUME NEW x \in S PROVE 1000 * UpTo(bag, x) < c
        OBVIOUS
      <4>1. x \in Lat /\ x \in Nat /\ x <= l - 1
        OBVIOUS
      <4>2. UpTo(bag, x) \in Nat /\ ~(l <= x)
        BY <1>0, <4>1, UpToGrows
      <4> QED BY <2>0, <2>1, <2>3, <4>1, <4>2
    <3> HIDE DEF S
    <3>3. 1000 * SumFunctionOnSet(bag, S) < c
      BY <2>0, <3>1, <3>2, Below
    <3> QED BY <2>1, <2>3, <3>3 DEF UpTo, S
  <2> QED BY <2>0, <2>2, <2>3 DEF IsPct, c
<1> QED BY <1>0, <1>1, <1>2

\* The share p of the fresh queries took no more than l and the tolerance just if
\* the percentile does not drift from l by more.
LEMMA WithinIs ==
    ASSUME NEW bag \in [Lat -> Nat], NEW p \in Pcts, NEW l \in Lat
    PROVE  Within(bag, p, l) <=> ~((Pct(bag, p) - l) * 100 > Tol * l)
<1> DEFINE c == p * Answered(bag)
           S == {x \in DOMAIN bag : (x - l) * 100 <= Tol * l}
           q == Pct(bag, p)
           t == Tol * l
<1>0. /\ Answered(bag) \in Nat /\ l \in Nat /\ p \in Nat /\ t \in Nat
      /\ S \in SUBSET Lat /\ SumFunctionOnSet(bag, S) \in Nat
  <2>1. S \in SUBSET Lat
    OBVIOUS
  <2> QED BY <2>1, AnsweredIs
<1>1. Within(bag, p, l) <=> 1000 * SumFunctionOnSet(bag, S) >= c
  BY DEF Within
<1>2. CASE Answered(bag) = 0
  <2>1. c = 0 /\ q = 0
    BY <1>0, <1>2 DEF Pct
  <2> HIDE DEF S, c, q, t
  <2>2. ~((q - l) * 100 > t) /\ 1000 * SumFunctionOnSet(bag, S) >= c
    BY <1>0, <2>1
  <2> QED BY <1>1, <2>2 DEF q, t
<1>3. CASE Answered(bag) # 0
  <2>0. Answered(bag) > 0 /\ c \in Nat \ {0}
    <3>1. PICK n \in Nat \ {0} : n = Answered(bag)
      BY <1>0, <1>3
    <3>2. p * n \in Nat \ {0}
      OBVIOUS
    <3> QED BY <3>1, <3>2
  <2>1. /\ q \in Lat /\ 1000 * UpTo(bag, q) >= c
        /\ \A x \in Lat : 1000 * UpTo(bag, x) >= c => q <= x
    BY <2>0, PctLeast
  <2>2. q \in Nat
    BY <2>1
  <2> HIDE DEF c, q
  <2>3. ASSUME ~((q - l) * 100 > t)
        PROVE  1000 * SumFunctionOnSet(bag, S) >= c
    <3> DEFINE T == {x \in DOMAIN bag : x <= q}
    <3>1. T \subseteq S
      <4> SUFFICES ASSUME NEW x \in T PROVE (x - l) * 100 <= t
        OBVIOUS
      <4>1. x \in Nat /\ x <= q
        OBVIOUS
      <4> HIDE DEF t
      <4> QED BY <1>0, <2>2, <2>3, <4>1
    <3>2. S \subseteq Lat
      OBVIOUS
    <3> HIDE DEF S, T
    <3>3. /\ SumFunctionOnSet(bag, T) \in Nat /\ SumFunctionOnSet(bag, S) \in Nat
          /\ SumFunctionOnSet(bag, T) <= SumFunctionOnSet(bag, S)
      BY <3>1, <3>2, Counts
    <3>4. 1000 * SumFunctionOnSet(bag, T) >= c
      BY <2>1 DEF UpTo, T
    <3> QED BY <2>0, <3>3, <3>4
  <2>4. ASSUME (q - l) * 100 > t
        PROVE  1000 * SumFunctionOnSet(bag, S) < c
    <3>1. \A x \in S : 1000 * UpTo(bag, x) < c
      <4> SUFFICES ASSUME NEW x \in S PROVE 1000 * UpTo(bag, x) < c
        OBVIOUS
      <4>1. x \in Lat /\ x \in Nat /\ (x - l) * 100 <= t
        OBVIOUS
      <4>2. UpTo(bag, x) \in Nat
        BY <4>1, UpToGrows
      <4>3. ~(q <= x)
        <5> HIDE DEF t
        <5> QED BY <1>0, <2>2, <2>4, <4>1
      <4> QED BY <2>0, <2>1, <4>1, <4>2, <4>3
    <3> HIDE DEF S
    <3> QED BY <1>0, <2>0, <3>1, Below
  <2>5. 1000 * SumFunctionOnSet(bag, S) >= c <=> ~((q - l) * 100 > t)
    <3> HIDE DEF S, t
    <3> QED BY <1>0, <2>0, <2>3, <2>4
  <2> QED BY <1>1, <2>5 DEF q
<1> QED BY <1>0, <1>2, <1>3

\* At one percentile the fresh run is no slower just if its drift does not count
\* or is within the tolerance.
LEMMA NoSlowerIs ==
    ASSUME NEW b \in [Lat -> Nat], NEW f \in [Lat -> Nat], NEW p \in Pcts
    PROVE  (\A l \in Lat : l >= Floor /\ IsPct(b, p, l) => Within(f, p, l))
              <=> (Pct(b, p) >= Floor => ~((Pct(f, p) - Pct(b, p)) * 100 > Tol * Pct(b, p)))
<1>1. \A l \in Lat : IsPct(b, p, l) <=> Answered(b) > 0 /\ Pct(b, p) = l
  BY PctIs
<1>2. CASE Answered(b) > 0
  <2>1. PICK l \in Lat : l = Pct(b, p)
    <3>1. Pct(b, p) \in Lat
      BY <1>2, PctLeast
    <3> QED BY <3>1
  <2>2. Within(f, p, l) <=> ~((Pct(f, p) - l) * 100 > Tol * l)
    BY WithinIs
  <2> QED BY <1>1, <1>2, <2>1, <2>2
<1>3. CASE ~(Answered(b) > 0)
  <2>1. Answered(b) = 0
    BY <1>3, AnsweredIs
  <2>2. ~(Pct(b, p) >= Floor)
    BY <2>1 DEF Pct
  <2> QED BY <1>1, <1>3, <2>2
<1> QED BY <1>2, <1>3

-----------------------------------------------------------------------------
(* Rates.                                                                  *)

LEMMA Factor ==
    ASSUME NEW x \in Int, NEW y \in Int, NEW k \in Nat \ {0}
    PROVE  x * k < y * k <=> x < y
OBVIOUS

\* Two amounts b and f, of wb and wf seconds that divide the scale v times and u
\* times: the scaled rates drift by more than t just if the amounts per second do.
LEMMA RateDrift ==
    ASSUME NEW b \in Nat, NEW f \in Nat, NEW t \in Nat,
           NEW wb \in Nat \ {0}, NEW wf \in Nat \ {0},
           NEW v \in Nat \ {0}, NEW u \in Nat \ {0}, wb * v = wf * u
    PROVE  (b * v - f * u) * 100 > t * (b * v)
              <=> ~(100 * f * wb >= (100 - t) * b * wf)
<1> DEFINE bv == b * v
           fu == f * u
           tbv == t * bv
           y == (100 - t) * b * wf
           x == 100 * f * wb
<1>1. bv \in Int /\ fu \in Int /\ tbv \in Int /\ x \in Int /\ y \in Int
  OBVIOUS
<1>2. x * v = (100 * fu) * wf
  <2>1. x * v = (100 * f) * (wb * v)
    OBVIOUS
  <2>2. (100 * f) * (wf * u) = (100 * fu) * wf
    OBVIOUS
  <2> QED BY <2>1, <2>2
<1>3. y * v = (100 * bv - tbv) * wf
  <2>1. y * v = ((100 - t) * bv) * wf
    OBVIOUS
  <2>2. (100 - t) * bv = 100 * bv - tbv
    OBVIOUS
  <2> QED BY <2>1, <2>2
<1> HIDE DEF bv, fu, tbv, x, y
<1>4. x * v < y * v <=> x < y
  BY <1>1, Factor
<1>5. (100 * fu) * wf < (100 * bv - tbv) * wf <=> 100 * fu < 100 * bv - tbv
  <2>1. 100 * fu \in Int /\ 100 * bv - tbv \in Int
    BY <1>1
  <2> QED BY <2>1, Factor
<1>6. (bv - fu) * 100 > tbv <=> ~(x >= y)
  BY <1>1, <1>2, <1>3, <1>4, <1>5
<1> QED BY <1>6 DEF bv, fu, tbv, x, y

PerSec(a, w) == (a * Scale) \div w
Drifted(rb, rf) == (rb - rf) * 100 > Tol * rb
Slower(b, f, wb, wf) == ~(100 * f * wb >= (100 - Tol) * b * wf)

\* A rate of the report, with the number of times the seconds divide the scale.
LEMMA RateIs ==
    ASSUME NEW a \in Nat, NEW w \in Nat \ {0}, Scale % w = 0
    PROVE  \E v \in Nat \ {0} : Scale = w * v /\ PerSec(a, w) = a * v
<1> DEFINE v == Scale \div w
<1>1. Scale = w * v /\ v \in Nat
  OBVIOUS
<1> HIDE DEF v
<1>2. v # 0
  BY <1>1
<1>3. a * Scale = w * (a * v)
  BY <1>1
<1>4. (w * (a * v)) \div w = a * v
  <2> DEFINE z == a * v
  <2>1. z \in Nat
    BY <1>1
  <2> HIDE DEF z
  <2>2. (w * z) \div w = z
    BY <2>1
  <2> QED BY <2>2 DEF z
<1> QED BY <1>1, <1>2, <1>3, <1>4 DEF PerSec

\* One rate of two reports, whose durations are not 0.
LEMMA SameRate ==
    ASSUME NEW b \in Nat, NEW f \in Nat, NEW wb \in Nat \ {0}, NEW wf \in Nat \ {0},
           Scale % wb = 0, Scale % wf = 0
    PROVE  IF PerSec(b, wb) > 0
           THEN Drifted(PerSec(b, wb), PerSec(f, wf)) <=> Slower(b, f, wb, wf)
           ELSE ~Slower(b, f, wb, wf)
<1>1. PICK v \in Nat \ {0} : Scale = wb * v /\ PerSec(b, wb) = b * v
  BY RateIs
<1>2. PICK u \in Nat \ {0} : Scale = wf * u /\ PerSec(f, wf) = f * u
  BY RateIs
<1>3. (b * v - f * u) * 100 > Tol * (b * v) <=> Slower(b, f, wb, wf)
  <2>1. wb * v = wf * u /\ Tol \in Nat
    BY <1>1, <1>2
  <2> QED BY <2>1, RateDrift DEF Slower
<1>4. ASSUME ~(PerSec(b, wb) > 0) PROVE ~Slower(b, f, wb, wf)
  <2>1. b = 0
    BY <1>1, <1>4
  <2>2. (100 - Tol) * b = 0 /\ 100 * f * wb \in Nat
    BY <2>1
  <2>3. (100 - Tol) * b * wf = 0
    BY <2>2
  <2> QED BY <2>2, <2>3 DEF Slower
<1> QED BY <1>1, <1>2, <1>3, <1>4 DEF Drifted

-----------------------------------------------------------------------------
(* What bench-regress finds in two reports, and what the queries say.      *)

Fails(x, y) == \E d \in Drifts(Report(x), Report(y)) : Regressed(d)

RatesFail(x, y) == \E d \in Rates(Report(x), Report(y)) : Regressed(d)

LEMMA RatesPass ==
    ASSUME NEW x \in BaseRaw, NEW y \in FreshRaw
    PROVE  /\ ~RatesFail(x, y) => IndexedAsFast(x, y)
           /\ RatesFail(x, y) => y.wall = 0 \/ ~IndexedAsFast(x, y)
<1> DEFINE b == Report(x)
           f == Report(y)
<1>0. /\ x.docs \in Nat /\ x.chunks \in Nat /\ x.wall \in Nat
      /\ y.docs \in Nat /\ y.chunks \in Nat /\ y.wall \in Nat
      /\ (x.wall > 0 => Scale % x.wall = 0) /\ (y.wall > 0 => Scale % y.wall = 0)
  OBVIOUS
<1>1. RatesFail(x, y) <=> \/ b["docsS"] > 0 /\ Drifted(b["docsS"], f["docsS"])
                          \/ b["chunksS"] > 0 /\ Drifted(b["chunksS"], f["chunksS"])
  <2> HIDE DEF b, f
  <2>1. RatesFail(x, y) <=>
          \E r \in {"docsS", "chunksS"} :
             b[r] > 0 /\ Regressed([by |-> b[r] - f[r], of |-> b[r]])
    BY DEF RatesFail, Rates, b, f
  <2> QED BY <2>1 DEF Regressed, Drifted
<1>2. /\ b["docsS"] = IF x.wall > 0 THEN PerSec(x.docs, x.wall) ELSE 0
      /\ f["docsS"] = IF y.wall > 0 THEN PerSec(y.docs, y.wall) ELSE 0
      /\ b["chunksS"] = IF x.wall > 0 THEN PerSec(x.chunks, x.wall) ELSE 0
      /\ f["chunksS"] = IF y.wall > 0 THEN PerSec(y.chunks, y.wall) ELSE 0
  BY DEF Report, DocsPerSec, ChunksPerSec, PerSec
<1>3. IndexedAsFast(x, y) <=> (x.wall > 0 /\ y.wall > 0 =>
                                  /\ ~Slower(x.docs, y.docs, x.wall, y.wall)
                                  /\ ~Slower(x.chunks, y.chunks, x.wall, y.wall))
  BY DEF IndexedAsFast, Slower
<1> HIDE DEF b, f
<1>4. CASE x.wall > 0 /\ y.wall > 0
  <2>0. /\ x.wall \in Nat \ {0} /\ y.wall \in Nat \ {0}
        /\ Scale % x.wall = 0 /\ Scale % y.wall = 0
    BY <1>0, <1>4
  <2>1. IF PerSec(x.docs, x.wall) > 0
        THEN Drifted(PerSec(x.docs, x.wall), PerSec(y.docs, y.wall))
               <=> Slower(x.docs, y.docs, x.wall, y.wall)
        ELSE ~Slower(x.docs, y.docs, x.wall, y.wall)
    BY <1>0, <2>0, SameRate
  <2>2. IF PerSec(x.chunks, x.wall) > 0
        THEN Drifted(PerSec(x.chunks, x.wall), PerSec(y.chunks, y.wall))
               <=> Slower(x.chunks, y.chunks, x.wall, y.wall)
        ELSE ~Slower(x.chunks, y.chunks, x.wall, y.wall)
    BY <1>0, <2>0, SameRate
  <2> QED BY <1>1, <1>2, <1>3, <1>4, <2>1, <2>2
<1>5. CASE ~(x.wall > 0)
  BY <1>1, <1>2, <1>3, <1>5
<1>6. CASE ~(y.wall > 0)
  BY <1>0, <1>3, <1>6
<1> QED BY <1>4, <1>5, <1>6

LEMMA LatenciesOf ==
    ASSUME NEW b, NEW f
    PROVE  (\E d \in Latencies(b, f) : Regressed(d))
              <=> \E m \in DOMAIN b.modes \cap DOMAIN f.modes : \E p \in Pcts :
                     /\ b.modes[m][p] >= Floor
                     /\ (f.modes[m][p] - b.modes[m][p]) * 100 > Tol * b.modes[m][p]
<1> DEFINE D(m, p) == [by |-> f.modes[m][p] - b.modes[m][p], of |-> b.modes[m][p]]
<1>1. (\E d \in Latencies(b, f) : Regressed(d))
         <=> \E m \in DOMAIN b.modes \cap DOMAIN f.modes : \E p \in Pcts :
                b.modes[m][p] >= Floor /\ Regressed(D(m, p))
  <2> DEFINE M == DOMAIN b.modes \cap DOMAIN f.modes
             P(m) == {x \in Pcts : b.modes[m][x] >= Floor}
  <2>1. Latencies(b, f) = UNION {{D(m, p) : p \in P(m)} : m \in M}
    BY DEF Latencies
  <2> HIDE DEF D, M, Regressed
  <2>2. \A d : d \in Latencies(b, f) <=> \E m \in M : \E p \in P(m) : d = D(m, p)
    <3> HIDE DEF P
    <3> QED BY <2>1
  <2>3. (\E d \in Latencies(b, f) : Regressed(d)) <=> \E m \in M : \E p \in P(m) : Regressed(D(m, p))
    <3> HIDE DEF P, M
    <3>1. ASSUME NEW d \in Latencies(b, f), Regressed(d)
          PROVE  \E m \in M : \E p \in P(m) : Regressed(D(m, p))
      <4>1. PICK m \in M : \E p \in P(m) : d = D(m, p)
        BY <2>2
      <4>2. PICK p \in P(m) : d = D(m, p)
        BY <4>1
      <4>3. Regressed(D(m, p))
        BY <3>1, <4>2
      <4> QED BY <4>3
    <3>2. ASSUME NEW m \in M, NEW p \in P(m), Regressed(D(m, p))
          PROVE  \E d \in Latencies(b, f) : Regressed(d)
      <4>1. D(m, p) \in Latencies(b, f)
        BY <2>2
      <4> QED BY <3>2, <4>1
    <3> QED BY <3>1, <3>2
  <2> QED BY <2>3 DEF M
<1>2. \A m, p : Regressed(D(m, p))
                   <=> (f.modes[m][p] - b.modes[m][p]) * 100 > Tol * b.modes[m][p]
  BY DEF Regressed
<1> QED BY <1>1, <1>2

LEMMA LatenciesPass ==
    ASSUME NEW x \in BaseRaw, NEW y \in FreshRaw
    PROVE  (\E d \in Latencies(Report(x), Report(y)) : Regressed(d))
              <=> \E m \in DOMAIN x.modes \cap DOMAIN y.modes : ~NoSlower(x.modes[m], y.modes[m])
<1> DEFINE b(m, p) == Pct(x.modes[m], p)
           f(m, p) == Pct(y.modes[m], p)
           both == DOMAIN x.modes \cap DOMAIN y.modes
<1>1. /\ DOMAIN Report(x).modes = DOMAIN x.modes
      /\ DOMAIN Report(y).modes = DOMAIN y.modes
      /\ \A m \in both, p \in Pcts : /\ Report(x).modes[m][p] = b(m, p)
                                     /\ Report(y).modes[m][p] = f(m, p)
  BY DEF Report
<1>2. (\E d \in Latencies(Report(x), Report(y)) : Regressed(d))
         <=> \E m \in both : \E p \in Pcts :
                b(m, p) >= Floor /\ (f(m, p) - b(m, p)) * 100 > Tol * b(m, p)
  <2> DEFINE bx == Report(x)
             fy == Report(y)
  <2>1. (\E d \in Latencies(bx, fy) : Regressed(d))
           <=> \E m \in DOMAIN bx.modes \cap DOMAIN fy.modes : \E p \in Pcts :
                  /\ bx.modes[m][p] >= Floor
                  /\ (fy.modes[m][p] - bx.modes[m][p]) * 100 > Tol * bx.modes[m][p]
    BY LatenciesOf
  <2>2. /\ DOMAIN bx.modes \cap DOMAIN fy.modes = both
        /\ \A m \in both, p \in Pcts :
              bx.modes[m][p] = b(m, p) /\ fy.modes[m][p] = f(m, p)
    BY <1>1
  <2> HIDE DEF bx, fy, b, f, both
  <2>3. (\E d \in Latencies(bx, fy) : Regressed(d))
         <=> \E m \in both : \E p \in Pcts :
                b(m, p) >= Floor /\ (f(m, p) - b(m, p)) * 100 > Tol * b(m, p)
    <3> DEFINE Seen(m, p) ==
                  /\ bx.modes[m][p] >= Floor
                  /\ (fy.modes[m][p] - bx.modes[m][p]) * 100 > Tol * bx.modes[m][p]
               Real(m, p) ==
                  b(m, p) >= Floor /\ (f(m, p) - b(m, p)) * 100 > Tol * b(m, p)
    <3>1. ASSUME NEW m \in both, NEW p \in Pcts
          PROVE  Seen(m, p) <=> Real(m, p)
      <4>1. bx.modes[m][p] = b(m, p) /\ fy.modes[m][p] = f(m, p)
        BY <2>2
      <4> QED BY <4>1
    <3>2. (\E d \in Latencies(bx, fy) : Regressed(d))
             <=> \E m \in both : \E p \in Pcts : Seen(m, p)
      BY <2>1, <2>2
    <3> HIDE DEF Seen, Real
    <3>3. (\E d \in Latencies(bx, fy) : Regressed(d))
             <=> \E m \in both : \E p \in Pcts : Real(m, p)
      BY <3>1, <3>2
    <3> QED BY <3>3 DEF Real
  <2> QED BY <2>3 DEF bx, fy
<1>4. \A m \in both : x.modes[m] \in [Lat -> Nat] /\ y.modes[m] \in [Lat -> Nat]
  OBVIOUS
<1>5. \A m \in both :
         NoSlower(x.modes[m], y.modes[m])
            <=> \A p \in Pcts : b(m, p) >= Floor
                                  => ~((f(m, p) - b(m, p)) * 100 > Tol * b(m, p))
  <2> SUFFICES ASSUME NEW m \in both
               PROVE  NoSlower(x.modes[m], y.modes[m])
                         <=> \A p \in Pcts : b(m, p) >= Floor
                                  => ~((f(m, p) - b(m, p)) * 100 > Tol * b(m, p))
    OBVIOUS
  <2> DEFINE u == x.modes[m]
             v == y.modes[m]
  <2>1. u \in [Lat -> Nat] /\ v \in [Lat -> Nat]
    BY <1>4
  <2> HIDE DEF u, v
  <2>2. \A p \in Pcts :
           (\A l \in Lat : l >= Floor /\ IsPct(u, p, l) => Within(v, p, l))
              <=> (Pct(u, p) >= Floor => ~((Pct(v, p) - Pct(u, p)) * 100 > Tol * Pct(u, p)))
    BY <2>1, NoSlowerIs
  <2>3. NoSlower(u, v)
           <=> \A p \in Pcts : Pct(u, p) >= Floor
                                  => ~((Pct(v, p) - Pct(u, p)) * 100 > Tol * Pct(u, p))
    BY <2>2 DEF NoSlower
  <2> QED BY <2>3 DEF u, v
<1> HIDE DEF b, f, both
<1>6. (\E d \in Latencies(Report(x), Report(y)) : Regressed(d))
         <=> \E m \in both : ~NoSlower(x.modes[m], y.modes[m])
  BY <1>2, <1>5
<1> QED BY <1>6 DEF both

LEMMA ModesMissing ==
    ASSUME NEW x \in BaseRaw, NEW y \in FreshRaw
    PROVE  (\E d \in Missing(Report(x), Report(y)) : Regressed(d))
              <=> ~(DOMAIN x.modes \subseteq DOMAIN y.modes)
<1>1. Regressed([by |-> 1, of |-> 0])
  <2>1. Tol * 0 = 0
    OBVIOUS
  <2> QED BY <2>1 DEF Regressed
<1>2. /\ DOMAIN Report(x).modes = DOMAIN x.modes
      /\ DOMAIN Report(y).modes = DOMAIN y.modes
  BY DEF Report
<1>3. (\E d \in Missing(Report(x), Report(y)) : Regressed(d))
         <=> \E m \in DOMAIN x.modes \ DOMAIN y.modes : Regressed([by |-> 1, of |-> 0])
  BY <1>2 DEF Missing
<1> QED BY <1>1, <1>3

LEMMA GateIs ==
    ASSUME NEW x \in BaseRaw, NEW y \in FreshRaw
    PROVE  /\ ~Fails(x, y) =>
                 /\ DOMAIN x.modes \subseteq DOMAIN y.modes
                 /\ IndexedAsFast(x, y)
                 /\ \A m \in DOMAIN x.modes : NoSlower(x.modes[m], y.modes[m])
           /\ Fails(x, y) =>
                 \/ ~(DOMAIN x.modes \subseteq DOMAIN y.modes)
                 \/ y.wall = 0 \/ ~IndexedAsFast(x, y)
                 \/ \E m \in DOMAIN x.modes \cap DOMAIN y.modes :
                       ~NoSlower(x.modes[m], y.modes[m])
<1>1. Fails(x, y) <=> \/ RatesFail(x, y)
                      \/ \E d \in Missing(Report(x), Report(y)) : Regressed(d)
                      \/ \E d \in Latencies(Report(x), Report(y)) : Regressed(d)
  BY DEF Fails, RatesFail, Drifts
<1>2. \/ ~RatesFail(x, y) /\ IndexedAsFast(x, y)
      \/ RatesFail(x, y) /\ (y.wall = 0 \/ ~IndexedAsFast(x, y))
  BY RatesPass
<1> QED BY <1>1, <1>2, ModesMissing, LatenciesPass

-----------------------------------------------------------------------------
(* The gate's verdict is about the runs as they were, whatever comes first. *)

GateInv ==
    /\ raw \in [base : BaseRaw, fresh : FreshRaw]
    /\ result = [r \in Runs |-> result[r]]
    /\ \A r \in Runs : result[r] \in {NotRun, Unwritten, Report(raw[r])}
    /\ exit = "ok" => ~Fails(raw.base, raw.fresh)
    /\ exit = "fail" => Fails(raw.base, raw.fresh)

LEMMA GateInit == Init => GateInv
BY DEF Init, GateInv

LEMMA GateStep == GateInv /\ [Next]_vars => GateInv'
<1> SUFFICES ASSUME GateInv, [Next]_vars PROVE GateInv'
  OBVIOUS
<1> USE DEF GateInv
<1>1. ASSUME NEW r \in Runs, Bench(r) PROVE GateInv'
  BY <1>1 DEF Bench
<1>2. ASSUME NEW r \in Runs, BenchFails(r) PROVE GateInv'
  BY <1>2 DEF BenchFails
<1>3. CASE LoadFails
  BY <1>3 DEF LoadFails
<1>4. CASE Compare
  <2>1. /\ raw' = raw /\ result' = result
        /\ result["base"] = Report(raw["base"]) /\ result["fresh"] = Report(raw["fresh"])
    BY <1>4 DEF Compare, Runs
  <2>2. /\ exit' = "ok" => ~Fails(raw.base, raw.fresh)
        /\ exit' = "fail" => Fails(raw.base, raw.fresh)
    <3>1. Fails(raw.base, raw.fresh)
            <=> \E d \in Drifts(result["base"], result["fresh"]) : Regressed(d)
      BY <2>1 DEF Fails
    <3> QED BY <1>4, <3>1 DEF Compare
  <2> QED BY <2>1, <2>2
<1>5. CASE UNCHANGED vars
  BY <1>5 DEF vars
<1> QED BY <1>1, <1>2, <1>3, <1>4, <1>5 DEF Next

LEMMA GateAlways == Spec => []GateInv
BY GateInit, GateStep, PTL DEF Spec

\* A green gate says of the queries, documents and chunks themselves that the
\* fresh run lost no mode, indexed as fast and answered as fast.
THEOREM GreenMeansFast == Spec => []PassIsAsFast
<1>1. GateInv => PassIsAsFast
  <2> SUFFICES ASSUME GateInv, exit = "ok" PROVE PassIsAsFast
    BY DEF PassIsAsFast
  <2>1. raw.base \in BaseRaw /\ raw.fresh \in FreshRaw /\ ~Fails(raw.base, raw.fresh)
    BY DEF GateInv
  <2> QED BY <2>1, GateIs DEF PassIsAsFast
<1> QED BY <1>1, GateAlways, PTL

\* A red gate has a cause in the runs: a lost mode, a slower index phase or a
\* slower mode, never noise below the floor.
THEOREM RedHasCause == Spec => []FailHasCause
<1>1. GateInv => FailHasCause
  <2> SUFFICES ASSUME GateInv, exit = "fail" PROVE FailHasCause
    BY DEF FailHasCause
  <2>1. raw.base \in BaseRaw /\ raw.fresh \in FreshRaw /\ Fails(raw.base, raw.fresh)
    BY DEF GateInv
  <2> QED BY <2>1, GateIs DEF FailHasCause
<1> QED BY <1>1, GateAlways, PTL
=============================================================================
