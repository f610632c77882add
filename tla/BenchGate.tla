----------------------------- MODULE BenchGate -----------------------------
(***************************************************************************)
(* The regression gate of CI: two runs of bench/bench.go, a baseline and a *)
(* fresh one, and cmd/bench-regress, which compares what they wrote.       *)
(*                                                                         *)
(* What a run meets is `raw': the seconds and the chunks of its index      *)
(* phase, and by mode how many queries took how long (the rest failed).    *)
(* Queries run one after the other, so their order does not matter; rates  *)
(* are scaled by Scale, percentiles are in thousandths, and a tolerance of *)
(* 0.30 is 30.  Up to 100000 queries, ceil(p * N) in float64 is exact.     *)
(* Drifts are exact quotients here and float64 in main.go, where a drift   *)
(* of exactly the tolerance may come out above it: from 1.0 ms to 1.3 ms   *)
(* at 0.30 the program fails, and this gate passes.                        *)
(***************************************************************************)
EXTENDS Integers, FiniteSets, FiniteSetsExt, Functions

CONSTANTS
    Lat,        \* latencies
    Floor,      \* -min-latency-ms
    Tol,        \* -tol, in hundredths
    Pcts,       \* the percentiles reported: 500, 950, 990, 999
    Queries,    \* -queries
    Scale,      \* a multiple of all durations of the index phase
    BaseRaw, FreshRaw   \* what the two runs may meet

ASSUME BenchAssumption ==
    /\ Lat \subseteq Nat \ {0} /\ IsFiniteSet(Lat) /\ Pcts \subseteq 1..1000
    /\ Floor \in Nat \ {0} /\ Tol \in Nat /\ Queries \in Nat /\ Scale \in Nat \ {0}
    /\ \A x \in BaseRaw \union FreshRaw :
          /\ x.docs \in Nat /\ x.chunks \in Nat
          /\ x.wall \in Nat /\ (x.wall > 0 => Scale % x.wall = 0)
          /\ \A m \in DOMAIN x.modes : x.modes[m] \in [Lat -> Nat]

VARIABLES
    raw,        \* what each run meets
    result,     \* the JSON file of each run
    exit        \* of bench-regress: "none" before, then "ok", "fail", "refused"

vars == <<raw, result, exit>>

Runs      == {"base", "fresh"}
NotRun    == [docs |-> -1]
Unwritten == [docs |-> -2]

Init ==
    /\ raw \in [base : BaseRaw, fresh : FreshRaw]
    /\ result = [r \in Runs |-> NotRun]
    /\ exit = "none"

(***************************************************************************)
(* bench.                                                                  *)
(***************************************************************************)
UpTo(bag, l) == SumFunctionOnSet(bag, {x \in DOMAIN bag : x <= l})
Answered(bag) == UpTo(bag, Max(Lat))

\* mutant: the rank is rounded down
RankFloored(n, p) == LET i == (p * n) \div 1000 - 1 IN IF i < 0 THEN 0 ELSE i

\* The place, from 0, of the nearest rank.
PctIndex(n, p) ==
    LET i == (p * n + 999) \div 1000 - 1
    IN  IF i < 0 THEN 0 ELSE IF i >= n THEN n - 1 ELSE i

\* sorted[PctIndex], 0 for a mode without answers.
Pct(bag, p) ==
    IF Answered(bag) = 0 THEN 0
    ELSE Min({l \in DOMAIN bag : UpTo(bag, l) > PctIndex(Answered(bag), p)})

\* The documents of -docs count whether they were indexed or not, ...
DocsPerSec(x) == IF x.wall > 0 THEN (x.docs * Scale) \div x.wall ELSE 0

\* ... the chunks only of those that UpsertDoc took.
ChunksPerSec(x) == IF x.wall > 0 THEN (x.chunks * Scale) \div x.wall ELSE 0

Report(x) ==
    [docs |-> x.docs, docsS |-> DocsPerSec(x), chunksS |-> ChunksPerSec(x),
     modes |-> [m \in DOMAIN x.modes |-> [p \in Pcts |-> Pct(x.modes[m], p)]]]

Bench(r) ==
    /\ result[r] = NotRun
    /\ result' = [result EXCEPT ![r] = Report(raw[r])]
    /\ UNCHANGED <<raw, exit>>

\* The database or the sidecar is not there, or the file cannot be written.
BenchFails(r) ==
    /\ result[r] = NotRun
    /\ result' = [result EXCEPT ![r] = Unwritten]
    /\ UNCHANGED <<raw, exit>>

(***************************************************************************)
(* bench-regress.  A drift is the quotient of `by' and `of'; that of a     *)
(* missing mode is infinite.                                               *)
(***************************************************************************)
Rates(b, f) ==
    {[by |-> b[rate] - f[rate], of |-> b[rate]] :
        rate \in {x \in {"docsS", "chunksS"} : b[x] > 0}}

Missing(b, f) ==
    {[by |-> 1, of |-> 0] : m \in DOMAIN b.modes \ DOMAIN f.modes}

\* mutant: the floor is compared with the fresh latency
FreshAboveFloor(b, f) ==
    UNION {{[by |-> f.modes[m][p] - b.modes[m][p], of |-> b.modes[m][p]] :
                p \in {x \in Pcts : f.modes[m][x] >= Floor}} :
           m \in DOMAIN b.modes \cap DOMAIN f.modes}
Latencies(b, f) ==
    UNION {{[by |-> f.modes[m][p] - b.modes[m][p], of |-> b.modes[m][p]] :
                p \in {x \in Pcts : b.modes[m][x] >= Floor}} :
           m \in DOMAIN b.modes \cap DOMAIN f.modes}

Drifts(b, f) == Rates(b, f) \union Missing(b, f) \union Latencies(b, f)

Regressed(drift) == drift.by * 100 > Tol * drift.of

LoadFails ==
    /\ exit = "none" /\ \A r \in Runs : result[r] # NotRun
    /\ \E r \in Runs : result[r] = Unwritten
    /\ exit' = "refused"
    /\ UNCHANGED <<raw, result>>

Compare ==
    /\ exit = "none" /\ \A r \in Runs : result[r] \notin {NotRun, Unwritten}
    /\ exit' = IF result["base"].docs # result["fresh"].docs THEN "refused"
               ELSE IF \E d \in Drifts(result["base"], result["fresh"]) : Regressed(d)
               THEN "fail" ELSE "ok"
    /\ UNCHANGED <<raw, result>>

Next == (\E r \in Runs : Bench(r) \/ BenchFails(r)) \/ LoadFails \/ Compare
Spec == Init /\ [][Next]_vars
-----------------------------------------------------------------------------
\* At least p of the queries were answered within l, and fewer within less.
IsPct(bag, p, l) ==
    /\ 1000 * UpTo(bag, l) >= p * Answered(bag)
    /\ 1000 * UpTo(bag, l - 1) < p * Answered(bag)

\* Of the answered queries at least p took no more than l and the tolerance.
Within(bag, p, l) ==
    1000 * SumFunctionOnSet(bag, {x \in DOMAIN bag : (x - l) * 100 <= Tol * l})
        >= p * Answered(bag)

NoSlower(b, f) == \A p \in Pcts, l \in Lat : l >= Floor /\ IsPct(b, p, l) => Within(f, p, l)

\* Both amounts per second, of the chunks as of the documents.
IndexedAsFast(b, f) ==
    \A x \in {"docs", "chunks"} :
        b.wall > 0 /\ f.wall > 0 =>
            100 * f[x] * b.wall >= (100 - Tol) * b[x] * f.wall

\* What CI reads into a green gate, from the queries themselves and not from
\* the figures the two programs exchange: the fresh run lost no mode, indexed
\* as fast, chunks included, and of the queries that were answered as many as
\* before took no longer, within the tolerance and at every percentile.
PassIsAsFast ==
    exit = "ok" =>
        /\ DOMAIN raw.base.modes \subseteq DOMAIN raw.fresh.modes
        /\ IndexedAsFast(raw.base, raw.fresh)
        /\ \A m \in DOMAIN raw.base.modes : NoSlower(raw.base.modes[m], raw.fresh.modes[m])

\* A red gate has such a cause: noise below the floor, a mode that only the
\* fresh run has, or one that got faster fail nothing and mask nothing.
FailHasCause ==
    exit = "fail" =>
        \/ ~(DOMAIN raw.base.modes \subseteq DOMAIN raw.fresh.modes)
        \/ raw.fresh.wall = 0 \/ ~IndexedAsFast(raw.base, raw.fresh)
        \/ \E m \in DOMAIN raw.base.modes \cap DOMAIN raw.fresh.modes :
              ~NoSlower(raw.base.modes[m], raw.fresh.modes[m])
=============================================================================
