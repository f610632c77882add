---------------------------- MODULE IndexerPool ----------------------------
(***************************************************************************)
(* cmd/indexer: a producer feeds a bounded channel, Workers index what     *)
(* they take from it, a waiter closes `done` when all have returned, and   *)
(* run() then prints the totals.  SIGINT or SIGTERM cancels the context    *)
(* that the producer, the sidecar client and the store share.              *)
(*                                                                         *)
(* Documents are 1..Count in the order of the slice; a worker's cur is the *)
(* one it holds.  indexOne is Effect (UpsertDoc committed, or not) and     *)
(* then Answers or Fails: an error can come after a commit took effect.    *)
(***************************************************************************)
EXTENDS Integers, Sequences, FiniteSets

CONSTANTS
    Count,      \* -n
    Worker,     \* -workers goroutines
    MaxFaults   \* bound: failures of the sidecar or of Postgres

ASSUME PoolAssumption ==
    Count \in Nat /\ IsFiniteSet(Worker) /\ Worker # {} /\ MaxFaults \in Nat

VARIABLES
    cancelled,          \* ctx.Done()
    jobs, closed,       \* the channel
    next,               \* the producer's place in docs
    producing,          \* it has not returned
    pc, cur,            \* of each worker
    inserted, failed,   \* the atomic counters
    done,               \* closed by the waiter
    report,             \* what run prints, <<>> before
    stored,             \* documents in Postgres
    faults

vars == <<cancelled, jobs, closed, next, producing, pc, cur, inserted, failed,
          done, report, stored, faults>>

producer == <<next, producing>>
channel  == <<jobs, closed>>
totals   == <<inserted, failed>>
main     == <<done, report>>

Docs == 1..Count
Cap  == 2 * Cardinality(Worker)

TypeOK ==
    /\ cancelled \in BOOLEAN /\ closed \in BOOLEAN /\ producing \in BOOLEAN
    /\ jobs \in Seq(Docs) /\ Len(jobs) <= Cap
    /\ next \in 1..(Count + 1)
    /\ pc \in [Worker -> {"take", "index", "stored", "erred", "returned"}]
    /\ cur \in [Worker -> Docs \union {0}]
    /\ inserted \in 0..Count /\ failed \in 0..Count
    /\ done \in BOOLEAN /\ report \in {<<>>} \union (Nat \X Nat)
    /\ stored \subseteq Docs
    /\ faults \in 0..MaxFaults

Init ==
    /\ cancelled = FALSE
    /\ jobs = <<>> /\ closed = FALSE
    /\ next = 1 /\ producing = TRUE
    /\ pc = [w \in Worker |-> "take"] /\ cur = [w \in Worker |-> 0]
    /\ inserted = 0 /\ failed = 0
    /\ done = FALSE /\ report = <<>>
    /\ stored = {} /\ faults = 0

\* signal.NotifyContext: at any time, once.
Cancel ==
    /\ ~cancelled /\ cancelled' = TRUE
    /\ UNCHANGED <<channel, producer, pc, cur, totals, main, stored, faults>>

(***************************************************************************)
(* The producer.  select takes either ready case; the deferred close runs  *)
(* when it returns.                                                        *)
(***************************************************************************)
AllSent == next > Count

Send ==
    /\ producing /\ ~AllSent /\ Len(jobs) < Cap
    /\ jobs' = Append(jobs, next)
    /\ next' = next + 1
    /\ UNCHANGED <<cancelled, closed, producing, pc, cur, totals, main, stored,
                   faults>>

\* mutant: the channel is closed only after the last document
ReturnUnclosed ==
    /\ producing /\ (AllSent \/ cancelled)
    /\ producing' = FALSE /\ closed' = AllSent
    /\ UNCHANGED <<cancelled, jobs, next, pc, cur, totals, main, stored, faults>>

ProducerReturns ==
    /\ producing /\ (AllSent \/ cancelled)
    /\ producing' = FALSE /\ closed' = TRUE
    /\ UNCHANGED <<cancelled, jobs, next, pc, cur, totals, main, stored, faults>>

(***************************************************************************)
(* A worker.                                                               *)
(***************************************************************************)
Take(w) ==
    /\ pc[w] = "take" /\ jobs # <<>>
    /\ cur' = [cur EXCEPT ![w] = Head(jobs)]
    /\ jobs' = Tail(jobs)
    /\ pc' = [pc EXCEPT ![w] = "index"]
    /\ UNCHANGED <<cancelled, closed, producer, totals, main, stored, faults>>

RangeEnds(w) ==
    /\ pc[w] = "take" /\ jobs = <<>> /\ closed
    /\ pc' = [pc EXCEPT ![w] = "returned"]
    /\ UNCHANGED <<cancelled, channel, producer, cur, totals, main, stored,
                   faults>>

\* indexOne up to the commit of UpsertDoc.
Effect(w) ==
    /\ pc[w] = "index"
    /\ stored' = stored \union {cur[w]}
    /\ pc' = [pc EXCEPT ![w] = "stored"]
    /\ UNCHANGED <<cancelled, channel, producer, cur, totals, main, faults>>

\* An error, before the commit or instead of its answer.
Fails(w) ==
    /\ pc[w] \in {"index", "stored"}
    /\ \/ cancelled /\ UNCHANGED faults
       \/ faults < MaxFaults /\ faults' = faults + 1
    /\ pc' = [pc EXCEPT ![w] = "erred"]
    /\ UNCHANGED <<cancelled, channel, producer, cur, totals, main, stored>>

\* mutant: `continue` is missing after a failure
CountTwice(w) ==
    /\ pc[w] = "erred"
    /\ IF cancelled
       THEN pc' = [pc EXCEPT ![w] = "returned"] /\ UNCHANGED <<failed, inserted>>
       ELSE /\ pc' = [pc EXCEPT ![w] = "take"]
            /\ failed' = failed + 1 /\ inserted' = inserted + 1
    /\ UNCHANGED <<cancelled, channel, producer, cur, main, stored, faults>>

\* mutant: a document that failed goes back to the channel
Requeue(w) ==
    /\ pc[w] = "erred"
    /\ IF cancelled
       THEN pc' = [pc EXCEPT ![w] = "returned"] /\ UNCHANGED jobs
       ELSE pc' = [pc EXCEPT ![w] = "take"] /\ jobs' = Append(jobs, cur[w])
    /\ UNCHANGED <<cancelled, closed, producer, cur, totals, main, stored, faults>>

\* The error is counted, unless the context is cancelled by the time ctx.Err()
\* is asked: then the worker returns and its document is in no total.
HandleError(w) ==
    /\ pc[w] = "erred"
    /\ IF cancelled
       THEN pc' = [pc EXCEPT ![w] = "returned"] /\ UNCHANGED failed
       ELSE pc' = [pc EXCEPT ![w] = "take"] /\ failed' = failed + 1
    /\ UNCHANGED <<cancelled, channel, producer, cur, inserted, main, stored,
                   faults>>

CountInserted(w) ==
    /\ pc[w] = "stored"
    /\ inserted' = inserted + 1
    /\ pc' = [pc EXCEPT ![w] = "take"]
    /\ UNCHANGED <<cancelled, channel, producer, cur, failed, main, stored,
                   faults>>

(***************************************************************************)
(* The waiter and run.                                                     *)
(***************************************************************************)
AllReturned == \A w \in Worker : pc[w] = "returned"

CloseDone ==
    /\ ~done /\ AllReturned
    /\ done' = TRUE
    /\ UNCHANGED <<cancelled, channel, producer, pc, cur, totals, report, stored,
                   faults>>

Report ==
    /\ done /\ report = <<>>
    /\ report' = <<inserted, failed>>
    /\ UNCHANGED <<cancelled, channel, producer, pc, cur, totals, done, stored,
                   faults>>

Work(w) == Take(w) \/ RangeEnds(w) \/ Effect(w) \/ Fails(w)
              \/ HandleError(w) \/ CountInserted(w)
Next ==
    \/ Cancel \/ Send \/ ProducerReturns \/ CloseDone \/ Report
    \/ \E w \in Worker : Work(w)

Fairness ==
    /\ WF_vars(Send \/ ProducerReturns)
    /\ WF_vars(CloseDone) /\ WF_vars(Report)
    /\ \A w \in Worker : WF_vars(Work(w))

Spec     == Init /\ [][Next]_vars
FairSpec == Spec /\ Fairness
-----------------------------------------------------------------------------
InHand   == {w \in Worker : pc[w] \in {"index", "stored", "erred"}}
Returned == {w \in Worker : pc[w] = "returned"}

\* Without a signal the totals account for every document of -n.
EveryDocAccounted ==
    report # <<>> /\ ~cancelled => report[1] + report[2] = Count

\* Every document is at most once in the channel or in a worker's hands, and
\* none that is still to be sent has been taken.
HandledOnce ==
    /\ \A i, j \in DOMAIN jobs : i < j => jobs[i] < jobs[j]
    /\ \A i \in DOMAIN jobs : jobs[i] < next
    /\ \A w \in InHand : cur[w] \in 1..(next - 1) /\ \A i \in DOMAIN jobs : cur[w] < jobs[i]
    /\ \A v, w \in InHand : v # w => cur[v] # cur[w]

\* Up to the documents that workers stopped by a signal had in hand, what was
\* sent is in the channel, in hand or counted, and what is counted as inserted
\* is stored.
Lost(n) == n \in 0..(IF cancelled THEN Cardinality(Returned) ELSE 0)
Accounts ==
    /\ Lost(next - 1 - Len(jobs) - Cardinality(InHand) - inserted - failed)
    /\ inserted + Cardinality({w \in Worker : pc[w] = "stored"}) <= Cardinality(stored)
    /\ stored \subseteq 1..(next - 1)
    /\ \A w \in Worker : pc[w] = "index" => cur[w] \notin stored
    /\ \A i \in DOMAIN jobs : jobs[i] \notin stored

\* Without a signal nothing ends before its work is done, and the totals never
\* change once they are printed.
Ending ==
    /\ closed <=> ~producing
    /\ ~producing => cancelled \/ AllSent
    /\ Returned # {} => cancelled \/ (closed /\ jobs = <<>>)
    /\ done => Returned = Worker
    /\ report # <<>> => done /\ report = <<inserted, failed>>

\* No interleaving of the goroutines, with a signal at any time, handles a
\* document twice, loses one but with a stopped worker, or counts one that is
\* not stored; inductive.
PoolInv == TypeOK /\ HandledOnce /\ Accounts /\ Ending

\* The run ends, cancelled or not, and leaves no goroutine behind: neither a
\* full channel nor workers that have returned keep the producer.
RunEnds == <>(report # <<>> /\ ~producing)
=============================================================================
