# doc-index-service: a TLA+ model

TLA+ modules, TLC configurations and TLAPS proofs for the Go service in `src/`:
a document index over Postgres with BM25 and vector search, rank fusion, an
optional reranker, a Python embedding sidecar and a bulk indexer. Paths below
are relative to `src/`.

Every definition is translated from the code, and `PROJECT.json` maps it to the
lines it stands for. Read `DocStore.tla` and `DocIndex.tla` first.

    tlasany DocStore.tla                                  # parse
    tlc -workers 2 -config DocStoreSafety.cfg MCDocStore  # model-check
    tlapm DocStoreProofs.tla                              # check the proofs

Contents: 1 the system; 2 module by module; 3 the runs; 4 fairness; 5 the
proofs; 6 where the code departs from its words; 7 what is not modelled;
8 the plan.

## 1. The system

### Components, state, operations

| Component | Source | State | Operations |
|---|---|---|---|
| Document store | `internal/store/queries.go`, `store.go`, `migrations/` | tables `docs`, `doc_chunks`, `doc_tombstones`; a bounded pool | `UpsertDoc`, `DeleteDoc`, `Compact`, `GetDoc`, `ListDocs`, `SearchBM25`, `SearchVector` |
| HTTP API | `internal/api/handlers.go`, `errors.go`, `middleware.go`, `cursor.go` | none of its own; page cursors live at clients | index, query, get, list, delete, compact, health |
| Hybrid search | `internal/search/hybrid.go`, `rrf.go` | none; one call is a pipeline of two searches, fusion, rerank | `Engine.Query`, `FuseRRF` |
| Query sanitiser | `internal/search/sanitize.go` | a loop's | `SanitizeBM25Query` |
| Chunker | `internal/chunker/chunker.go` | a loop's | `Split`, `preferBoundary` |
| Rerankers | `internal/rerank/` | none | `HeuristicReranker`, `CrossEncoderReranker` |
| Sidecar client | `pkg/embed/client.go` | none | `Embed`, `Healthz` |
| Sidecar | `services/embed-sidecar/app/` | two lazily built models | `/embed`, `/rerank`, `/healthz` |
| Bulk indexer | `cmd/indexer/main.go` | a channel, a wait group, two counters | producer, workers, waiter, report |
| Server process | `cmd/server/main.go` | listener, signal, pool | start, shutdown, exit |
| Bench and its gate | `bench/bench.go`, `cmd/bench-regress/main.go` | the JSON file of a run | measure, compare |
| Frames | `internal/api/wire.go` | none, nothing calls it | encode, decode |
| Seed | `internal/seed/` | none | generate |

### Interactions

A handler is a goroutine. POST /v1/index splits the body (chunker), embeds the
pieces in batches (client, sidecar) and calls `UpsertDoc`; nothing is written
before the vectors are there. POST /v1/query runs BM25, embeds the query,
searches vectors, fuses and maybe reranks, in turn and without a transaction
around the steps. DELETE sets `deleted_at` and inserts a tombstone in one
transaction; POST /v1/admin/compact reclaims the chunks of deleted documents, a
transaction per tombstone. The indexer does what POST /v1/index does, from its
own process. So all sharing goes through Postgres: its unique index on
`content_hash`, its row locks, its snapshots, and the pool.

### Hard behaviours

- Transactions of different requests interleave at the statement; a statement
  of READ COMMITTED sees whatever was committed before it began, and two
  statements of one transaction may see different tables.
- COMMIT can take effect and its reply be lost; the client retries.
- A crash or an error falls between two transactions of one `Compact`.
- The index changes between the steps of a query and between two pages.
- The sidecar goes and comes between the steps of a query or two batches; its
  threads build the models on first use, without a lock.
- A handler's store call may have taken effect although the handler sees an
  error, and a 200 may be on its way while other requests undo what it says.
- A signal reaches the producer and the workers of the indexer at different
  places; a signal reaches the server while handlers hold connections.
- Limits meet: `k`, the per-list limit and the rerank input; the cap on query
  runes; overlap and target of the chunker.

### What makes each component correct

- Store: one document per body for ever; documents are whole or absent;
  tombstones exactly for deletions; every acknowledgement stays true;
  compaction counts each chunk once and drains its backlog; all requests end.
- Query: no hit of a document whose deletion was acknowledged before; a short
  page is complete; every query is answered.
- Fusion: independent of Go's map order; a hit all retrievers prefer comes first;
  reranking prefers nothing that is worse on every count.
- Pages: strictly descending, complete for what lives throughout, and finite.
- Chunker: bounded, ordered, nothing lost, ends for all options.
- Sanitiser: single blanks, boundaries kept, a fixed point, the cap.
- Embedding: each chunk gets its own vector or none is stored; every document
  is embedded or fails.
- Sidecar: once it has answered with a model, nobody waits for that model again.
- Indexer: totals account for all documents; report is final; everything ends.
- Handlers: an answer fits what was done; what one client was told, the next
  reader sees; every request ends.
- Server: a shutdown in time loses no request; it exits.
- Bench gate: green means as fast as before, red has a cause.

The `hazards` of `PROJECT.json` list, line by line, what can go wrong and the
properties that would notice.

## 2. Module by module

Definitions under a comment `mutant:` are single bugs one could make in that
place (a dropped guard, an off-by-one). The specification never uses them;
putting one in the place of its original must make TLC report the property
`PROJECT.json` pairs it with, which shows that the property can fail.

**DocIndex** is the abstract index: a document is absent, live, deleted,
reclaimed, in this order; a body is indexed at most once for ever; chunks
are reclaimed all together. It knows no transactions.

**DocStore** has one process per request and one action per SQL statement. The
program counter names the next statement; a write stays invisible in its
transaction until the commit action publishes it, and the counter itself says
which locks the transaction holds: `HashClaimed` is the wait on an uncommitted
unique-index entry, `RowLocked` the `FOR UPDATE` of `DeleteDoc`, `ChunksLocked`
and `TombLocked` the row locks of `Compact`, `ConnFree` the pool. Tables:
`docHash` and `deleted` are `docs`, `chunks` counts the rows of `doc_chunks`,
`tomb` is `doc_tombstones`. `CommitNew(r, FALSE)` and its like are commits whose
reply is lost; `Fail` is any error or cancelled request (rollback); `Crash` ends
all requests and keeps the tables. Of a body only its hash and its number of
chunks matter. A retry is another arrival with the same argument. Compact's
SELECT may return any pending tombstone: its ORDER BY is on the time the
deleting transaction began, which does not order commits.
`Abstract == INSTANCE DocIndex WITH ...` is the refinement mapping.

**HybridQuery** puts a query, step by step, over DocIndex's next-state relation,
which is sound because DocStore implements DocIndex. Each search is one
statement with one snapshot. SQL leaves equal scores unordered, so `Ranked` is
the set of orders Postgres may return; the HNSW index may miss any live chunk.
`SortedBy` is what a sort promises, a set as well: any sequence in which nothing
stands behind what it is less than. That the page is one all the same is due to
the tie-breaks, and is a theorem (`OnePage`).
Scores are constants, the reranker is chosen at the start. **Ranking** has the
order, the cut and the fusion that **RankFusion** (fusion in every map order,
and the lexical reranker after it) and HybridQuery share. RankFusion computes
the score of `HeuristicReranker`; HybridQuery, which is about limits, freshness
and failures, takes any table of scores. `tokenSet` is abstracted to the two
numbers the score depends on: the words of a snippet, and those of the query
among them. The score is squared, so that its root goes away, and scaled.
RRF sums are exact integers here, scaled by a
common multiple; in the code they are float64, where two equal sums of different
terms can differ in the last bit (with k = 60: ranks 6 and 39 against 12 and
28, ranks 30 and 50 against 39 and 39) and so be ordered by that bit instead of
by id.

**ListPages** is a client walking `next_cursor` while documents appear and
disappear. `created_at` is the start of the inserting transaction: a document
can commit behind a walk that has passed its place. `ORDER BY` is `Ordered`: a
sequence of all the matching rows that descends, of which LIMIT takes the first.

**Chunker** and **Sanitize** are the two loops, over classes of runes. In
`Split` the guard `next <= cursor` is never taken once the clamps have run: the
overlap is below the target and every window ends beyond cursor + overlap. The
proof of `ChunkerProofs` shows it.

**EmbedBatches** is `embedBatched` (the same code in the API, the indexer and
the bench) with `Client.Embed` and its timeout. **Sidecar** extends it with the
Python process: a thread looks for the model in the shared dict (`Get`), builds
it (`Build`, `BuildFails`), stores it (`Publish`) and answers with its own
reference (`Reply`, `AnswerCaller`). Between any two of these other threads run.
`Restart` ends all threads and may bring other settings. A batch may also be
answered by something else at that address, or by nobody: `SidecarAnswers` may
give too few vectors or one too many, of mixed lengths and with any `dim`, which
this sidecar never does, and the client must not believe that. The order of the
vectors is taken to be that of the texts: from the answer no client could tell.

**IndexerPool** is `run` of `cmd/indexer`: producer, workers, waiter, reporter,
a channel of twice the number of workers, a signal at any time. `-workers 0`
is excluded by `PoolAssumption`: the code then reports at once and indexes
nothing.

**ServerLifecycle** is `run` of `cmd/server`: the select, `Shutdown` and its ten
seconds, the deferred `Close`, which waits for connections in use. **Service**
extends it, and DocIndex, with the handlers: a request is accepted, embeds (index
only, holding no connection), acquires a connection, does its store call and
writes its reply, and each step is a joint step of the two modules.
`StoreReturns` is a call that went well, one tombstone at a time for a
compaction; `StoreFails` one that ended in an error, its effect committed or not;
`Panics` is `Recoverer`. A store call is one step here because DocStore
implements DocIndex. The ghosts `did` and `known` remember what a request has
changed and what had been answered when it arrived.

**BenchGate** is a pair of bench runs, each from what it meets (documents and
queries that fail, latencies) to the figures it writes, and the comparison that
gives `bench-regress` its exit code. Its properties speak of what the runs met,
not of the figures the programs exchange. Queries run one after the other, so a
bag of latencies says all. `Regressed` compares exact quotients; the float64 of
`main.go:92,167` may judge a drift of exactly the tolerance otherwise (section 6).

The MC modules give TLC the constants a `.cfg` cannot hold; `MCQueryFunctions`
puts the pure functions of a query, Sanitize and RankFusion, into one run: in a
behaviour one is at work, from any of its inputs, and the other rests. `*Proofs` modules
hold theorems and nothing else.

## 3. The runs

| Run | Bounds | Shows |
|---|---|---|
| `docstore_safety` | 3 requests, 6 arrivals, 2 bodies (1 and 2 chunks), 2 ids, 2 faults, pool of 2 | `WholeDocuments`, `RepliesHold`, `DeletedOnce`, `ChunksCountedOnce`, `CompactDrains`, and the inductive invariant `StoreInv`, of which `TypeOK`, `HashUnique` and `TombstoneIffDeleted` are conjuncts |
| `docstore_fair` | 3 requests, 4 arrivals, 1 fault, pool of 2 | `RequestsEnd`; `ImplementsDocIndex` |
| `hybrid` | 2 documents of 2 and 1 chunks, 2 queries, 4 modes, 3 rerankers, k of 1, 2 and 3, lists of 2, 1 fault | `NothingDeletedBefore`, `ShortPageComplete`, `ResultsFound`, `QueryAnswered` |
| `query_functions` | queries of up to 6 runes, cap 3; two lists of up to 3 of 4 ids, cuts at 1, 2, 10; snippets of up to 3 words, 2 of the query | `BoundariesKept`, `FixedPoint`, and `SanitizeInv` with `TypeOK` and `SingleBlanks`; `OrderIndependent`, `ParetoOrder`, `RerankDominates` |
| `list_pages` | 4 documents, pages of 2, 2 instants | `StrictlyDescending`, `NoneSkipped`, `WalkEnds` |
| `chunker` | bodies of up to 6 runes of 5 classes; every clamp is used | `ChunksBounded`, `NothingLost`, `ChunksOrdered`, `SplitInv` with `TypeOK`, `Terminates` |
| `sidecar` | up to 4 chunks, batch sizes 0, 1, 3, 3 threads | `OwnVector`, `ReadyIsWarm`, `DocumentEnds` |
| `indexer` | 6 documents, 2 workers, channel of 4, 2 faults | `EveryDocAccounted`, `PoolInv` (`TypeOK`, `HandledOnce`, `Accounts`, `Ending`), `RunEnds` |
| `server` | 3 requests of 5 kinds, 1 document absent or live at the start, pool of 1, 1 fault, 1 slow handler | `Graceful`, `AnswersFit`, `ReadsFollowAnswers`, `Exits`, `RequestsEnd` |
| `bench_gate` | 2 runs of 20 queries, 1 or 2 modes, failures and zero rates | `PassIsAsFast`, `FailHasCause` |
| `hybrid_rerank_choice` | k of 1 and 3 against a rerank input of 2 | violated: `RerankHasChoice` (section 6) |
| `sanitize_cap` | queries of up to 6 runes, cap 3 | violated: `Truncated` (section 6) |

The type invariants of HybridQuery, ListPages, Service, Sidecar and
ServerLifecycle are parts of the inductive invariants of section 5, which are
proved for every instance; no run lists them.

Why the bounds are enough. *Store*: a race needs two requests on one document,
and a third that takes the connection or the lock away; six arrivals let a body
be indexed, retried, deleted, indexed again and compacted twice, and two faults
allow a lost reply and a crash in one behaviour. The theorems of section 5 then
cover every size. Requests and ids are interchangeable, hashes are not: they
have different numbers of chunks. *Query*: three chunks against a rerank input
of 2, a per-list limit of 2 and k of 1, 2 and 3 make each limit bind: the vector
list loses a chunk, the reranker gets fewer candidates than k, or more. Two of
the chunks match the keywords, so a BM25 list of 2 is full though it loses none.
The reranked half of `ShortPageComplete` bites only for a k of 2 and a page of
one hit; the theorem `ShortPages` has all other cases. Two queries are a query
and its repetition. *Fusion*: three ranks and four ids give hits
in one list and in both, ties, and cuts inside a tie. *Pages*: four documents
are two full pages, and a third that is empty; two instants give equal dates
and dates behind the cursor. *Chunker*: a maximum of 3 or 4 against 6 runes
gives three windows and more, with a boundary of each kind at each place.
*Sanitiser*: twice the cap. *Indexer*: more documents than the channel holds,
fewer workers than documents, so that the producer does block. *Server*: more
requests than connections; three are enough for a write, its undoing and a
reader of either, or for two writers of one body and a reader, and the document
may be there before. *Sidecar*: two batches and more, and two threads besides
the caller's, so that two can build while a third asks; a batch size of 0 takes
the default of 2. *Reranking*: no words, all words, and one word beyond the
target. *Bench*: with 20 queries the 95th percentile is the nineteenth and the
99th and 99.9th are the last; `MCBenchGate` has the bags.

`CHECK_DEADLOCK FALSE` is in every configuration because every system here may
stop: arrivals, queries, walks, documents and faults are bounded (MaxStarts,
MaxQueries, MaxTime, MaxFaults), a pure function ends, and a process exits. That nothing stops where
it should go on is what the liveness properties say.

## 4. Fairness

- DocStore: weak fairness of `Step(r)`, the steps of a request that go well. Go
  schedules every goroutine, Postgres answers a statement that is not blocked
  and grants a released lock or connection. Faults, crashes and arrivals are
  never forced. That pgxpool serves acquirers in order would justify strong
  fairness; with a bounded number of arrivals the weak form suffices.
- HybridQuery: weak fairness of `Engine`: the query goroutine goes on; a call to
  the sidecar returns or hits the client's timeout.
- ListPages: the client asks for the next page. The number of documents is
  bounded, their arrival is not forced to stop first: a walk goes down, and
  what is indexed from now on comes above it.
- IndexerPool: producer, workers, waiter and `run` are goroutines. The signal
  is never forced.
- Service: `Run` (the deadline of `Shutdown` makes it return) with the return
  of `ListenAndServe`; `StoreReturns` (a statement ends); and for all requests
  but those of `Slow` the steps of the handler, which Go schedules and whose
  sidecar calls have a timeout. A slow handler may hang for ever where it holds
  no connection: `Exits` holds all the same, and `RequestsEnd` for the others.
- Sidecar: the client's steps, whose calls end by a timeout of 30 seconds at the
  latest. Nothing is assumed of the sidecar: it may hang, fail or restart for ever.
- Chunker: the loop goes on.

## 5. The proofs

Eight modules, checked by tlapm to the last leaf, for all values of the
constants that satisfy the assumptions named below. The bounds of the runs
(numbers of requests, documents, chunks, runes, faults) are constants of the
modules, and no proof depends on their values. Every invariant that a run checks
and that holds is proved, and so is that DocStore implements DocIndex; liveness
is not.

| Module | Theorems that state a property of a run | Others |
|---|---|---|
| `DocStoreProofs` | `Invariant`, `IdempotentIndex`, `DocumentsWhole`, `DeletesExact`, `CompactionExact`, `CompactionDrains`, `Implements` | `TypeCorrect` |
| `QueryProofs` (HybridQuery, RankFusion) | `NoneDeleted`, `AnswerFound`, `ShortPages`; `FusionOrder`, `FusionPareto`, `RerankPrefersBetter` | `Invariant`, `FusionInvariant`, `LoopIsFused`, `BestFirst`, `OnePage` |
| `ServiceProofs` (Service, ListPages) | `ShutdownGraceful`, `AnswersTrue`, `ReadsFollow`; `WalkDescends`, `WalkComplete` | `ImplementsLifecycle`, `ServesIndex` |
| `IndexingProofs` (IndexerPool, Sidecar) | `NothingLost`, `TotalsAddUp`; `OwnVectors`, `Ready` | |
| `ChunkerProofs` | `Invariant`, `Bounded`, `Ordered`, `Complete` | |
| `SanitizeProofs` | `Invariant`, `Boundaries`, `Idempotent` | `Capped`, `Blanks` |
| `BenchGateProofs` | `GreenMeansFast`, `RedHasCause` | |
| `SumProofs` | | the lemmas on sums and products |

**DocStoreProofs.** From `ChunksOfAssumption` (a body has at least one chunk,
which `handleIndex` sees to) and `NoneAssumption` (the two null values are not
values). Nothing bounds the requests, ids, hashes, arrivals, or faults.

- `Invariant`: `Spec => []StoreInv`. The properties of the tables are not inductive:
  that a commit keeps them depends on what the transaction has seen and still
  holds. `StoreInv` adds that as named parts: `ClaimsOwn` (an uncommitted row is the
  only claim on its hash and id), `LookupsHold` (what `UpsertDoc` has read of an
  existing document stays true, or was reclaimed since), `RowLocksOwn` (a
  `DeleteDoc` past its lock is alone on a live document), `CompactionsOwn` (the
  chunks a `Compact` has deleted are those that are there, and no one else's),
  `LocalsSet` and `OnlyDocuments`. There is one lemma per action.
- `TypeCorrect`, `IdempotentIndex` (one body, one id; every answer 200 stays
  true), `DocumentsWhole`, `DeletesExact` (tombstones iff deleted, one
  acknowledgement per id), `CompactionExact` (each chunk counted once),
  `CompactionDrains` (an answer 200 left nothing that was pending before): from
  `Invariant`.
- `Implements`: `Spec => ImplementsDocIndex`. Only commits change the tables;
  `CommitNew` is `Index`, `CommitDelete` is `Delete`, `CommitCompact` is
  `Reclaim` or, when another `Compact` was first, a stutter; all else stutters.

**ChunkerProofs.** From `ChunkerAssumption` (defaults are positive). `SplitInv` has
`OptionsOK` (what the clamps leave), `LoopOK` (where cursor, end and hardEnd
are at each place of the loop) and `Covered` (the text before the cursor is in
some chunk). Proved: `Invariant`, `Bounded`, `Ordered`, `Complete`.

**SanitizeProofs.** From `SanitizeAssumption` (the cap is positive).

- `Invariant`: `LoopOK` ties `prevSpace` and the length to the output written.
  `Blanks` (none leading, doubled or trailing) follows, and `Capped`: the
  documented cap is false (run `sanitize_cap`), and this is how far, by one rune
  at most and only behind a blank at the cap. `Idempotent` rests on it.
- `Boundaries` needs `Gap` besides: behind a word that was written last, only
  runes that vanish have been read.
- `Idempotent` is about two passes. `Capped` and `Blanks` make the first result
  a clean query (`CleanQuery`), and the second pass writes what it reads
  (`Rewritten`): no blank is doubled, and a word at the cap is the last rune,
  as a longer result has a blank there.

**SumProofs.** What `SumFunctionOnSet` and `ProductSet` of the community modules
compute for any finite set: a sum is that without one element plus the element,
whichever it is (`SumRemove`), it grows with its terms (`SumLarger`) and, of
terms that are not negative, with its set (`SumBigger`); a product divides by
each factor (`ProductDivides`). These operators are folds that take the elements
as CHOOSE has them. The induction over finite sets is a smallest counterexample
(`LeastSet`, from the well-foundedness of the strict subset order), which needs
no operator as a parameter.

**QueryProofs, the query.** From `HybridAssumption`: finitely many documents, each
with at least one chunk and at most MaxChunks; positive limits.

- `IsPage(s, S, n)` is what every stage returns: elements of `S`, each once, at
  most `n`, and all of `S` when there are fewer than `n`. `RankedPage`,
  `FusedPage` and `RerankedPage` show it of the searches, the fusion and the
  reranking, from what a sort promises (`Enumeration`) and a cut does (`CutRows`).
- `Invariant`: `Fresh` (nothing in either list is of a document that was deleted
  before the query came), `Searched` (an uncut BM25 list has what still matches
  of the documents live all along), `Candidates` and `Answer` (pages of the two
  lists). A change of the index keeps `Searched` because it leaves alone what is
  live before and after (`IndexChanges`), and `Fresh` because deletion is final.
- `NoneDeleted`, `AnswerFound`, `ShortPages` follow. The condition of
  `ShortPages`, a rerank input of at least k, is where section 6 bites.
- `BestFirst` and `OnePage` are about `SortAndCut` for any scores: a hit on the
  page has all that stand before it above it, and there is one such page.

**QueryProofs, the fusion.** From `RankFusionAssumption`: finitely many lists of
any length, numbers for ids, a positive RRFK, positive cuts and target length.

- `FusionInvariant`: `Summing` (the running scores are, for each hit seen so far,
  the sum of what the lists walked so far give to it, whichever these are),
  `Fusing` and `Reranking` (the page is a sorted and cut one, of the sums and of the
  scored snippets). `OneListMore` is the step: `SumRemove` at the list that is
  added, and a hit not seen before had a sum of zero.
- `FusionOrder` follows with `BestFirst` and a count of the rows. `LoopIsFused`
  says that the loop comes to what HybridQuery takes for FuseRRF.
- `FusionPareto`: Scale is a multiple of every RRFK + rank, so that a share is an
  exact quotient and falls with the rank (`ShareFalls`). A hit above another in
  every list gets no less from any list and more from one (`ParetoScores`).
- `RerankPrefersBetter`: the weight of a snippet grows with its length
  (`WeightGrows`), so the score grows with the words of the query and falls
  with its own (`BetterSnippet`).

**ServiceProofs, the pages.** From `ListAssumption` (finitely many documents, with numbers
for ids; a positive page size). `Placed`: the cursor is the last row listed.
`Covered`: a document live throughout is listed, or behind the cursor. A page
descends from the cursor and takes the first rows, so what it leaves is behind
its last. Late commits and deletions change neither. `WalkDescends` and
`WalkComplete` follow.

**ServiceProofs, the handlers.** From `LifecycleAssumption` (finitely many requests, at least
one connection) and `ServiceAssumption` (the operations and stages are the known
ones; ids are numbers, and no document has 0 or the null hash).

- `ImplementsLifecycle`: each step of Service is one of ServerLifecycle or leaves
  its variables alone. `ShutdownGraceful`: by `LifeInv`, an invariant of
  ServerLifecycle alone, carried over.
- `AnswerInv` ties answers to the index. `DocsOK`, `HandlersOK`: types. `PlaceOK`:
  a handler changes nothing before it has its answer. `AnswerOK`: what a status
  says of the documents. `KnownOK`: what earlier replies said still holds, and
  this one does not contradict it. `Kept` is the set of documents that are live
  or that somebody asked to delete, the only way in which a 201 can cease to be
  visible. Every step moves the index `Onward` (content stays, deleted stays
  deleted, nothing is deleted unasked), which keeps the answers of all other
  requests; the request that moves is looked at by itself.
- `AnswersTrue`, `ReadsFollow` follow; `ServesIndex` is the action property that
  all changes of documents are steps of DocIndex.

**IndexingProofs, the pool.** From `PoolAssumption` (some worker, finitely many). The
accounts are a count: documents sent are in the channel, in the hands of a worker,
in a total, or dropped, one at most for each worker that has returned after a
signal. `MoveCounts` follows the numbers of workers over a step. The
inductive `Strong` is `PoolInv` with this balance. `NothingLost` is `PoolInv`,
`TotalsAddUp` is `EveryDocAccounted`.

**IndexingProofs, the sidecar.** From `EmbedAssumption` and `SidecarAssumption`. `EmbedInv`: the
vectors received so far are those of the first texts, in order, and an answer on
its way begins at the next; what `Client.Embed` accepts is then exactly the
batch (`AcceptedBatch`). `WarmInv`: a model that a 200 was answered with
is in the shared dict. The two share only the answer on its way.
`OwnVectors`, `Ready`.

**BenchGateProofs.** From `BenchAssumption`: finitely many latencies, percentiles in
thousandths, a positive floor; rates are scaled by a number that the wall times
divide, so that the quotients of the model are exact. Nothing bounds
the queries, documents, chunks or modes.

- `PctIs`: the figure of a percentile p is the latency l exactly if p of the
  answered queries took no longer than l and this is so of no smaller latency:
  the index ceil(p * N) - 1 into the sorted latencies says that.
- `WithinIs`, `NoSlowerIs`: that the figure of the fresh run has drifted no more
  than the tolerance is the same as that the fresh queries themselves, as many as
  before, took no longer. `RateIs`: the drift of a rate is that of the amounts
  per second.
- `GateIs` puts them together for the drifts that `compare` lists, those of lost
  modes included. The invariant `GateInv` says that the files are those of
  the runs and the exit code that of the drifts. `GreenMeansFast` and
  `RedHasCause` follow.

Only model-checked, and why:

- All liveness (`RequestsEnd`, `QueryAnswered`, `WalkEnds`, `Terminates`,
  `DocumentEnds`, `RunEnds`, `Exits`): the prover has no rules for fairness.
- `RerankHasChoice` and `Truncated`, which are false.

## 6. Where the code departs from its words

Two runs end in the violation of what the repository says:

- `hybrid_rerank_choice`: "we pull more candidates out of fusion than we will
  ultimately return" (`internal/search/hybrid.go:149-151`). The limit is 20 also
  for a k of 21 to 100, and the page is then shorter than without reranking.
- `sanitize_cap`: "truncate to MaxQueryRunes runes"
  (`internal/search/sanitize.go:26`). The fuzz test fails above it
  (`fuzz_test.go:51-53`), and a unit test asserts it for a query without blanks
  (`sanitize_test.go:57-59`). A blank is written without testing the cap, so a
  word behind one makes MaxQueryRunes + 1 runes: `aa b` against a cap of 3 gives
  four. `CappedButOne`, of the theorem `Capped`, says exactly when.

Others have no run:

- With a nil Reranker "a /v1/query with the flag set never errors out just
  because the sidecar is offline" (`hybrid.go:60-62`): the fallback still embeds
  the query and fails with the sidecar.
- "Retryable" is to tell whether the same request can succeed
  (`internal/api/errors.go:9-11`): a failed query always answers
  `retryable=false`, also after an outage of the sidecar, which `/v1/index`
  answers as retryable (`handlers.go:95` against `:194`).
- Compact "removes tombstoned docs" (`queries.go:140`): the rows of `docs` stay,
  and keep their hash. A deleted body can therefore never be indexed again: its
  re-index answers with the deleted id. DocIndex states it as a fact of the
  code.
- The README has the searches run in parallel (`README.md:97-98`) and Compact
  work in batches (`README.md:209`): they run in turn, and a
  batch is one tombstone, whatever `batchSize` says (`queries.go:208`).
- `DecodeFrame` is said to give `ErrFrameInvalid` for a short read
  (`wire.go:44-46`), and gives `io.ErrUnexpectedEOF` (`wire.go:67`).
- The client's `Health` says "ready=false signals the model is still loading"
  (`pkg/embed/client.go:98`); the sidecar builds the model on the first call and
  answers `ready=True` only (`main.py:99`). And "if the sidecar reports a
  different dimension at /healthz the server refuses to start"
  (`client.go:17-19`): the server never calls `Healthz` (the bench does,
  `bench/bench.go:98`), and the answer carries no dimension.
- The wrong model is refused by a ValueError of the constructor
  (`embedder.py:95`), which runs with the first request and not at start.
- Recoverer says "the original error is logged via the writer's header"
  (`middleware.go:45-47`): it is not logged. As Recoverer is outside RequestID
  (`handlers.go:59`), the envelope of a panic has the request id "unknown" while
  the header of the same response has the id.
- A body posted again after its deletion is answered 200, `already_exists`, with
  an id whose GET is a 404 (`queries.go:75`, `:248`).
- The bench's `-smoke` is said to "skip index, ignore empty results"
  (`bench/bench.go:77`): it only silences the log line of a failed query. A mode
  whose queries all failed reports zeros, which `compare` takes for an
  improvement (`PassIsAsFast` therefore speaks of answered queries), and documents
  that failed count in docs/sec (`bench.go:121`).
- The gate fails for a metric "beyond" the tolerance (`main.go:97`), and may fail
  for one exactly at it: as float64 (`main.go:92,167`) the drift from 1.0 ms to
  1.3 ms is 0.30000000000000004, above 0.30. `Regressed` has exact quotients,
  so `FailHasCause` and `RedHasCause` are about drifts that rounding does not
  carry across the tolerance.
- The gate's header lists `max` among the metrics (`cmd/bench-regress/main.go:14`);
  `compare` leaves it out.

## 7. What is not modelled

- Texts, scores, vectors: constants or classes.
- The health handler, a constant, and `CountDocs`, which nothing calls.
- Reading the environment, the flags, and the single checks of request bodies:
  they decide only which requests get in, and a refused one ("bad" in Service)
  is answered without meeting anything that is shared.
- Request ids, and the bytes of a reply: a second envelope after a panic in the
  middle of a write would need the writer's buffer.
- Postgres itself: that READ COMMITTED, unique indexes and row locks work is
  taken as given. Deadlock detection never fires, because no transaction here
  waits for a lock while it holds one that another waiting transaction needs
  (`RequestsEnd`).
- The progress ticker of the indexer, which reads two counters.
- Frames (`wire.go`): nothing calls them outside their tests.
- Seed (a random text generator), migrations going down, build files: no
  behaviour of the service.

## 8. The plan

Written so far, in this order: DocStore with DocIndex and their proofs, Ranking
and RankFusion, HybridQuery, ListPages, Chunker and Sanitize with proofs,
IndexerPool, EmbedBatches, ServerLifecycle; then BenchGate, Service over
ServerLifecycle and DocIndex, Sidecar over EmbedBatches, and the lexical score
in RankFusion.

To model, if something comes to call it: `Frames`, encode and decode as
operators, round trip, short and oversize input.

Left to prove: nothing that the provers can do. Liveness stays with TLC.
