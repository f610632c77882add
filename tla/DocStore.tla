------------------------------ MODULE DocStore ------------------------------
(***************************************************************************)
(* The Postgres-backed store of internal/store and the three handlers that *)
(* write through it: POST /v1/index (UpsertDoc), DELETE /v1/docs/{id}      *)
(* (DeleteDoc) and POST /v1/admin/compact (Compact).                       *)
(*                                                                         *)
(* A request is a goroutine that walks through the SQL statements of its   *)
(* transaction.  Transactions are READ COMMITTED: a statement reads the    *)
(* committed tables, a write is buffered by the program counter of its     *)
(* request (no other request sees it) and is published by COMMIT.  Only    *)
(* three things make one request wait for another: the entry an            *)
(* uncommitted INSERT holds in the unique index on docs.content_hash, row  *)
(* locks, and the size of the connection pool.                             *)
(*                                                                         *)
(* Not here: the reads GET, list and query (see ListPages and HybridQuery) *)
(* and the text of a document, of which only the number of chunks matters. *)
(***************************************************************************)
EXTENDS Naturals, FiniteSets

CONSTANTS
    Req,        \* request goroutines of the server
    Hash,       \* sha256 of a body: docs.content_hash
    DocId,      \* values of gen_random_uuid()
    NoHash,
    NoId,
    ChunksOf,   \* number of chunks the body with a given hash splits into
    MaxConns,   \* size of the connection pool (Options.MaxConns)
    MaxStarts,  \* bound: requests that arrive
    MaxFaults   \* bound: failed statements, lost commit replies and crashes

ASSUME ChunksOfAssumption == ChunksOf \in [Hash -> Nat \ {0}]
ASSUME NoneAssumption == NoHash \notin Hash /\ NoId \notin DocId
ASSUME BoundsAssumption ==
    MaxConns \in Nat \ {0} /\ MaxStarts \in Nat /\ MaxFaults \in Nat

VARIABLES
    \* the committed tables
    docHash,    \* docs.content_hash by id, NoHash where there is no row
    deleted,    \* ids whose docs.deleted_at is set
    chunks,     \* number of doc_chunks rows by doc_id
    tomb,       \* doc_tombstones by doc_id: "none", "pending", "compacted"
    \* the requests
    pc, hash, id, n,
    \* history
    due,        \* tombstones that were pending when a Compact began
    replies,    \* answers 200 given by POST /v1/index
    acks,       \* number of answers 200 given by DELETE, by id
    counted,    \* doc_chunks rows committed compactions reported deleted
    \* bounds
    starts, faults

tables  == <<docHash, deleted, chunks, tomb>>
locals  == <<hash, id, n>>
history == <<due, replies, acks, counted>>
bounds  == <<starts, faults>>
vars    == <<tables, pc, locals, history, bounds>>

(***************************************************************************)
(* Program counters, named for the statement that comes next.              *)
(***************************************************************************)
UpsertSteps  == {"insert", "chunks", "commitNew", "lookup", "count", "commitOld"}
DeleteSteps  == {"lock", "mark", "tombstone", "commitDelete"}
CompactSteps == {"purge", "markCompacted", "commitCompact"}
InTx    == UpsertSteps \union DeleteSteps \union CompactSteps
Waiting == {"beginUpsert", "beginDelete", "pick", "beginCompact"}
PC      == InTx \union Waiting \union {"idle", "drained"}

TypeOK ==
    /\ docHash \in [DocId -> Hash \union {NoHash}]
    /\ deleted \subseteq DocId
    /\ chunks \in [DocId -> Nat]
    /\ tomb \in [DocId -> {"none", "pending", "compacted"}]
    /\ pc \in [Req -> PC]
    /\ hash \in [Req -> Hash \union {NoHash}]
    /\ id \in [Req -> DocId \union {NoId}]
    /\ n \in [Req -> Nat]
    /\ due \in [Req -> SUBSET DocId]
    /\ replies \subseteq [hash : Hash, id : DocId, n : Nat, existed : BOOLEAN]
    /\ acks \in [DocId -> Nat]
    /\ counted \in [DocId -> Nat]
    /\ starts \in Nat
    /\ faults \in Nat

Init ==
    /\ docHash = [d \in DocId |-> NoHash]
    /\ deleted = {}
    /\ chunks = [d \in DocId |-> 0]
    /\ tomb = [d \in DocId |-> "none"]
    /\ pc = [r \in Req |-> "idle"]
    /\ hash = [r \in Req |-> NoHash]
    /\ id = [r \in Req |-> NoId]
    /\ n = [r \in Req |-> 0]
    /\ due = [r \in Req |-> {}]
    /\ replies = {}
    /\ acks = [d \in DocId |-> 0]
    /\ counted = [d \in DocId |-> 0]
    /\ starts = 0
    /\ faults = 0

(***************************************************************************)
(* Helpers.                                                                *)
(***************************************************************************)
Committed == {d \in DocId : docHash[d] # NoHash}

\* mutant: the SELECT forgets compacted_at IS NULL
EverDeleted == Committed \intersect deleted
Pending   == {d \in Committed : tomb[d] = "pending" /\ d \in deleted}

Goto(r, label) == pc' = [pc EXCEPT ![r] = label]

\* The handler returns: its locals die with it.
End(r) ==
    /\ Goto(r, "idle")
    /\ hash' = [hash EXCEPT ![r] = NoHash]
    /\ id' = [id EXCEPT ![r] = NoId]
    /\ n' = [n EXCEPT ![r] = 0]
    /\ due' = [due EXCEPT ![r] = {}]

\* r's INSERT INTO docs is not committed: it owns its entry of the unique index.
Claims(r) == pc[r] \in {"chunks", "commitNew"}

\* mutant of the three lock tests below: nobody waits
NotLocked(r) == FALSE

HashClaimed(r)  == \E q \in Req \ {r} : Claims(q) /\ hash[q] = hash[r]
RowLocked(r)    == \E q \in Req \ {r} :
                      /\ pc[q] \in {"mark", "tombstone", "commitDelete"}
                      /\ id[q] = id[r]
ChunksLocked(r) == \E q \in Req \ {r} :
                      /\ pc[q] \in {"markCompacted", "commitCompact"}
                      /\ id[q] = id[r]
                      /\ n[q] > 0
TombLocked(r)   == \E q \in Req \ {r} : pc[q] = "commitCompact" /\ id[q] = id[r]

\* gen_random_uuid() never gives an id twice.
FreshIds == {d \in DocId \ Committed : \A q \in Req : Claims(q) => id[q] # d}

ConnFree == Cardinality({q \in Req : pc[q] \in InTx}) < MaxConns

(***************************************************************************)
(* Requests arrive.  A retry is an arrival with the same argument.         *)
(***************************************************************************)
Arrive(r, label) ==
    /\ pc[r] = "idle"
    /\ starts < MaxStarts
    /\ starts' = starts + 1
    /\ Goto(r, label)
    /\ UNCHANGED <<tables, n, replies, acks, counted, faults>>

IndexArrives(r, h) ==
    /\ Arrive(r, "beginUpsert")
    /\ hash' = [hash EXCEPT ![r] = h]
    /\ UNCHANGED <<id, due>>

DeleteArrives(r, d) ==
    /\ Arrive(r, "beginDelete")
    /\ id' = [id EXCEPT ![r] = d]
    /\ UNCHANGED <<hash, due>>

CompactArrives(r) ==
    /\ Arrive(r, "pick")
    /\ due' = [due EXCEPT ![r] = Pending]
    /\ UNCHANGED <<hash, id>>

\* Pool.BeginTx: take a connection, if one is free.
BeginTx(r) ==
    /\ ConnFree
    /\ \/ pc[r] = "beginUpsert"  /\ Goto(r, "insert")
       \/ pc[r] = "beginDelete"  /\ Goto(r, "lock")
       \/ pc[r] = "beginCompact" /\ Goto(r, "purge")
    /\ UNCHANGED <<tables, locals, history, bounds>>

(***************************************************************************)
(* COMMIT.  The tables change even when the connection breaks before the   *)
(* server hears of it (acked = FALSE): the caller then gets an error.      *)
(***************************************************************************)
CommitReply(acked) ==
    IF acked THEN UNCHANGED bounds
             ELSE faults < MaxFaults /\ faults' = faults + 1 /\ UNCHANGED starts

(***************************************************************************)
(* UpsertDoc.                                                              *)
(***************************************************************************)
\* INSERT INTO docs .. ON CONFLICT DO NOTHING RETURNING id: waits for an
\* uncommitted row with the same hash, then inserts or finds a conflict.
InsertDoc(r) ==
    /\ pc[r] = "insert"
    /\ ~HashClaimed(r)
    /\ IF \E d \in Committed : docHash[d] = hash[r]
       THEN Goto(r, "lookup") /\ UNCHANGED id
       ELSE /\ Goto(r, "chunks")
            /\ \E d \in FreshIds : id' = [id EXCEPT ![r] = d]
    /\ UNCHANGED <<tables, hash, n, history, bounds>>

InsertChunks(r) ==
    /\ pc[r] = "chunks"
    /\ n' = [n EXCEPT ![r] = ChunksOf[hash[r]]]
    /\ Goto(r, "commitNew")
    /\ UNCHANGED <<tables, hash, id, history, bounds>>

IndexReply(r, existed) ==
    [hash |-> hash[r], id |-> id[r], n |-> n[r], existed |-> existed]

CommitNew(r, acked) ==
    /\ pc[r] = "commitNew"
    /\ docHash' = [docHash EXCEPT ![id[r]] = hash[r]]
    /\ chunks' = [chunks EXCEPT ![id[r]] = n[r]]
    /\ replies' = IF acked THEN replies \union {IndexReply(r, FALSE)} ELSE replies
    /\ CommitReply(acked)
    /\ End(r)
    /\ UNCHANGED <<deleted, tomb, acks, counted>>

\* mutant: the SELECT forgets WHERE content_hash = $1
LookupAnyId(r) ==
    /\ pc[r] = "lookup"
    /\ \E d \in Committed : id' = [id EXCEPT ![r] = d]
    /\ Goto(r, "count")
    /\ UNCHANGED <<tables, hash, n, history, bounds>>

LookupId(r) ==
    /\ pc[r] = "lookup"
    /\ \E d \in Committed : docHash[d] = hash[r] /\ id' = [id EXCEPT ![r] = d]
    /\ Goto(r, "count")
    /\ UNCHANGED <<tables, hash, n, history, bounds>>

CountChunks(r) ==
    /\ pc[r] = "count"
    /\ n' = [n EXCEPT ![r] = chunks[id[r]]]
    /\ Goto(r, "commitOld")
    /\ UNCHANGED <<tables, hash, id, history, bounds>>

CommitOld(r) ==
    /\ pc[r] = "commitOld"
    /\ replies' = replies \union {IndexReply(r, TRUE)}
    /\ End(r)
    /\ UNCHANGED <<tables, acks, counted, bounds>>

(***************************************************************************)
(* DeleteDoc.                                                              *)
(***************************************************************************)
\* SELECT deleted_at .. FOR UPDATE: no row, or a row already deleted, is 404.
LockDoc(r) ==
    /\ pc[r] = "lock"
    /\ ~RowLocked(r)
    /\ \/ /\ id[r] \in Committed \ deleted
          /\ Goto(r, "mark")
          /\ UNCHANGED <<locals, due>>
       \/ /\ id[r] \notin Committed \ deleted
          /\ End(r)
    /\ UNCHANGED <<tables, replies, acks, counted, bounds>>

MarkDeleted(r) ==
    /\ pc[r] = "mark"
    /\ Goto(r, "tombstone")
    /\ UNCHANGED <<tables, locals, history, bounds>>

InsertTombstone(r) ==
    /\ pc[r] = "tombstone"
    /\ Goto(r, "commitDelete")
    /\ UNCHANGED <<tables, locals, history, bounds>>

\* INSERT INTO doc_tombstones .. ON CONFLICT (doc_id) DO NOTHING.
Tombstoned(t) == IF t = "none" THEN "pending" ELSE t

CommitDelete(r, acked) ==
    /\ pc[r] = "commitDelete"
    /\ deleted' = deleted \union {id[r]}
    /\ tomb' = [tomb EXCEPT ![id[r]] = Tombstoned(@)]
    /\ acks' = IF acked THEN [acks EXCEPT ![id[r]] = @ + 1] ELSE acks
    /\ CommitReply(acked)
    /\ End(r)
    /\ UNCHANGED <<docHash, chunks, replies, counted>>

(***************************************************************************)
(* Compact: one transaction per tombstone, until the SELECT finds none.    *)
(***************************************************************************)
\* mutant: a Compact stops before the backlog is drained
PickAtMostSome(r) ==
    /\ pc[r] = "pick"
    /\ \/ Goto(r, "drained") /\ UNCHANGED id
       \/ /\ \E d \in Pending : id' = [id EXCEPT ![r] = d]
          /\ Goto(r, "beginCompact")
    /\ UNCHANGED <<tables, hash, n, history, bounds>>

\* The SELECT runs outside any transaction.  The order of t.deleted_at, the
\* time at which the deleting transaction began, says nothing of the order in
\* which the tombstones were committed: any pending one may come first.
PickTombstone(r) ==
    /\ pc[r] = "pick"
    /\ ConnFree
    /\ \/ /\ Pending = {}
          /\ Goto(r, "drained")
          /\ UNCHANGED id
       \/ /\ \E d \in Pending : id' = [id EXCEPT ![r] = d]
          /\ Goto(r, "beginCompact")
    /\ UNCHANGED <<tables, hash, n, history, bounds>>

\* mutant: the DELETE leaves one chunk behind
DeleteChunksButOne(r) ==
    /\ pc[r] = "purge"
    /\ ~ChunksLocked(r)
    /\ n' = [n EXCEPT ![r] = IF chunks[id[r]] = 0 THEN 0 ELSE chunks[id[r]] - 1]
    /\ Goto(r, "markCompacted")
    /\ UNCHANGED <<tables, hash, id, history, bounds>>

\* DELETE FROM doc_chunks waits for a transaction that is deleting the same
\* rows, and deletes (and counts) what is left of them.
DeleteChunks(r) ==
    /\ pc[r] = "purge"
    /\ ~ChunksLocked(r)
    /\ n' = [n EXCEPT ![r] = chunks[id[r]]]
    /\ Goto(r, "markCompacted")
    /\ UNCHANGED <<tables, hash, id, history, bounds>>

\* UPDATE doc_tombstones SET compacted_at, whether or not it is set already.
MarkCompacted(r) ==
    /\ pc[r] = "markCompacted"
    /\ ~TombLocked(r)
    /\ Goto(r, "commitCompact")
    /\ UNCHANGED <<tables, locals, history, bounds>>

CommitCompact(r, acked) ==
    /\ pc[r] = "commitCompact"
    /\ chunks' = [chunks EXCEPT ![id[r]] = @ - n[r]]
    /\ tomb' = [tomb EXCEPT ![id[r]] = "compacted"]
    /\ counted' = [counted EXCEPT ![id[r]] = @ + n[r]]
    /\ CommitReply(acked)
    /\ IF acked
       THEN /\ Goto(r, "pick")
            /\ id' = [id EXCEPT ![r] = NoId]
            /\ n' = [n EXCEPT ![r] = 0]
            /\ UNCHANGED <<hash, due>>
       ELSE End(r)
    /\ UNCHANGED <<docHash, deleted, replies, acks>>

CompactReplies(r) ==
    /\ pc[r] = "drained"
    /\ End(r)
    /\ UNCHANGED <<tables, replies, acks, counted, bounds>>

(***************************************************************************)
(* Faults: a statement fails, a client goes away or the pool gives up      *)
(* (rollback, the request ends with an error), and the server process      *)
(* crashes (every open transaction is rolled back).                        *)
(***************************************************************************)
Fail(r) ==
    /\ pc[r] \in InTx \union Waiting
    /\ faults < MaxFaults
    /\ faults' = faults + 1
    /\ End(r)
    /\ UNCHANGED <<tables, replies, acks, counted, starts>>

Crash ==
    /\ faults < MaxFaults
    /\ faults' = faults + 1
    /\ pc' = [r \in Req |-> "idle"]
    /\ hash' = [r \in Req |-> NoHash]
    /\ id' = [r \in Req |-> NoId]
    /\ n' = [r \in Req |-> 0]
    /\ due' = [r \in Req |-> {}]
    /\ UNCHANGED <<tables, replies, acks, counted, starts>>

\* A step of r that goes well: what the scheduler owes r.
Step(r) ==
    \/ BeginTx(r)
    \/ InsertDoc(r) \/ InsertChunks(r) \/ CommitNew(r, TRUE)
    \/ LookupId(r) \/ CountChunks(r) \/ CommitOld(r)
    \/ LockDoc(r) \/ MarkDeleted(r) \/ InsertTombstone(r) \/ CommitDelete(r, TRUE)
    \/ PickTombstone(r) \/ DeleteChunks(r) \/ MarkCompacted(r)
    \/ CommitCompact(r, TRUE) \/ CompactReplies(r)

Arrival(r) ==
    \/ \E h \in Hash : IndexArrives(r, h)
    \/ \E d \in DocId : DeleteArrives(r, d)
    \/ CompactArrives(r)

Fault(r) ==
    \/ CommitNew(r, FALSE) \/ CommitDelete(r, FALSE) \/ CommitCompact(r, FALSE)
    \/ Fail(r)

Next == (\E r \in Req : Arrival(r) \/ Step(r) \/ Fault(r)) \/ Crash

Spec == Init /\ [][Next]_vars

FairSpec == Spec /\ \A r \in Req : WF_vars(Step(r))

-----------------------------------------------------------------------------
(***************************************************************************)
(* Safety.                                                                 *)
(***************************************************************************)
\* No interleaving of inserts, rollbacks and retries stores one body under
\* two ids (the claim on content_hash in UpsertDoc).
HashUnique ==
    \A d, e \in Committed : docHash[d] = docHash[e] => d = e

\* A document is searchable with all of its chunks or not at all: every row of
\* docs has the chunks of its body until its tombstone is compacted, none
\* after, and there are no chunks without a row (UpsertDoc and Compact are
\* each one transaction).
WholeDocuments ==
    \A d \in DocId :
        chunks[d] = IF d \in Committed /\ tomb[d] # "compacted"
                    THEN ChunksOf[docHash[d]] ELSE 0

\* Index racing with delete never leaves a tombstone behind a live document,
\* nor a deleted document without its tombstone, which no Compact would find.
TombstoneIffDeleted ==
    \A d \in DocId : d \in deleted <=> tomb[d] # "none"

\* What an answer 200 of POST /v1/index claims.
ReplyTrue(p) ==
    /\ docHash[p.id] = p.hash
    /\ p.n \in {0, ChunksOf[p.hash]}
    /\ p.n = 0 => p.existed /\ tomb[p.id] = "compacted"
    /\ \A q \in replies : p.hash = q.hash => p.id = q.id

\* Every answer 200 of POST /v1/index stays true: the id it gave holds the
\* body for ever (whatever crashed since), the same body always gets the same
\* id, a first answer counts all chunks, and a later one counts all or, once
\* the document was compacted, none.
RepliesHold == \A p \in replies : ReplyTrue(p)

\* Of all DELETEs of one id, concurrent or replayed, at most one answers 200,
\* and then the document is deleted (the FOR UPDATE lock of DeleteDoc).
DeletedOnce ==
    \A d \in DocId : acks[d] <= 1 /\ (acks[d] = 1 => d \in deleted)

\* However many Compacts pick the same tombstone, each chunk is deleted and
\* counted once: what was counted and what is left add up to the document.
ChunksCountedOnce ==
    \A d \in Committed :
        /\ counted[d] \in 0..ChunksOf[docHash[d]]
        /\ counted[d] + chunks[d] = ChunksOf[docHash[d]]

\* A Compact that answers 200 has seen every tombstone that was pending when
\* it began compacted, by itself or by another one.
CompactDrains ==
    \A r \in Req : pc[r] = "drained" =>
        \A d \in due[r] : tomb[d] = "compacted" /\ chunks[d] = 0

(***************************************************************************)
(* Liveness.                                                               *)
(***************************************************************************)
\* Locks, the unique index and the pool never leave requests waiting for each
\* other: every request ends, and Compact's loop does.
RequestsEnd == \A r \in Req : pc[r] # "idle" ~> pc[r] = "idle"

(***************************************************************************)
(* Refinement: the committed tables are the abstract index.                *)
(***************************************************************************)
StageOf == [none |-> "live", pending |-> "deleted", compacted |-> "reclaimed"]
Stage(d) == IF d \in Committed THEN StageOf[tomb[d]] ELSE "absent"

Abstract == INSTANCE DocIndex WITH
    content <- docHash,
    stage <- [d \in DocId |-> Stage(d)],
    text <- chunks

\* Whatever the interleaving, the crashes and the retries, the tables only ever
\* change by indexing, deleting or reclaiming one whole document.
ImplementsDocIndex == Abstract!ASpec

-----------------------------------------------------------------------------
(***************************************************************************)
(* The inductive invariant: what the requests in flight know and hold.     *)
(***************************************************************************)
\* An uncommitted insert owns its hash and its id.
ClaimsOwn ==
    \A r \in Req :
        Claims(r) =>
            /\ docHash[id[r]] = NoHash
            /\ \A d \in DocId : docHash[d] # hash[r]
            /\ \A q \in Req \ {r} :
                  Claims(q) => hash[q] # hash[r] /\ id[q] # id[r]
            /\ pc[r] = "commitNew" => n[r] = ChunksOf[hash[r]]

\* A conflicting insert has found the document of its hash.
LookupsHold ==
    \A r \in Req :
        /\ pc[r] \in {"count", "commitOld"} => docHash[id[r]] = hash[r]
        /\ pc[r] = "commitOld" =>
              /\ n[r] \in {0, ChunksOf[hash[r]]}
              /\ n[r] = 0 => tomb[id[r]] = "compacted"

\* Between FOR UPDATE and COMMIT a delete owns a live row.
RowLocksOwn ==
    \A r \in Req :
        pc[r] \in {"mark", "tombstone", "commitDelete"} =>
            /\ id[r] \in Committed \ deleted
            /\ \A q \in Req \ {r} :
                  pc[q] \in {"mark", "tombstone", "commitDelete"} => id[q] # id[r]

\* A compaction works on a tombstoned document, and what it has deleted is
\* what there is, until it commits.
CompactionsOwn ==
    \A r \in Req :
        /\ pc[r] \in CompactSteps \union {"beginCompact"} => id[r] \in deleted
        /\ pc[r] \in {"markCompacted", "commitCompact"} =>
              /\ n[r] = chunks[id[r]]
              /\ n[r] > 0 => \A q \in Req \ {r} :
                    pc[q] \in {"markCompacted", "commitCompact"} => id[q] # id[r]

\* Which locals a request has at which statement.
LocalsSet ==
    \A r \in Req :
        /\ pc[r] \in UpsertSteps \union {"beginUpsert"} => hash[r] \in Hash
        /\ pc[r] \in DeleteSteps \union CompactSteps
                 \union {"beginDelete", "beginCompact", "chunks", "commitNew",
                         "count", "commitOld"} => id[r] \in DocId
        /\ due[r] \subseteq deleted

\* Only a committed document is deleted or has had chunks counted.
OnlyDocuments ==
    /\ deleted \subseteq Committed
    /\ \A d \in DocId \ Committed : counted[d] = 0

StoreInv ==
    /\ TypeOK
    /\ HashUnique /\ WholeDocuments /\ TombstoneIffDeleted /\ OnlyDocuments
    /\ RepliesHold /\ DeletedOnce /\ ChunksCountedOnce /\ CompactDrains
    /\ ClaimsOwn /\ LookupsHold /\ RowLocksOwn /\ CompactionsOwn /\ LocalsSet
=============================================================================
