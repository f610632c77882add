--------------------------- MODULE DocStoreProofs ---------------------------
(***************************************************************************)
(* The store keeps its invariants, and implements DocIndex, for any number *)
(* of requests, hashes and ids, any pool and any number of faults.         *)
(*                                                                         *)
(* StoreInv of DocStore is inductive.  Its conjuncts fall in two: those on the *)
(* committed tables and the history (TableInv), which only the COMMITs can *)
(* disturb, and those on what the requests in flight hold.  One lemma per  *)
(* action shows that it keeps StoreInv, conjunct by conjunct.                  *)
(***************************************************************************)
EXTENDS DocStore, TLAPS

TableInv ==
    /\ HashUnique /\ WholeDocuments /\ TombstoneIffDeleted /\ OnlyDocuments
    /\ RepliesHold /\ DeletedOnce /\ ChunksCountedOnce

USE DEF Goto, Committed, Claims, tables, locals, history, bounds,
        PC, InTx, Waiting, UpsertSteps, DeleteSteps, CompactSteps

LEMMA InitStore == Init => StoreInv
<1> SUFFICES ASSUME Init PROVE StoreInv
    OBVIOUS
<1> USE ChunksOfAssumption, NoneAssumption DEF Init
<1>1. TypeOK
    BY DEF TypeOK
<1>2. TableInv
    BY DEF TableInv, HashUnique, WholeDocuments, TombstoneIffDeleted,
           OnlyDocuments, RepliesHold, ReplyTrue, DeletedOnce, ChunksCountedOnce
<1>3. CompactDrains /\ ClaimsOwn /\ LookupsHold
    BY DEF CompactDrains, ClaimsOwn, LookupsHold
<1>4. RowLocksOwn /\ CompactionsOwn /\ LocalsSet
    BY DEF RowLocksOwn, CompactionsOwn, LocalsSet
<1> QED BY <1>1, <1>2, <1>3, <1>4 DEF StoreInv, TableInv

\* A step that commits nothing keeps what is said of the tables.
LEMMA TablesKept ==
    ASSUME StoreInv, UNCHANGED <<tables, replies, acks, counted>>
    PROVE  TableInv'
BY DEF StoreInv, TableInv, HashUnique, WholeDocuments, TombstoneIffDeleted,
       OnlyDocuments, RepliesHold, ReplyTrue, DeletedOnce, ChunksCountedOnce


-----------------------------------------------------------------------------
(* Requests arrive and take a connection.                                  *)

LEMMA IndexArrivesStep == ASSUME StoreInv, NEW r \in Req, NEW h \in Hash, IndexArrives(r, h) PROVE StoreInv'
<1> USE ChunksOfAssumption, NoneAssumption DEF StoreInv
<1>1. TableInv'
    BY TablesKept DEF IndexArrives, Arrive
<1>2. TypeOK'
    BY DEF TypeOK, IndexArrives, Arrive
<1>3. ClaimsOwn'
    BY DEF ClaimsOwn, TypeOK, IndexArrives, Arrive
<1>4. LookupsHold'
    BY DEF LookupsHold, TypeOK, IndexArrives, Arrive
<1>5. RowLocksOwn'
    BY DEF RowLocksOwn, TypeOK, IndexArrives, Arrive
<1>6. CompactionsOwn'
    BY DEF CompactionsOwn, TypeOK, IndexArrives, Arrive
<1>7. LocalsSet'
    BY DEF LocalsSet, TypeOK, IndexArrives, Arrive
<1>8. CompactDrains'
    BY DEF CompactDrains, TypeOK, IndexArrives, Arrive
<1> QED BY <1>1, <1>2, <1>3, <1>4, <1>5, <1>6, <1>7, <1>8 DEF TableInv

LEMMA DeleteArrivesStep == ASSUME StoreInv, NEW r \in Req, NEW d \in DocId, DeleteArrives(r, d) PROVE StoreInv'
<1> USE ChunksOfAssumption, NoneAssumption DEF StoreInv
<1>1. TableInv'
    BY TablesKept DEF DeleteArrives, Arrive
<1>2. TypeOK'
    BY DEF TypeOK, DeleteArrives, Arrive
<1>3. ClaimsOwn'
    BY DEF ClaimsOwn, TypeOK, DeleteArrives, Arrive
<1>4. LookupsHold'
    BY DEF LookupsHold, TypeOK, DeleteArrives, Arrive
<1>5. RowLocksOwn'
    BY DEF RowLocksOwn, TypeOK, DeleteArrives, Arrive
<1>6. CompactionsOwn'
    BY DEF CompactionsOwn, TypeOK, DeleteArrives, Arrive
<1>7. LocalsSet'
    BY DEF LocalsSet, TypeOK, DeleteArrives, Arrive
<1>8. CompactDrains'
    BY DEF CompactDrains, TypeOK, DeleteArrives, Arrive
<1> QED BY <1>1, <1>2, <1>3, <1>4, <1>5, <1>6, <1>7, <1>8 DEF TableInv

LEMMA CompactArrivesStep == ASSUME StoreInv, NEW r \in Req, CompactArrives(r) PROVE StoreInv'
<1> USE ChunksOfAssumption, NoneAssumption DEF StoreInv
<1>1. TableInv'
    BY TablesKept DEF CompactArrives, Arrive
<1>2. TypeOK'
    BY DEF TypeOK, Pending, CompactArrives, Arrive
<1>3. ClaimsOwn'
    BY DEF ClaimsOwn, TypeOK, CompactArrives, Arrive
<1>4. LookupsHold'
    BY DEF LookupsHold, TypeOK, CompactArrives, Arrive
<1>5. RowLocksOwn'
    BY DEF RowLocksOwn, TypeOK, CompactArrives, Arrive
<1>6. CompactionsOwn'
    BY DEF CompactionsOwn, TypeOK, CompactArrives, Arrive
<1>7. LocalsSet'
    BY DEF LocalsSet, TypeOK, Pending, CompactArrives, Arrive
<1>8. CompactDrains'
    BY DEF CompactDrains, TypeOK, CompactArrives, Arrive
<1> QED BY <1>1, <1>2, <1>3, <1>4, <1>5, <1>6, <1>7, <1>8 DEF TableInv

LEMMA BeginTxStep == ASSUME StoreInv, NEW r \in Req, BeginTx(r) PROVE StoreInv'
<1> USE ChunksOfAssumption, NoneAssumption DEF StoreInv
<1>1. TableInv'
    BY TablesKept DEF BeginTx
<1>2. TypeOK'
    BY DEF TypeOK, BeginTx
<1>3. ClaimsOwn'
    BY DEF ClaimsOwn, TypeOK, BeginTx
<1>4. LookupsHold'
    BY DEF LookupsHold, TypeOK, BeginTx
<1>5. RowLocksOwn'
    BY DEF RowLocksOwn, TypeOK, BeginTx
<1>6. CompactionsOwn'
    BY DEF CompactionsOwn, TypeOK, BeginTx
<1>7. LocalsSet'
    BY DEF LocalsSet, TypeOK, BeginTx
<1>8. CompactDrains'
    BY DEF CompactDrains, TypeOK, BeginTx
<1> QED BY <1>1, <1>2, <1>3, <1>4, <1>5, <1>6, <1>7, <1>8 DEF TableInv


-----------------------------------------------------------------------------
(* The statements of UpsertDoc before COMMIT.                              *)

LEMMA InsertDocStep == ASSUME StoreInv, NEW r \in Req, InsertDoc(r) PROVE StoreInv'
<1> USE ChunksOfAssumption, NoneAssumption DEF StoreInv
<1>1. TableInv'
    BY TablesKept DEF InsertDoc
<1>2. TypeOK'
    BY DEF TypeOK, FreshIds, InsertDoc
<1>3. ClaimsOwn'
    BY DEF ClaimsOwn, TypeOK, LocalsSet, HashClaimed, FreshIds, InsertDoc
<1>4. LookupsHold'
    BY DEF LookupsHold, TypeOK, InsertDoc
<1>5. RowLocksOwn'
    BY DEF RowLocksOwn, TypeOK, InsertDoc
<1>6. CompactionsOwn'
    BY DEF CompactionsOwn, TypeOK, InsertDoc
<1>7. LocalsSet'
    BY DEF LocalsSet, TypeOK, FreshIds, InsertDoc
<1>8. CompactDrains'
    BY DEF CompactDrains, TypeOK, InsertDoc
<1> QED BY <1>1, <1>2, <1>3, <1>4, <1>5, <1>6, <1>7, <1>8 DEF TableInv

LEMMA InsertChunksStep == ASSUME StoreInv, NEW r \in Req, InsertChunks(r) PROVE StoreInv'
<1> USE ChunksOfAssumption, NoneAssumption DEF StoreInv
<1>1. TableInv'
    BY TablesKept DEF InsertChunks
<1>2. TypeOK'
    BY DEF TypeOK, LocalsSet, InsertChunks
<1>3. ClaimsOwn'
    BY DEF ClaimsOwn, TypeOK, LocalsSet, InsertChunks
<1>4. LookupsHold'
    BY DEF LookupsHold, TypeOK, InsertChunks
<1>5. RowLocksOwn'
    BY DEF RowLocksOwn, TypeOK, InsertChunks
<1>6. CompactionsOwn'
    BY DEF CompactionsOwn, TypeOK, InsertChunks
<1>7. LocalsSet'
    BY DEF LocalsSet, TypeOK, InsertChunks
<1>8. CompactDrains'
    BY DEF CompactDrains, TypeOK, InsertChunks
<1> QED BY <1>1, <1>2, <1>3, <1>4, <1>5, <1>6, <1>7, <1>8 DEF TableInv

LEMMA LookupIdStep == ASSUME StoreInv, NEW r \in Req, LookupId(r) PROVE StoreInv'
<1> USE ChunksOfAssumption, NoneAssumption DEF StoreInv
<1>1. TableInv'
    BY TablesKept DEF LookupId
<1>2. TypeOK'
    BY DEF TypeOK, LookupId
<1>3. ClaimsOwn'
    BY DEF ClaimsOwn, TypeOK, LookupId
<1>4. LookupsHold'
    BY DEF LookupsHold, TypeOK, LookupId
<1>5. RowLocksOwn'
    BY DEF RowLocksOwn, TypeOK, LookupId
<1>6. CompactionsOwn'
    BY DEF CompactionsOwn, TypeOK, LookupId
<1>7. LocalsSet'
    BY DEF LocalsSet, TypeOK, LookupId
<1>8. CompactDrains'
    BY DEF CompactDrains, TypeOK, LookupId
<1> QED BY <1>1, <1>2, <1>3, <1>4, <1>5, <1>6, <1>7, <1>8 DEF TableInv

LEMMA CountChunksStep == ASSUME StoreInv, NEW r \in Req, CountChunks(r) PROVE StoreInv'
<1> USE ChunksOfAssumption, NoneAssumption DEF StoreInv
<1>1. TableInv'
    BY TablesKept DEF CountChunks
<1>2. TypeOK'
    BY DEF TypeOK, LocalsSet, CountChunks
<1>3. ClaimsOwn'
    BY DEF ClaimsOwn, TypeOK, CountChunks
<1>4. LookupsHold'
    BY DEF LookupsHold, TypeOK, LocalsSet, WholeDocuments, CountChunks
<1>5. RowLocksOwn'
    BY DEF RowLocksOwn, TypeOK, CountChunks
<1>6. CompactionsOwn'
    BY DEF CompactionsOwn, TypeOK, CountChunks
<1>7. LocalsSet'
    BY DEF LocalsSet, TypeOK, CountChunks
<1>8. CompactDrains'
    BY DEF CompactDrains, TypeOK, CountChunks
<1> QED BY <1>1, <1>2, <1>3, <1>4, <1>5, <1>6, <1>7, <1>8 DEF TableInv


-----------------------------------------------------------------------------
(* The statements of DeleteDoc before COMMIT.                              *)

LEMMA LockDocStep == ASSUME StoreInv, NEW r \in Req, LockDoc(r) PROVE StoreInv'
<1> USE ChunksOfAssumption, NoneAssumption DEF StoreInv
<1>1. TableInv'
    BY TablesKept DEF LockDoc, End
<1>2. TypeOK'
    BY DEF TypeOK, LockDoc, End
<1>3. ClaimsOwn'
    BY DEF ClaimsOwn, TypeOK, LockDoc, End
<1>4. LookupsHold'
    BY DEF LookupsHold, TypeOK, LockDoc, End
<1>5. RowLocksOwn'
    BY DEF RowLocksOwn, TypeOK, RowLocked, LocalsSet, LockDoc, End
<1>6. CompactionsOwn'
    BY DEF CompactionsOwn, TypeOK, LockDoc, End
<1>7. LocalsSet'
    BY DEF LocalsSet, TypeOK, LockDoc, End
<1>8. CompactDrains'
    BY DEF CompactDrains, TypeOK, LockDoc, End
<1> QED BY <1>1, <1>2, <1>3, <1>4, <1>5, <1>6, <1>7, <1>8 DEF TableInv

LEMMA MarkDeletedStep == ASSUME StoreInv, NEW r \in Req, MarkDeleted(r) PROVE StoreInv'
<1> USE ChunksOfAssumption, NoneAssumption DEF StoreInv
<1>1. TableInv'
    BY TablesKept DEF MarkDeleted
<1>2. TypeOK'
    BY DEF TypeOK, MarkDeleted
<1>3. ClaimsOwn'
    BY DEF ClaimsOwn, TypeOK, MarkDeleted
<1>4. LookupsHold'
    BY DEF LookupsHold, TypeOK, MarkDeleted
<1>5. RowLocksOwn'
    BY DEF RowLocksOwn, TypeOK, MarkDeleted
<1>6. CompactionsOwn'
    BY DEF CompactionsOwn, TypeOK, MarkDeleted
<1>7. LocalsSet'
    BY DEF LocalsSet, TypeOK, MarkDeleted
<1>8. CompactDrains'
    BY DEF CompactDrains, TypeOK, MarkDeleted
<1> QED BY <1>1, <1>2, <1>3, <1>4, <1>5, <1>6, <1>7, <1>8 DEF TableInv

LEMMA InsertTombstoneStep == ASSUME StoreInv, NEW r \in Req, InsertTombstone(r) PROVE StoreInv'
<1> USE ChunksOfAssumption, NoneAssumption DEF StoreInv
<1>1. TableInv'
    BY TablesKept DEF InsertTombstone
<1>2. TypeOK'
    BY DEF TypeOK, InsertTombstone
<1>3. ClaimsOwn'
    BY DEF ClaimsOwn, TypeOK, InsertTombstone
<1>4. LookupsHold'
    BY DEF LookupsHold, TypeOK, InsertTombstone
<1>5. RowLocksOwn'
    BY DEF RowLocksOwn, TypeOK, InsertTombstone
<1>6. CompactionsOwn'
    BY DEF CompactionsOwn, TypeOK, InsertTombstone
<1>7. LocalsSet'
    BY DEF LocalsSet, TypeOK, InsertTombstone
<1>8. CompactDrains'
    BY DEF CompactDrains, TypeOK, InsertTombstone
<1> QED BY <1>1, <1>2, <1>3, <1>4, <1>5, <1>6, <1>7, <1>8 DEF TableInv


-----------------------------------------------------------------------------
(* The statements of Compact before COMMIT.                                *)

LEMMA PickTombstoneStep == ASSUME StoreInv, NEW r \in Req, PickTombstone(r) PROVE StoreInv'
<1> USE ChunksOfAssumption, NoneAssumption DEF StoreInv
<1>1. TableInv'
    BY TablesKept DEF PickTombstone, Pending
<1>2. TypeOK'
    BY DEF TypeOK, PickTombstone, Pending
<1>3. ClaimsOwn'
    BY DEF ClaimsOwn, TypeOK, PickTombstone, Pending
<1>4. LookupsHold'
    BY DEF LookupsHold, TypeOK, PickTombstone, Pending
<1>5. RowLocksOwn'
    BY DEF RowLocksOwn, TypeOK, PickTombstone, Pending
<1>6. CompactionsOwn'
    BY DEF CompactionsOwn, TypeOK, PickTombstone, Pending
<1>7. LocalsSet'
    BY DEF LocalsSet, TypeOK, PickTombstone, Pending
<1>8. CompactDrains'
    BY DEF CompactDrains, TypeOK, LocalsSet, WholeDocuments,
           TombstoneIffDeleted, OnlyDocuments, PickTombstone, Pending
<1> QED BY <1>1, <1>2, <1>3, <1>4, <1>5, <1>6, <1>7, <1>8 DEF TableInv

LEMMA DeleteChunksStep == ASSUME StoreInv, NEW r \in Req, DeleteChunks(r) PROVE StoreInv'
<1> USE ChunksOfAssumption, NoneAssumption DEF StoreInv
<1>1. TableInv'
    BY TablesKept DEF DeleteChunks
<1>2. TypeOK'
    BY DEF TypeOK, LocalsSet, DeleteChunks
<1>3. ClaimsOwn'
    BY DEF ClaimsOwn, TypeOK, DeleteChunks
<1>4. LookupsHold'
    BY DEF LookupsHold, TypeOK, DeleteChunks
<1>5. RowLocksOwn'
    BY DEF RowLocksOwn, TypeOK, DeleteChunks
<1>6. CompactionsOwn'
    BY DEF CompactionsOwn, TypeOK, ChunksLocked, LocalsSet, DeleteChunks
<1>7. LocalsSet'
    BY DEF LocalsSet, TypeOK, DeleteChunks
<1>8. CompactDrains'
    BY DEF CompactDrains, TypeOK, DeleteChunks
<1> QED BY <1>1, <1>2, <1>3, <1>4, <1>5, <1>6, <1>7, <1>8 DEF TableInv

LEMMA MarkCompactedStep == ASSUME StoreInv, NEW r \in Req, MarkCompacted(r) PROVE StoreInv'
<1> USE ChunksOfAssumption, NoneAssumption DEF StoreInv
<1>1. TableInv'
    BY TablesKept DEF MarkCompacted
<1>2. TypeOK'
    BY DEF TypeOK, MarkCompacted
<1>3. ClaimsOwn'
    BY DEF ClaimsOwn, TypeOK, MarkCompacted
<1>4. LookupsHold'
    BY DEF LookupsHold, TypeOK, MarkCompacted
<1>5. RowLocksOwn'
    BY DEF RowLocksOwn, TypeOK, MarkCompacted
<1>6. CompactionsOwn'
    BY DEF CompactionsOwn, TypeOK, MarkCompacted
<1>7. LocalsSet'
    BY DEF LocalsSet, TypeOK, MarkCompacted
<1>8. CompactDrains'
    BY DEF CompactDrains, TypeOK, MarkCompacted
<1> QED BY <1>1, <1>2, <1>3, <1>4, <1>5, <1>6, <1>7, <1>8 DEF TableInv

LEMMA CompactRepliesStep == ASSUME StoreInv, NEW r \in Req, CompactReplies(r) PROVE StoreInv'
<1> USE ChunksOfAssumption, NoneAssumption DEF StoreInv
<1>1. TableInv'
    BY TablesKept DEF CompactReplies, End
<1>2. TypeOK'
    BY DEF TypeOK, CompactReplies, End
<1>3. ClaimsOwn'
    BY DEF ClaimsOwn, TypeOK, CompactReplies, End
<1>4. LookupsHold'
    BY DEF LookupsHold, TypeOK, CompactReplies, End
<1>5. RowLocksOwn'
    BY DEF RowLocksOwn, TypeOK, CompactReplies, End
<1>6. CompactionsOwn'
    BY DEF CompactionsOwn, TypeOK, CompactReplies, End
<1>7. LocalsSet'
    BY DEF LocalsSet, TypeOK, CompactReplies, End
<1>8. CompactDrains'
    BY DEF CompactDrains, TypeOK, CompactReplies, End
<1> QED BY <1>1, <1>2, <1>3, <1>4, <1>5, <1>6, <1>7, <1>8 DEF TableInv


-----------------------------------------------------------------------------
(* Faults.                                                                 *)

LEMMA FailStep == ASSUME StoreInv, NEW r \in Req, Fail(r) PROVE StoreInv'
<1> USE ChunksOfAssumption, NoneAssumption DEF StoreInv
<1>1. TableInv'
    BY TablesKept DEF Fail, End
<1>2. TypeOK'
    BY DEF TypeOK, Fail, End
<1>3. ClaimsOwn'
    BY DEF ClaimsOwn, TypeOK, Fail, End
<1>4. LookupsHold'
    BY DEF LookupsHold, TypeOK, Fail, End
<1>5. RowLocksOwn'
    BY DEF RowLocksOwn, TypeOK, Fail, End
<1>6. CompactionsOwn'
    BY DEF CompactionsOwn, TypeOK, Fail, End
<1>7. LocalsSet'
    BY DEF LocalsSet, TypeOK, Fail, End
<1>8. CompactDrains'
    BY DEF CompactDrains, TypeOK, Fail, End
<1> QED BY <1>1, <1>2, <1>3, <1>4, <1>5, <1>6, <1>7, <1>8 DEF TableInv

LEMMA CrashStep == ASSUME StoreInv, Crash PROVE StoreInv'
<1> USE ChunksOfAssumption, NoneAssumption DEF StoreInv
<1>1. TableInv'
    BY TablesKept DEF Crash
<1>2. TypeOK'
    BY DEF TypeOK, Crash
<1>3. ClaimsOwn'
    BY DEF ClaimsOwn, TypeOK, Crash
<1>4. LookupsHold'
    BY DEF LookupsHold, TypeOK, Crash
<1>5. RowLocksOwn'
    BY DEF RowLocksOwn, TypeOK, Crash
<1>6. CompactionsOwn'
    BY DEF CompactionsOwn, TypeOK, Crash
<1>7. LocalsSet'
    BY DEF LocalsSet, TypeOK, Crash
<1>8. CompactDrains'
    BY DEF CompactDrains, TypeOK, Crash
<1> QED BY <1>1, <1>2, <1>3, <1>4, <1>5, <1>6, <1>7, <1>8 DEF TableInv


-----------------------------------------------------------------------------
(* COMMIT.                                                                 *)

\* What an answer of POST /v1/index looks like.
LEMMA IndexReplyType ==
    ASSUME TypeOK, NEW r \in Req, NEW existed \in BOOLEAN,
           hash[r] \in Hash, id[r] \in DocId
    PROVE  IndexReply(r, existed)
               \in [hash : Hash, id : DocId, n : Nat, existed : BOOLEAN]
BY DEF IndexReply, TypeOK

\* Answers stay true when one that is true is added, if what they say of the
\* tables does not change.
LEMMA RepliesGrow ==
    ASSUME RepliesHold, NEW new,
           replies' \subseteq replies \union {new},
           \A p \in replies : docHash'[p.id] = docHash[p.id],
           \A p \in replies : tomb[p.id] = "compacted" => tomb'[p.id] = "compacted",
           ReplyTrue(new)'
    PROVE  RepliesHold'
<1> SUFFICES ASSUME NEW p \in replies', p # new PROVE ReplyTrue(p)'
    BY DEF RepliesHold
<1>1. p \in replies /\ ReplyTrue(p)
    BY DEF RepliesHold
<1>2. \A q \in replies' : p.hash = q.hash => p.id = q.id
    <2> SUFFICES ASSUME NEW q \in replies', p.hash = q.hash PROVE p.id = q.id
        OBVIOUS
    <2>1. CASE q = new
        BY <2>1 DEF ReplyTrue
    <2>2. CASE q # new
        BY <1>1, <2>2 DEF ReplyTrue
    <2> QED BY <2>1, <2>2
<1> QED BY <1>1, <1>2 DEF ReplyTrue

\* No table changes, one answer is added: it agrees with the earlier ones
\* because the hash has one document.
LEMMA CommitOldStep == ASSUME StoreInv, NEW r \in Req, CommitOld(r) PROVE StoreInv'
<1> USE ChunksOfAssumption, NoneAssumption DEF StoreInv, CommitOld, End
<1>1. TypeOK'
    BY IndexReplyType DEF TypeOK, LocalsSet
<1>2. (HashUnique /\ WholeDocuments /\ TombstoneIffDeleted /\ OnlyDocuments)'
    BY DEF HashUnique, WholeDocuments, TombstoneIffDeleted, OnlyDocuments
<1>3. (DeletedOnce /\ ChunksCountedOnce)'
    BY DEF DeletedOnce, ChunksCountedOnce
<1>4. RepliesHold'
    <2>0. PICK new : new = IndexReply(r, TRUE)
        OBVIOUS
    <2>1. new = [hash |-> hash[r], id |-> id[r], n |-> n[r], existed |-> TRUE]
        BY <2>0 DEF IndexReply
    <2>2. hash[r] \in Hash /\ id[r] \in DocId /\ docHash[id[r]] = hash[r]
        BY DEF LocalsSet, LookupsHold
    <2>3. /\ n[r] \in {0, ChunksOf[hash[r]]}
          /\ n[r] = 0 => tomb[id[r]] = "compacted"
        BY DEF LookupsHold
    <2>4. \A p \in replies : p.hash = hash[r] => p.id = id[r]
        BY <2>2 DEF RepliesHold, ReplyTrue, HashUnique, TypeOK
    <2>5. /\ replies' \subseteq replies \union {new}
          /\ docHash' = docHash /\ tomb' = tomb
        BY <2>0
    <2>6. ReplyTrue(new)'
        BY <2>1, <2>2, <2>3, <2>4, <2>5 DEF ReplyTrue
    <2> QED BY <2>5, <2>6, RepliesGrow
<1>5. ClaimsOwn' /\ LookupsHold'
    BY DEF ClaimsOwn, LookupsHold, TypeOK
<1>6. RowLocksOwn' /\ CompactionsOwn'
    BY DEF RowLocksOwn, CompactionsOwn, TypeOK
<1>7. LocalsSet' /\ CompactDrains'
    BY DEF LocalsSet, CompactDrains, TypeOK
<1> QED BY <1>1, <1>2, <1>3, <1>4, <1>5, <1>6, <1>7

\* The claim is what makes the new row the only one of its hash.
LEMMA CommitNewStep ==
    ASSUME StoreInv, NEW r \in Req, NEW acked \in BOOLEAN, CommitNew(r, acked)
    PROVE  StoreInv'
<1> USE ChunksOfAssumption, NoneAssumption DEF StoreInv, CommitNew, CommitReply, End
<1>0. PICK new : new = IndexReply(r, FALSE)
    OBVIOUS
<1>1. TypeOK'
    <2>1. new \in [hash : Hash, id : DocId, n : Nat, existed : BOOLEAN]
        BY <1>0, IndexReplyType DEF LocalsSet
    <2>2. /\ replies' \subseteq replies \union {new}
          /\ starts' = starts /\ faults' \in {faults, faults + 1}
        BY <1>0
    <2>3. docHash' \in [DocId -> Hash \union {NoHash}] /\ chunks' \in [DocId -> Nat]
        BY DEF TypeOK, LocalsSet
    <2>4. replies' \subseteq [hash : Hash, id : DocId, n : Nat, existed : BOOLEAN]
        BY <2>1, <2>2 DEF TypeOK
    <2>5. /\ pc' \in [Req -> PC] /\ hash' \in [Req -> Hash \union {NoHash}]
          /\ id' \in [Req -> DocId \union {NoId}] /\ n' \in [Req -> Nat]
          /\ due' \in [Req -> SUBSET DocId]
        BY DEF TypeOK
    <2>6. starts' \in Nat /\ faults' \in Nat
        BY <2>2 DEF TypeOK
    <2> QED BY <2>3, <2>4, <2>5, <2>6 DEF TypeOK
<1>2. /\ hash[r] \in Hash /\ id[r] \in DocId \ Committed
      /\ \A d \in DocId : docHash[d] # hash[r]
      /\ n[r] = ChunksOf[hash[r]]
    BY DEF ClaimsOwn, LocalsSet
<1>3. HashUnique'
    BY <1>2 DEF HashUnique, TypeOK
<1>4. (WholeDocuments /\ TombstoneIffDeleted /\ OnlyDocuments)'
    BY <1>2 DEF WholeDocuments, TombstoneIffDeleted, OnlyDocuments, TypeOK
<1>5. RepliesHold'
    <2>1. new = [hash |-> hash[r], id |-> id[r], n |-> n[r], existed |-> FALSE]
        BY <1>0 DEF IndexReply
    <2>2. \A p \in replies : p.id # id[r] /\ p.hash # hash[r] /\ p.id \in DocId
        BY <1>2 DEF RepliesHold, ReplyTrue, TypeOK
    <2>3. /\ replies' \subseteq replies \union {new}
          /\ \A p \in replies : docHash'[p.id] = docHash[p.id]
          /\ tomb' = tomb
        BY <1>0, <2>2 DEF TypeOK
    <2>4. ReplyTrue(new)'
        <3>1. docHash'[new.id] = new.hash
            BY <1>2, <2>1 DEF TypeOK
        <3>2. new.n = ChunksOf[new.hash] /\ new.n # 0
            BY <1>2, <2>1
        <3>3. \A q \in replies' : q = new \/ q.hash # new.hash
            BY <2>1, <2>2, <2>3
        <3>4. \A q \in replies' : new.hash = q.hash => new.id = q.id
            BY <3>3
        <3> QED BY <3>1, <3>2, <3>4, Zenon DEF ReplyTrue
    <2> QED BY <2>3, <2>4, RepliesGrow
<1>6. DeletedOnce' /\ ChunksCountedOnce'
    BY <1>2 DEF DeletedOnce, ChunksCountedOnce, OnlyDocuments, TypeOK
<1>7. ClaimsOwn' /\ LookupsHold'
    BY <1>2 DEF ClaimsOwn, LookupsHold, LocalsSet, TypeOK
<1>8. RowLocksOwn'
    BY <1>2 DEF RowLocksOwn, TypeOK
<1>9. CompactionsOwn'
    BY <1>2 DEF CompactionsOwn, OnlyDocuments, LocalsSet, TypeOK
<1>10. LocalsSet' /\ CompactDrains'
    BY <1>2 DEF LocalsSet, CompactDrains, OnlyDocuments, TypeOK
<1> QED BY <1>1, <1>3, <1>4, <1>5, <1>6, <1>7, <1>8, <1>9, <1>10

\* The row lock is what makes the answer the only one for its id.
LEMMA CommitDeleteStep ==
    ASSUME StoreInv, NEW r \in Req, NEW acked \in BOOLEAN, CommitDelete(r, acked)
    PROVE  StoreInv'
<1> USE ChunksOfAssumption, NoneAssumption DEF StoreInv, CommitDelete, Tombstoned, CommitReply, End
<1>1. TypeOK'
    <2>1. /\ acks' \in {acks, [acks EXCEPT ![id[r]] = @ + 1]}
          /\ starts' = starts /\ faults' \in {faults, faults + 1}
        OBVIOUS
    <2> QED BY <2>1 DEF TypeOK, RowLocksOwn
<1>2. id[r] \in Committed \ deleted /\ tomb[id[r]] = "none"
    BY DEF RowLocksOwn, TombstoneIffDeleted
<1>3. (HashUnique /\ WholeDocuments /\ TombstoneIffDeleted /\ OnlyDocuments)'
    BY <1>2 DEF HashUnique, WholeDocuments, TombstoneIffDeleted, OnlyDocuments,
                TypeOK
<1>4. RepliesHold'
    BY <1>2 DEF RepliesHold, ReplyTrue, TypeOK
<1>5. DeletedOnce' /\ ChunksCountedOnce'
    BY <1>2 DEF DeletedOnce, ChunksCountedOnce, TypeOK
<1>6. ClaimsOwn' /\ LookupsHold'
    BY <1>2 DEF ClaimsOwn, LookupsHold, TypeOK
<1>7. RowLocksOwn' /\ CompactionsOwn'
    BY <1>2 DEF RowLocksOwn, CompactionsOwn, TypeOK
<1>8. LocalsSet' /\ CompactDrains'
    BY <1>2 DEF LocalsSet, CompactDrains, TypeOK
<1> QED BY <1>1, <1>3, <1>4, <1>5, <1>6, <1>7, <1>8

\* What it deleted is all there is, so nothing is left and nothing is counted
\* twice, whoever else compacts the same tombstone.
LEMMA CommitCompactStep ==
    ASSUME StoreInv, NEW r \in Req, NEW acked \in BOOLEAN, CommitCompact(r, acked)
    PROVE  StoreInv'
<1> USE ChunksOfAssumption, NoneAssumption
        DEF StoreInv, CommitCompact, CommitReply, End
<1>1. /\ id[r] \in deleted /\ id[r] \in Committed /\ tomb[id[r]] # "none"
      /\ n[r] = chunks[id[r]]
    BY DEF CompactionsOwn, OnlyDocuments, TombstoneIffDeleted
<1>2. chunks' = [chunks EXCEPT ![id[r]] = 0]
    <2>1. chunks[id[r]] \in Nat
        BY <1>1 DEF TypeOK
    <2>2. chunks[id[r]] - n[r] = 0
        BY <1>1, <2>1
    <2>3. chunks' = [chunks EXCEPT ![id[r]] = chunks[id[r]] - n[r]]
        OBVIOUS
    <2> QED BY <2>2, <2>3
<1>3. TypeOK'
    <2>1. CASE acked
        BY <2>1, <1>1, <1>2 DEF TypeOK
    <2>2. CASE ~acked
        BY <2>2, <1>1, <1>2 DEF TypeOK
    <2> QED BY <2>1, <2>2
<1>4. (HashUnique /\ WholeDocuments /\ TombstoneIffDeleted /\ OnlyDocuments)'
    BY <1>1, <1>2 DEF HashUnique, WholeDocuments, TombstoneIffDeleted,
                      OnlyDocuments, TypeOK
<1>5. RepliesHold'
    BY <1>1 DEF RepliesHold, ReplyTrue, TypeOK
<1>6. DeletedOnce' /\ ChunksCountedOnce'
    BY <1>1, <1>2 DEF DeletedOnce, ChunksCountedOnce, TypeOK
<1>7. ClaimsOwn' /\ LookupsHold'
    BY <1>1 DEF ClaimsOwn, LookupsHold, LocalsSet, TypeOK
<1>8. RowLocksOwn'
    BY <1>1 DEF RowLocksOwn, TypeOK
<1>9. CompactionsOwn'
    BY <1>1, <1>2 DEF CompactionsOwn, LocalsSet, TypeOK
<1>10. LocalsSet' /\ CompactDrains'
    BY <1>1, <1>2 DEF LocalsSet, CompactDrains, TypeOK
<1> QED BY <1>3, <1>4, <1>5, <1>6, <1>7, <1>8, <1>9, <1>10

-----------------------------------------------------------------------------
LEMMA NextStore == StoreInv /\ [Next]_vars => StoreInv'
<1> SUFFICES ASSUME StoreInv, [Next]_vars PROVE StoreInv'
    OBVIOUS
<1>1. CASE UNCHANGED vars
    BY <1>1 DEF vars, StoreInv, TypeOK, HashUnique, WholeDocuments,
        TombstoneIffDeleted, OnlyDocuments, RepliesHold, ReplyTrue, DeletedOnce,
        ChunksCountedOnce, CompactDrains, ClaimsOwn, LookupsHold, RowLocksOwn,
        CompactionsOwn, LocalsSet
<1>2. CASE Crash
    BY <1>2, CrashStep
<1>3. ASSUME NEW r \in Req, Arrival(r) PROVE StoreInv'
    BY <1>3, IndexArrivesStep, DeleteArrivesStep, CompactArrivesStep DEF Arrival
<1>4. ASSUME NEW r \in Req, Step(r) PROVE StoreInv'
    <2>1. CASE BeginTx(r)
        BY <2>1, BeginTxStep
    <2>2. CASE InsertDoc(r) \/ InsertChunks(r) \/ CommitNew(r, TRUE)
        BY <2>2, InsertDocStep, InsertChunksStep, CommitNewStep
    <2>3. CASE LookupId(r) \/ CountChunks(r) \/ CommitOld(r)
        BY <2>3, LookupIdStep, CountChunksStep, CommitOldStep
    <2>4. CASE LockDoc(r) \/ MarkDeleted(r)
        BY <2>4, LockDocStep, MarkDeletedStep
    <2>5. CASE InsertTombstone(r) \/ CommitDelete(r, TRUE)
        BY <2>5, InsertTombstoneStep, CommitDeleteStep
    <2>6. CASE PickTombstone(r) \/ DeleteChunks(r) \/ MarkCompacted(r)
        BY <2>6, PickTombstoneStep, DeleteChunksStep, MarkCompactedStep
    <2>7. CASE CommitCompact(r, TRUE) \/ CompactReplies(r)
        BY <2>7, CommitCompactStep, CompactRepliesStep
    <2> QED BY <1>4, <2>1, <2>2, <2>3, <2>4, <2>5, <2>6, <2>7 DEF Step
<1>5. ASSUME NEW r \in Req, Fault(r) PROVE StoreInv'
    BY <1>5, CommitNewStep, CommitDeleteStep, CommitCompactStep, FailStep
    DEF Fault
<1> QED BY <1>1, <1>2, <1>3, <1>4, <1>5 DEF Next

\* The invariant of every execution: what requests in flight hold, and all of
\* the properties of the tables that follow.
THEOREM Invariant == Spec => []StoreInv
BY InitStore, NextStore, PTL DEF Spec

\* The tables, the requests and the history always have their types.
THEOREM TypeCorrect == Spec => []TypeOK
<1>1. StoreInv => TypeOK
    BY DEF StoreInv
<1> QED BY <1>1, Invariant, PTL

\* One body is never stored under two ids, and what POST /v1/index answered
\* stays true through retries, rollbacks and crashes.
THEOREM IdempotentIndex == Spec => [](HashUnique /\ RepliesHold)
<1>1. StoreInv => HashUnique /\ RepliesHold
    BY DEF StoreInv
<1> QED BY <1>1, Invariant, PTL

\* Documents are there whole or not at all, at every commit, crash or rollback.
THEOREM DocumentsWhole == Spec => []WholeDocuments
<1>1. StoreInv => WholeDocuments
    BY DEF StoreInv
<1> QED BY <1>1, Invariant, PTL

\* Exactly the deleted documents have a tombstone, and one DELETE at most is
\* acknowledged for each.
THEOREM DeletesExact == Spec => [](TombstoneIffDeleted /\ DeletedOnce)
<1>1. StoreInv => TombstoneIffDeleted /\ DeletedOnce
    BY DEF StoreInv
<1> QED BY <1>1, Invariant, PTL

\* Concurrent compactions count every chunk once.
THEOREM CompactionExact == Spec => []ChunksCountedOnce
<1>1. StoreInv => ChunksCountedOnce
    BY DEF StoreInv
<1> QED BY <1>1, Invariant, PTL

\* A compaction that answers 200 leaves nothing behind that was pending when it
\* began, whoever else compacts or deletes meanwhile.
THEOREM CompactionDrains == Spec => []CompactDrains
<1>1. StoreInv => CompactDrains
    BY DEF StoreInv
<1> QED BY <1>1, Invariant, PTL

-----------------------------------------------------------------------------
(* The committed tables implement DocIndex.                                *)

\* Statements that commit nothing do not change the abstract index.
LEMMA NoCommitStutters ==
    ASSUME UNCHANGED <<docHash, chunks, tomb>>
    PROVE  UNCHANGED Abstract!avars
BY DEF Abstract!avars, Stage, StageOf

LEMMA CommitNewIndexes ==
    ASSUME StoreInv, NEW r \in Req, NEW acked \in BOOLEAN, CommitNew(r, acked)
    PROVE  Abstract!ANext
<1> USE ChunksOfAssumption, NoneAssumption DEF StoreInv
<1>0. PICK d, h : d = id[r] /\ h = hash[r]
    OBVIOUS
<1>1. /\ h \in Hash /\ d \in DocId
      /\ docHash[d] = NoHash /\ tomb[d] = "none"
      /\ \A e \in DocId : docHash[e] # h
      /\ n[r] = ChunksOf[h]
    BY <1>0 DEF ClaimsOwn, LocalsSet, CommitNew, OnlyDocuments, TombstoneIffDeleted,
           TypeOK
<1>2. /\ docHash' = [docHash EXCEPT ![d] = h]
      /\ chunks' = [chunks EXCEPT ![d] = ChunksOf[h]]
      /\ tomb' = tomb
    BY <1>0, <1>1 DEF CommitNew
<1>3. Stage(d) = "absent" /\ Stage(d)' = "live"
    BY <1>1, <1>2 DEF Stage, StageOf, TypeOK
<1>4. \A e \in DocId \ {d} : Stage(e)' = Stage(e)
    BY <1>1, <1>2 DEF Stage, StageOf, TypeOK
<1>5. Abstract!Index(h, d)
    BY <1>1, <1>2, <1>3, <1>4 DEF Abstract!Index, TypeOK
<1> QED BY <1>1, <1>5 DEF Abstract!ANext

LEMMA CommitDeleteDeletes ==
    ASSUME StoreInv, NEW r \in Req, NEW acked \in BOOLEAN, CommitDelete(r, acked)
    PROVE  Abstract!ANext
<1> USE NoneAssumption DEF StoreInv
<1>0. PICK d : d = id[r]
    OBVIOUS
<1>1. d \in Committed \ deleted /\ tomb[d] = "none"
    BY <1>0 DEF RowLocksOwn, TombstoneIffDeleted, CommitDelete
<1>2. /\ docHash' = docHash /\ chunks' = chunks
      /\ tomb' = [tomb EXCEPT ![d] = "pending"]
    BY <1>0, <1>1 DEF CommitDelete, Tombstoned, TypeOK
<1>3. Stage(d) = "live" /\ Stage(d)' = "deleted"
    BY <1>1, <1>2 DEF Stage, StageOf, TypeOK
<1>4. \A e \in DocId \ {d} : Stage(e)' = Stage(e)
    BY <1>1, <1>2 DEF Stage, StageOf, TypeOK
<1>5. Abstract!Delete(d)
    BY <1>1, <1>2, <1>3, <1>4 DEF Abstract!Delete, TypeOK
<1> QED BY <1>1, <1>5 DEF Abstract!ANext

\* The second compaction of one tombstone is a stutter.
LEMMA CommitCompactReclaims ==
    ASSUME StoreInv, NEW r \in Req, NEW acked \in BOOLEAN, CommitCompact(r, acked)
    PROVE  Abstract!ANext \/ UNCHANGED Abstract!avars
<1> USE ChunksOfAssumption, NoneAssumption DEF StoreInv
<1>0. PICK d : d = id[r]
    OBVIOUS
<1>1. /\ d \in deleted /\ d \in Committed /\ tomb[d] # "none"
      /\ n[r] = chunks[d] /\ chunks[d] \in Nat
    BY <1>0 DEF CompactionsOwn, OnlyDocuments, TombstoneIffDeleted, CommitCompact,
           TypeOK
<1>2. n[r] - n[r] = 0
    BY <1>1
<1>3. /\ docHash' = docHash
      /\ chunks' = [chunks EXCEPT ![d] = 0]
      /\ tomb' = [tomb EXCEPT ![d] = "compacted"]
    BY <1>0, <1>1, <1>2 DEF CommitCompact
<1>4. CASE tomb[d] = "compacted"
    <2>1. chunks[d] = 0
        BY <1>1, <1>4 DEF WholeDocuments
    <2>2. chunks' = chunks /\ tomb' = tomb
        BY <1>1, <1>3, <1>4, <2>1 DEF TypeOK
    <2> QED BY <1>3, <2>2, NoCommitStutters
<1>5. CASE tomb[d] = "pending"
    <2>1. Stage(d) = "deleted" /\ Stage(d)' = "reclaimed"
        BY <1>1, <1>3, <1>5 DEF Stage, StageOf, TypeOK
    <2>2. \A e \in DocId \ {d} : Stage(e)' = Stage(e)
        BY <1>1, <1>3 DEF Stage, StageOf, TypeOK
    <2>3. Abstract!Reclaim(d)
        BY <1>1, <1>3, <2>1, <2>2 DEF Abstract!Reclaim, TypeOK
    <2> QED BY <1>1, <2>3 DEF Abstract!ANext
<1> QED BY <1>1, <1>4, <1>5 DEF TypeOK

LEMMA NextImplements == StoreInv /\ [Next]_vars => [Abstract!ANext]_(Abstract!avars)
<1> SUFFICES ASSUME StoreInv, [Next]_vars,
                    ~ UNCHANGED <<docHash, chunks, tomb>>
             PROVE  Abstract!ANext \/ UNCHANGED Abstract!avars
    BY NoCommitStutters
<1>1. CASE UNCHANGED vars \/ Crash
    BY <1>1 DEF vars, Crash
<1>2. ASSUME NEW r \in Req, Arrival(r) PROVE FALSE
    BY <1>2 DEF Arrival, IndexArrives, DeleteArrives, CompactArrives, Arrive
<1>3. ASSUME NEW r \in Req, Step(r) \/ Fault(r)
      PROVE  \E acked \in BOOLEAN :
                CommitNew(r, acked) \/ CommitDelete(r, acked)
                \/ CommitCompact(r, acked)
    BY <1>3 DEF Step, Fault, BeginTx, InsertDoc, InsertChunks, LookupId,
        CountChunks, CommitOld, LockDoc, MarkDeleted, InsertTombstone,
        PickTombstone, DeleteChunks, MarkCompacted, CompactReplies, Fail
<1> QED BY <1>1, <1>2, <1>3, CommitNewIndexes, CommitDeleteDeletes,
           CommitCompactReclaims DEF Next

\* The store does nothing to the documents but index one whole body under a
\* hash that has none, delete a live document and reclaim a deleted one.
THEOREM Implements == Spec => ImplementsDocIndex
<1>1. Init => Abstract!AInit
    BY NoneAssumption DEF Init, Abstract!AInit, Stage, StageOf
<1> QED BY <1>1, Invariant, NextImplements, PTL
        DEF Spec, ImplementsDocIndex, Abstract!ASpec
=============================================================================
