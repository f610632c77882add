------------------------------ MODULE Service ------------------------------
(***************************************************************************)
(* The handlers of internal/api inside the process of cmd/server: what     *)
(* POST /v1/index, GET and DELETE /v1/docs/{id} and POST /v1/admin/compact *)
(* do between a request and its reply, while other requests run, the       *)
(* sidecar and the database fail, and a signal shuts the server down.      *)
(*                                                                         *)
(* ServerLifecycle has the process, the pool and where a request is;       *)
(* DocIndex has what the store promises of a call that goes well (DocStore *)
(* implements it).  A step here is a step of either, or of both at once.   *)
(* Requests are numbered in the order of their arrival; a retry is another *)
(* request with the same call.                                             *)
(***************************************************************************)
EXTENDS ServerLifecycle, DocIndex

CONSTANTS
    Ops,        \* of "index", "get", "delete", "compact", "bad"
    Slow,       \* requests whose handler may hang where it holds no connection
    Stages,     \* bound: stages of the documents an earlier process has left
    MaxFaults   \* bound: calls to the sidecar or the database that fail, panics

\* 0 is no document.
ASSUME ServiceAssumption ==
    /\ Request \subseteq Nat /\ DocId \subseteq Nat \ {0}
    /\ NoHash \notin Hash
    /\ Ops \subseteq {"index", "get", "delete", "compact", "bad"}
    /\ Stages \subseteq {"absent", "live", "deleted", "reclaimed"}
    /\ Slow \subseteq Request /\ MaxFaults \in Nat

VARIABLES
    call,       \* the operation and the body or id of each request
    at,         \* where its handler is: "embed", "store", "reply"
    reply,      \* what it answers
    \* history
    did,        \* the document a request has indexed or deleted
    known,      \* what the replies sent before a request arrived say
    faults

process  == <<main, signalled, errCh, open, pool, req, outcome>>
handlers == <<call, at, reply, did, known>>
svars    == <<process, avars, handlers, faults>>

NoCall   == [op |-> "none", hash |-> NoHash, id |-> 0]
NoReply  == [status |-> 0, id |-> 0, hash |-> NoHash, existed |-> FALSE]
Calls    ==
    {c \in [op : Ops, hash : Hash \union {NoHash}, id : DocId \union {0}] :
        /\ c.op = "index" <=> c.hash # NoHash
        /\ c.op \in {"get", "delete"} <=> c.id # 0}

\* The tables as an earlier process has left them.
SInit ==
    /\ Init
    /\ content \in [DocId -> Hash \union {NoHash}]
    /\ \A d, e \in DocId : content[d] = content[e] => d = e \/ content[d] = NoHash
    /\ stage \in [DocId -> Stages]
    /\ \A d \in DocId : stage[d] = "absent" <=> content[d] = NoHash
    /\ text = [d \in DocId |-> IF stage[d] \in {"live", "deleted"}
                               THEN ChunksOf[content[d]] ELSE 0]
    /\ call = [r \in Request |-> NoCall] /\ at = [r \in Request |-> "none"]
    /\ reply = [r \in Request |-> NoReply] /\ did = [r \in Request |-> {}]
    /\ known = [r \in Request |-> [created |-> {}, gone |-> {}]]
    /\ faults = 0

(***************************************************************************)
(* Arrival.                                                                *)
(***************************************************************************)
Acked(op) == {r \in Request : /\ req[r] = "answered" /\ call[r].op = op
                              /\ reply[r].status = 200}

\* A body or an id that is refused ("bad") has met nothing the others share.
Accept(r, c) ==
    /\ Arrive(r)
    /\ \A q \in Request : q < r => req[q] # "none"
    /\ call' = [call EXCEPT ![r] = c]
    /\ at' = [at EXCEPT ![r] = CASE c.op = "bad"   -> "reply"
                                 [] c.op = "index" -> "embed"
                                 [] OTHER          -> "store"]
    /\ reply' = [reply EXCEPT ![r].status = IF c.op = "bad" THEN 400 ELSE 0]
    /\ known' = [known EXCEPT ![r] =
           [created |-> {reply[q].id : q \in {p \in Acked("index") : ~reply[p].existed}},
            gone    |-> {call[q].id : q \in Acked("delete")}]]
    /\ UNCHANGED <<avars, did, faults>>

(***************************************************************************)
(* The handler.                                                            *)
(***************************************************************************)
Fault == faults < MaxFaults /\ faults' = faults + 1

Set(r, status, d, existed) ==
    /\ reply' = [reply EXCEPT ![r] =
           [status |-> status, id |-> d, existed |-> existed,
            hash |-> IF d = 0 THEN NoHash ELSE content'[d]]]
    /\ at' = [at EXCEPT ![r] = "reply"]

Working(r, where) == req[r] = "working" /\ at[r] = where

\* embedBatched, before anything is stored; its error is 503, retryable.
Embed(r) ==
    /\ Working(r, "embed")
    /\ UNCHANGED <<process, avars, call, did, known>>
    /\ \/ at' = [at EXCEPT ![r] = "store"] /\ UNCHANGED <<reply, faults>>
       \/ Fault /\ Set(r, 503, 0, FALSE)

\* Recoverer turns a panic of the handler into a 500.
Panics(r) ==
    /\ req[r] = "working" /\ at[r] \in {"embed", "store"}
    /\ Fault
    /\ UNCHANGED <<process, avars, call, did, known>>
    /\ Set(r, 500, 0, FALSE)

\* A closed pool is an error like any other: 500.
CallStore(r) ==
    /\ at[r] = "store" /\ Acquire(r)
    /\ UNCHANGED <<avars, call, did, known, faults>>
    /\ IF pool = "closed" THEN Set(r, 500, 0, FALSE) ELSE UNCHANGED <<reply, at>>

Did(r, d) == did' = [did EXCEPT ![r] = @ \union {d}]

UpsertDoc(r) ==
    LET h == call[r].hash
    IN  \/ \E d \in DocId : Index(h, d) /\ Did(r, d) /\ Set(r, 200, d, FALSE)
        \/ \E d \in DocId : /\ content[d] = h
                            /\ UNCHANGED <<avars, did>> /\ Set(r, 200, d, TRUE)

\* mutant: GetDoc does not look at deleted_at
HasRow(d) == stage[d] \in {"live", "deleted", "reclaimed"}

Visible(d) == stage[d] = "live"

GetDoc(r) ==
    /\ UNCHANGED <<avars, did>>
    /\ IF Visible(call[r].id) THEN Set(r, 200, call[r].id, TRUE)
                              ELSE Set(r, 404, 0, FALSE)

DeleteDoc(r) ==
    LET d == call[r].id
    IN  \/ Delete(d) /\ Did(r, d) /\ Set(r, 200, 0, FALSE)
        \/ stage[d] # "live" /\ UNCHANGED <<avars, did>> /\ Set(r, 404, 0, FALSE)

\* mutant: a compacted tombstone is found again
Tombstoned == {d \in DocId : stage[d] \in {"deleted", "reclaimed"}}

Reclaimable == {d \in DocId : stage[d] = "deleted"}

\* One tombstone of the loop, or its end.
Compact(r) ==
    /\ UNCHANGED did
    /\ \/ \E d \in Reclaimable : Reclaim(d) /\ UNCHANGED <<reply, at>>
       \/ Reclaimable = {} /\ UNCHANGED avars /\ Set(r, 200, 0, FALSE)

Operation(r) ==
    CASE call[r].op = "index"   -> UpsertDoc(r)
      [] call[r].op = "get"     -> GetDoc(r)
      [] call[r].op = "delete"  -> DeleteDoc(r)
      [] call[r].op = "compact" -> Compact(r)

StoreReturns(r) ==
    /\ Release(r) /\ Operation(r)
    /\ UNCHANGED <<call, known, faults>>

\* mutant: every error of the store is taken for ErrNotFound
AllNotFound(op) == IF op = "index" THEN 500 ELSE 404

\* persist_failed, lookup_failed, delete_failed, compact_failed
FailureStatus(op) == 500

\* The call fails: it has changed nothing, or its COMMIT took effect and the
\* connection, or the client, was gone before the answer.
StoreFails(r) ==
    /\ Release(r) /\ Fault
    /\ \/ UNCHANGED <<avars, did>>
       \/ \E d \in DocId : Did(r, d) /\
             \/ call[r].op = "index" /\ Index(call[r].hash, d)
             \/ call[r].op = "delete" /\ d = call[r].id /\ Delete(d)
    /\ Set(r, FailureStatus(call[r].op), 0, FALSE)
    /\ UNCHANGED <<call, known>>

\* WriteJSON or WriteError.
Write(r) ==
    /\ at[r] = "reply" /\ Answer(r)
    /\ UNCHANGED <<avars, handlers, faults>>

Serve(r) == Embed(r) \/ CallStore(r) \/ StoreReturns(r) \/ Write(r)
Process  == Signal \/ ListenFails \/ ListenReturns \/ Run

SNext ==
    \/ Process /\ UNCHANGED <<avars, handlers, faults>>
    \/ \E r \in Request :
          \/ \E c \in Calls : Accept(r, c)
          \/ Serve(r) \/ Panics(r) \/ StoreFails(r)

\* A statement ends, with or without an error; the calls of run return; a
\* handler that is not slow goes on (the sidecar's client has a timeout).
SFairness ==
    /\ WF_svars((Run \/ ListenReturns) /\ UNCHANGED <<avars, handlers, faults>>)
    /\ \A r \in Request : WF_svars(IF r \in Slow THEN StoreReturns(r) ELSE Serve(r))

SSpec == SInit /\ [][SNext]_svars
SFairSpec == SSpec /\ SFairness
-----------------------------------------------------------------------------
Told(r) == at[r] = "reply"

\* An answer other than 200 and 500 has changed nothing, so that a client may
\* send the request again or give up; a 200 has done what it says, itself or,
\* where it says already_exists, an earlier request; a GET never writes.
AnswersFit ==
    \A r \in Request : Told(r) =>
        /\ reply[r].status \in {400, 404, 503} => did[r] = {}
        /\ reply[r].status = 200 /\ call[r].op = "index" =>
              /\ did[r] = IF reply[r].existed THEN {} ELSE {reply[r].id}
              /\ content[reply[r].id] = call[r].hash
        /\ reply[r].status = 200 /\ call[r].op = "delete" =>
              did[r] = {call[r].id} /\ ~Visible(call[r].id)
        /\ call[r].op \in {"get", "compact", "bad"} => did[r] = {}

DeleteAsked(d) == \E q \in Request : call[q].op = "delete" /\ call[q].id = d

\* What one client was told, every later reader sees: a document created by an
\* acknowledged POST is found, with its body, until someone asks to delete it,
\* and a document whose DELETE was acknowledged is not, replies in flight and
\* compactions notwithstanding.
ReadsFollowAnswers ==
    \A r \in Request : Told(r) /\ call[r].op = "get" =>
        /\ call[r].id \in known[r].gone => reply[r].status # 200
        /\ call[r].id \in known[r].created /\ ~DeleteAsked(call[r].id) =>
              reply[r].status \in {200, 500}
        /\ reply[r].status = 200 => reply[r].hash = content[call[r].id]

\* A hung handler holds up no other: every request that is not slow ends,
\* none waits for ever for a connection or in the loop of a compaction.
RequestsEnd == \A r \in Request \ Slow : r \in Active ~> r \notin Active
=============================================================================
