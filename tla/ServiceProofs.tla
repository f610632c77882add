--------------------------- MODULE ServiceProofs ---------------------------
(***************************************************************************)
(* The service: a shutdown in time loses no request, the answers fit what  *)
(* it has done and what it has told before, and a walk over GET /v1/docs   *)
(* lists every document once, newest first, and skips none that was live   *)
(* all along; for any number of requests, documents and connections, any   *)
(* page size, any faults and any slow handlers.                            *)
(*                                                                         *)
(* Service is shown to refine the two modules it joins: ServerLifecycle,   *)
(* whose invariant it inherits, and the steps of DocIndex.  Of a walk the  *)
(* invariant says where it stands: the cursor is the last row listed, and  *)
(* a document that was live all along is listed or behind it.              *)
(***************************************************************************)
EXTENDS Service, ListPages, FiniteSetTheorems, TLAPS

-----------------------------------------------------------------------------
(* The process.                                                            *)

\* The pool is closed when run has left its select, and what Shutdown has
\* waited for is all there was.
LifeInv ==
    /\ main \in {"select", "shutting", "closing", "exited"}
    /\ errCh \in {"none", "failed", "closed"}
    /\ req \in [Request -> {"none", "working", "querying", "answered",
                            "no_pool", "cut"}]
    /\ outcome \in {"none", "drained", "timeout", "listen"}
    /\ open => main = "select" /\ errCh = "none"
    /\ pool = IF main \in {"closing", "exited"} THEN "closed" ELSE "open"
    /\ outcome = "none" <=> main \in {"select", "shutting"}
    /\ outcome = "drained" => Active = {}
    /\ Graceful

LEMMA InitLife == Init => LifeInv
BY DEF Init, LifeInv, Graceful

LEMMA HandlerStep ==
    ASSUME LifeInv, NEW r \in Request, Arrive(r) \/ Handler(r)
    PROVE  LifeInv'
BY DEF LifeInv, Graceful, Active, Handler, Arrive, Acquire, Release, Answer, Move

LEMMA RunStep == LifeInv /\ (Signal \/ ListenFails \/ ListenReturns \/ Run) => LifeInv'
<1> SUFFICES ASSUME LifeInv, Signal \/ ListenFails \/ ListenReturns \/ Run
             PROVE  LifeInv'
  OBVIOUS
<1> USE DEF LifeInv
<1>1. CASE Signal \/ ListenFails \/ ListenReturns
  <2>1. Active' = Active /\ req' = req /\ UNCHANGED <<main, pool, outcome>>
    BY <1>1 DEF Active, Signal, ListenFails, ListenReturns
  <2>2. errCh' \in {"none", "failed", "closed"} /\ (open' => open /\ errCh' = errCh)
    BY <1>1 DEF Signal, ListenFails, ListenReturns
  <2> QED BY <2>1, <2>2 DEF Graceful
<1>2. CASE SelectSignal \/ SelectError
  <2>1. Active' = Active /\ req' = req /\ errCh' = errCh /\ ~open'
        /\ main = "select"
    BY <1>2 DEF Active, SelectSignal, SelectError
  <2>2. \/ main' = "shutting" /\ pool' = "open" /\ outcome' = "none"
        \/ main' = "closing" /\ pool' = "closed" /\ outcome' = "listen"
    BY <1>2 DEF SelectSignal, SelectError
  <2> QED BY <2>1, <2>2 DEF Graceful
<1>3. CASE ShutdownReturns
  <2>1. /\ Active' = Active /\ req' = req /\ errCh' = errCh /\ open' = open
        /\ main' = "closing" /\ pool' = "closed"
        /\ outcome' = IF Active = {} THEN "drained" ELSE "timeout"
    BY <1>3 DEF Active, ShutdownReturns
  <2>2. Graceful'
    BY <1>3, <2>1 DEF Graceful, ShutdownReturns
  <2> QED BY <1>3, <2>1, <2>2 DEF ShutdownReturns
<1>4. CASE Exit
  BY <1>4 DEF Graceful, Active, Exit
<1> QED BY <1>1, <1>2, <1>3, <1>4 DEF Run

LEMMA NextLife == LifeInv /\ [Next]_vars => LifeInv'
<1> SUFFICES ASSUME LifeInv, [Next]_vars PROVE LifeInv'
  OBVIOUS
<1>1. CASE UNCHANGED vars
  BY <1>1 DEF vars, LifeInv, Graceful, Active
<1>2. CASE Next
  BY <1>2, HandlerStep, RunStep DEF Next
<1> QED BY <1>1, <1>2

\* What a request does in the service is a step of it in the process, or none.
LEMMA ServesLife ==
    ASSUME NEW r \in Request, Serve(r) \/ Panics(r) \/ StoreFails(r)
    PROVE  Handler(r) \/ UNCHANGED vars
BY DEF Serve, Embed, CallStore, StoreReturns, Write, Panics, StoreFails, Handler,
       process, vars

LEMMA NextLifecycle == [SNext]_svars => [Next]_vars
<1> SUFFICES ASSUME [SNext]_svars PROVE Next \/ UNCHANGED vars
  OBVIOUS
<1>1. CASE UNCHANGED svars
  BY <1>1 DEF svars, process, vars
<1>2. CASE Process
  BY <1>2 DEF Process, Next
<1>3. ASSUME NEW r \in Request, NEW c \in Calls, Accept(r, c) PROVE Next
  BY <1>3 DEF Accept, Next
<1>4. ASSUME NEW r \in Request, Serve(r) \/ Panics(r) \/ StoreFails(r)
      PROVE  Next \/ UNCHANGED vars
  BY <1>4, ServesLife DEF Next
<1> QED BY <1>1, <1>2, <1>3, <1>4 DEF SNext

\* The service runs its requests in the process as ServerLifecycle says.
THEOREM ImplementsLifecycle == SSpec => Spec
<1>1. SInit => Init
  BY DEF SInit
<1> QED BY <1>1, NextLifecycle, PTL DEF SSpec, Spec

\* A request that was accepted is lost, or refused by the closed pool, only
\* when Shutdown timed out or the listener had failed.
THEOREM ShutdownGraceful == SSpec => []Graceful
<1>1. LifeInv => Graceful
  BY DEF LifeInv
<1> QED BY <1>1, InitLife, NextLife, ImplementsLifecycle, PTL DEF Spec

-----------------------------------------------------------------------------
(* The answers.  Part of the invariant is about the documents (DocsOK),    *)
(* part about where a handler is (PlaceOK), and part about what a request  *)
(* was told (AnswerOK) and had been told before (KnownOK).                 *)

Gone == {"deleted", "reclaimed"}

DocsOK ==
    /\ content \in [DocId -> Hash \union {NoHash}]
    /\ stage \in [DocId -> {"absent", "live"} \union Gone]
    /\ \A d \in DocId : stage[d] = "absent" <=> content[d] = NoHash

Refusal(s) == [status |-> s, id |-> 0, existed |-> FALSE, hash |-> NoHash]

Answers == [status : Nat, id : DocId \union {0}, hash : Hash \union {NoHash},
            existed : BOOLEAN]

HandlersOK ==
    /\ req \in [Request -> {"none", "working", "querying", "answered",
                            "no_pool", "cut"}]
    /\ call \in [Request -> Calls \union {NoCall}]
    /\ at \in [Request -> {"none", "embed", "store", "reply"}]
    /\ reply \in [Request -> Answers]
    /\ did \in [Request -> SUBSET DocId]
    /\ known \in [Request -> [created : SUBSET DocId, gone : SUBSET DocId]]

\* A handler has changed nothing before it has its answer, and a statement at
\* work is that of a store call.
PlaceOK(r) ==
    /\ req[r] = "none" <=> at[r] = "none"
    /\ req[r] = "none" => call[r] = NoCall
    /\ at[r] # "none" => call[r] \in Calls
    /\ req[r] = "querying" => at[r] = "store"
    /\ req[r] = "answered" => at[r] = "reply"
    /\ at[r] # "reply" => did[r] = {}
    /\ at[r] = "embed" => call[r].op = "index"
    /\ at[r] = "store" => call[r].op # "bad"

\* The documents someone has asked to delete, and those that are there until
\* someone does.
Asked == {d \in DocId : DeleteAsked(d)}
Kept  == {d \in DocId : stage[d] = "live" \/ (stage[d] \in Gone /\ d \in Asked)}

AnswerOK(r) ==
    Told(r) =>
        /\ reply[r].status \in {400, 404, 503} => did[r] = {}
        /\ reply[r].status = 200 /\ call[r].op = "index" =>
              /\ reply[r].id \in DocId /\ content[reply[r].id] = call[r].hash
              /\ did[r] = IF reply[r].existed THEN {} ELSE {reply[r].id}
              /\ ~reply[r].existed => reply[r].id \in Kept
        /\ reply[r].status = 200 /\ call[r].op = "delete" =>
              did[r] = {call[r].id} /\ stage[call[r].id] \in Gone
        /\ call[r].op \in {"get", "compact", "bad"} => did[r] = {}
        /\ call[r].op = "get" /\ reply[r].status = 200 =>
              reply[r].hash = content[call[r].id] /\ stage[call[r].id] # "absent"

\* What replies said before r arrived is so, and r is not told otherwise.
KnownOK(r) ==
    /\ \A d \in known[r].gone : stage[d] \in Gone
    /\ known[r].created \subseteq Kept
    /\ Told(r) /\ call[r].op = "get" =>
        /\ call[r].id \in known[r].gone => reply[r].status # 200
        /\ call[r].id \in known[r].created \ Asked =>
              reply[r].status \in {200, 500}

AnswerInv ==
    /\ DocsOK /\ HandlersOK
    /\ \A r \in Request : PlaceOK(r) /\ AnswerOK(r) /\ KnownOK(r)

USE ServiceAssumption

LEMMA CallTypes ==
    ASSUME NEW c \in Calls
    PROVE  /\ c.op \in {"index", "get", "delete", "compact", "bad"}
           /\ c.hash \in Hash \union {NoHash} /\ c.id \in DocId \union {0}
           /\ c.op = "index" => c.hash \in Hash
           /\ c.op \in {"get", "delete"} => c.id \in DocId
BY DEF Calls

LEMMA InitAnswers == SInit => AnswerInv
<1> SUFFICES ASSUME SInit PROVE AnswerInv
  OBVIOUS
<1>1. DocsOK
  BY DEF SInit, DocsOK, Gone
<1>2. HandlersOK
  BY DEF SInit, Init, HandlersOK, NoReply, NoCall, Answers
<1>3. \A r \in Request : PlaceOK(r) /\ AnswerOK(r) /\ KnownOK(r)
  BY DEF SInit, Init, PlaceOK, AnswerOK, KnownOK, Told
<1> QED BY <1>1, <1>2, <1>3 DEF AnswerInv

\* Documents only move on, keep their content, and are deleted on demand.
Onward ==
    /\ DocsOK'
    /\ \A d \in DocId :
          /\ stage[d] # "absent" => content'[d] = content[d] /\ stage'[d] # "absent"
          /\ stage[d] \in Gone => stage'[d] \in Gone
          /\ stage[d] = "live" => stage'[d] = "live" \/ d \in Asked'
    /\ Asked \subseteq Asked'

LEMMA IndexOnward ==
    ASSUME AnswerInv, NEW h \in Hash, NEW d \in DocId, Index(h, d), call' = call
    PROVE  Onward
BY DEF AnswerInv, DocsOK, Index, Onward, Asked, DeleteAsked, Gone

LEMMA DeleteOnward ==
    ASSUME AnswerInv, NEW r \in Request, call[r].op = "delete", call[r].id \in DocId,
           Delete(call[r].id), call' = call
    PROVE  Onward
BY DEF AnswerInv, DocsOK, Delete, Onward, Asked, DeleteAsked, Gone

LEMMA ReclaimOnward ==
    ASSUME AnswerInv, NEW d \in DocId, Reclaim(d), call' = call
    PROVE  Onward
BY DEF AnswerInv, DocsOK, Reclaim, Onward, Asked, DeleteAsked, Gone

LEMMA SameOnward ==
    ASSUME AnswerInv, UNCHANGED avars,
           Asked \subseteq Asked'
    PROVE  Onward
BY DEF AnswerInv, DocsOK, avars, Onward, Gone

LEMMA KeptOnward ==
    ASSUME DocsOK, Onward
    PROVE  Kept \subseteq Kept'
BY DEF DocsOK, Onward, Kept, Gone

\* What a request was told stays so while others work.
LEMMA OthersKept ==
    ASSUME AnswerInv, Onward, NEW q \in Request,
           call'[q] = call[q], at'[q] = at[q], reply'[q] = reply[q],
           did'[q] = did[q], known'[q] = known[q]
    PROVE  AnswerOK(q)' /\ KnownOK(q)'
<1>1. /\ DocsOK /\ HandlersOK /\ PlaceOK(q) /\ AnswerOK(q) /\ KnownOK(q)
  BY DEF AnswerInv
<1>2. Told(q)' = Told(q) /\ (Told(q) => call[q] \in Calls)
  BY <1>1 DEF Told, PlaceOK
<1>3. known[q].created \subseteq DocId /\ known[q].gone \subseteq DocId
  BY <1>1 DEF HandlersOK
<1>4. \A d \in DocId :
         /\ stage[d] # "absent" => content'[d] = content[d] /\ stage'[d] # "absent"
         /\ stage[d] \in Gone => stage'[d] \in Gone
  BY <1>1, KeptOnward DEF Onward
<1>a. Asked \subseteq Asked' /\ Kept \subseteq Kept'
  BY <1>1, KeptOnward DEF Onward
<1>5. AnswerOK(q)'
  <2> SUFFICES ASSUME Told(q) PROVE AnswerOK(q)'
    BY <1>2 DEF AnswerOK
  <2>1. call[q] \in Calls /\ (call[q].op \in {"get", "delete"} => call[q].id \in DocId)
        /\ (call[q].op = "index" => call[q].hash \in Hash)
    BY <1>2, CallTypes
  <2>2. \A d \in DocId : content[d] \in Hash => stage[d] # "absent"
    BY <1>1 DEF DocsOK
  <2>3. AnswerOK(q)
    BY <1>1
  <2>4. ASSUME reply[q].status = 200, call[q].op = "index"
        PROVE  /\ reply[q].id \in DocId /\ content'[reply[q].id] = call[q].hash
               /\ did[q] = IF reply[q].existed THEN {} ELSE {reply[q].id}
               /\ ~reply[q].existed => reply[q].id \in Kept'
    BY <1>4, <1>a, <2>1, <2>2, <2>3, <2>4 DEF AnswerOK
  <2>5. ASSUME reply[q].status = 200, call[q].op = "delete"
        PROVE  did[q] = {call[q].id} /\ stage'[call[q].id] \in Gone
    BY <1>4, <2>1, <2>3, <2>5 DEF AnswerOK
  <2>6. ASSUME reply[q].status = 200, call[q].op = "get"
        PROVE  reply[q].hash = content'[call[q].id] /\ stage'[call[q].id] # "absent"
    BY <1>4, <2>1, <2>3, <2>6 DEF AnswerOK
  <2>7. /\ reply[q].status \in {400, 404, 503} => did[q] = {}
        /\ call[q].op \in {"get", "compact", "bad"} => did[q] = {}
    BY <2>3 DEF AnswerOK
  <2> QED BY <1>2, <2>4, <2>5, <2>6, <2>7 DEF AnswerOK
<1>6. KnownOK(q)'
  <2>1. KnownOK(q)
    BY <1>1
  <2>2. \A d \in known[q].gone : stage'[d] \in Gone
    <3>1. \A d \in known[q].gone : d \in DocId /\ stage[d] \in Gone
      BY <1>3, <2>1 DEF KnownOK
    <3> QED BY <1>4, <3>1
  <2>3. known[q].created \subseteq Kept'
    BY <1>a, <2>1 DEF KnownOK
  <2>4. ASSUME Told(q), call[q].op = "get"
        PROVE  /\ call[q].id \in known[q].gone => reply[q].status # 200
               /\ call[q].id \in known[q].created \ Asked' =>
                     reply[q].status \in {200, 500}
    <3>1. /\ call[q].id \in known[q].gone => reply[q].status # 200
          /\ call[q].id \in known[q].created \ Asked =>
                reply[q].status \in {200, 500}
      BY <2>1, <2>4 DEF KnownOK
    <3> QED BY <1>a, <3>1
  <2> QED BY <1>2, <2>2, <2>3, <2>4 DEF KnownOK
<1> QED BY <1>5, <1>6

\* A step is judged by the request that takes it.
LEMMA OneMoves ==
    ASSUME AnswerInv, Onward, NEW r \in Request, HandlersOK',
           \A q \in Request \ {r} :
              /\ req'[q] = req[q] /\ call'[q] = call[q] /\ at'[q] = at[q]
              /\ reply'[q] = reply[q] /\ did'[q] = did[q] /\ known'[q] = known[q],
           PlaceOK(r)', AnswerOK(r)', KnownOK(r)'
    PROVE  AnswerInv'
<1> SUFFICES ASSUME NEW q \in Request \ {r}
             PROVE  (PlaceOK(q) /\ AnswerOK(q) /\ KnownOK(q))'
  BY DEF AnswerInv, Onward
<1>1. PlaceOK(q)'
  BY DEF AnswerInv, PlaceOK
<1> QED BY <1>1, OthersKept

\* A step that answers nothing and changes no document.
LEMMA QuietStep ==
    ASSUME AnswerInv, NEW r \in Request, UNCHANGED <<avars, call, reply, did, known>>,
           req' \in [Request -> {"none", "working", "querying", "answered",
                                 "no_pool", "cut"}],
           at' \in [Request -> {"none", "embed", "store", "reply"}],
           \A q \in Request \ {r} : req'[q] = req[q] /\ at'[q] = at[q],
           PlaceOK(r)', at'[r] # at[r] => at'[r] = "store"
    PROVE  AnswerInv'
<1>1. HandlersOK' /\ AnswerOK(r) /\ KnownOK(r)
  BY DEF AnswerInv, HandlersOK
<1>2. Onward
  BY SameOnward DEF Asked, DeleteAsked
<1>3. CASE at'[r] = at[r]
  BY <1>1, <1>2, <1>3, OthersKept, OneMoves
<1>4. CASE at'[r] = "store"
  <2>1. AnswerOK(r)'
    BY <1>4 DEF AnswerOK, Told
  <2>2. KnownOK(r)'
    <3>1. Kept' = Kept
      BY DEF Kept, Asked, DeleteAsked, avars
    <3> QED BY <1>1, <1>4, <3>1 DEF KnownOK, Told, avars
  <2> QED BY <1>1, <1>2, <2>1, <2>2, OneMoves
<1> QED BY <1>3, <1>4

\* What the answer of a step has to be, and what it records.
Answering(r, a, S) ==
    /\ reply' = [reply EXCEPT ![r] = a] /\ at' = [at EXCEPT ![r] = "reply"]
    /\ did' = [did EXCEPT ![r] = S] /\ UNCHANGED <<call, known>>
    /\ a.status \in {400, 404, 503} => S = {}
    /\ a.status = 200 /\ call[r].op = "index" =>
          /\ a.id \in DocId /\ content'[a.id] = call[r].hash
          /\ S = IF a.existed THEN {} ELSE {a.id}
          /\ ~a.existed => a.id \in Kept'
    /\ a.status = 200 /\ call[r].op = "delete" =>
          S = {call[r].id} /\ stage'[call[r].id] \in Gone
    /\ call[r].op \in {"get", "compact", "bad"} => S = {}
    /\ call[r].op = "get" =>
          \/ a.status = 500
          \/ a.status = 404 /\ stage[call[r].id] # "live"
          \/ /\ a.status = 200 /\ stage[call[r].id] = "live"
             /\ a.hash = content'[call[r].id]

LEMMA AnswerStep ==
    ASSUME AnswerInv, Onward, NEW r \in Request, at[r] \in {"embed", "store"},
           NEW a \in Answers, NEW S \in SUBSET DocId, Answering(r, a, S),
           req' \in [Request -> {"none", "working", "querying", "answered",
                                 "no_pool", "cut"}],
           \A q \in Request \ {r} : req'[q] = req[q],
           req'[r] \notin {"none", "querying"}
    PROVE  AnswerInv'
<1>1. /\ DocsOK /\ HandlersOK /\ PlaceOK(r) /\ KnownOK(r)
      /\ DocsOK' /\ Kept \subseteq Kept' /\ Asked \subseteq Asked'
  BY KeptOnward DEF AnswerInv, Onward
<1>2. HandlersOK'
  BY <1>1 DEF HandlersOK, Answering
<1>3. reply'[r] = a /\ at'[r] = "reply" /\ did'[r] = S /\ call'[r] = call[r]
      /\ known'[r] = known[r] /\ call[r] \in Calls
  <2>1. call[r] \in Calls
    BY <1>1 DEF PlaceOK
  <2>2. /\ reply' = [reply EXCEPT ![r] = a] /\ at' = [at EXCEPT ![r] = "reply"]
        /\ did' = [did EXCEPT ![r] = S] /\ UNCHANGED <<call, known>>
    BY DEF Answering
  <2> QED BY <1>1, <2>1, <2>2 DEF HandlersOK
<1>4. PlaceOK(r)'
  BY <1>1, <1>3 DEF PlaceOK, Answering
<1>5. call[r].op = "get" => call[r].id \in DocId
  BY <1>3, CallTypes
<1>6. AnswerOK(r)'
  <2>1. call[r].op = "get" /\ a.status = 200 =>
           a.hash = content'[call[r].id] /\ stage'[call[r].id] # "absent"
    <3>1. \A d \in DocId : stage[d] = "live" => stage'[d] # "absent"
      BY DEF Onward
    <3>2. CASE call[r].op = "get" /\ a.status = 200
      <4>1. call[r].id \in DocId /\ stage[call[r].id] = "live"
            /\ a.hash = content'[call[r].id]
        BY <1>5, <3>2 DEF Answering
      <4> QED BY <3>1, <4>1
    <3> QED BY <3>2
  <2>2. Told(r)' /\ reply'[r] = a /\ did'[r] = S /\ call'[r] = call[r]
    BY <1>3 DEF Told
  <2>3. a.status \in {400, 404, 503} => S = {}
    BY DEF Answering
  <2>4. a.status = 200 /\ call[r].op = "index" =>
           /\ a.id \in DocId /\ content'[a.id] = call[r].hash
           /\ S = IF a.existed THEN {} ELSE {a.id}
           /\ ~a.existed => a.id \in Kept'
    BY DEF Answering
  <2>5. a.status = 200 /\ call[r].op = "delete" =>
           S = {call[r].id} /\ stage'[call[r].id] \in Gone
    BY DEF Answering
  <2>6. call[r].op \in {"get", "compact", "bad"} => S = {}
    BY DEF Answering
  <2> QED BY ONLY <2>1, <2>2, <2>3, <2>4, <2>5, <2>6 DEF AnswerOK
<1>7. KnownOK(r)'
  <2>1. \A e \in known[r].gone : stage'[e] \in Gone
    BY <1>1 DEF KnownOK, HandlersOK, Onward
  <2>2. known[r].created \subseteq Kept'
    BY <1>1 DEF KnownOK
  <2>3. call[r].op = "get" /\ call[r].id \in known[r].gone => a.status # 200
    BY <1>1 DEF KnownOK, Gone, Answering
  <2>4. call[r].op = "get" /\ call[r].id \in known[r].created \ Asked' =>
           a.status \in {200, 500}
    BY <1>1 DEF KnownOK, Kept, Answering
  <2> QED BY <1>3, <2>1, <2>2, <2>3, <2>4 DEF KnownOK
<1>8. \A q \in Request \ {r} :
          /\ call'[q] = call[q] /\ at'[q] = at[q] /\ reply'[q] = reply[q]
          /\ did'[q] = did[q] /\ known'[q] = known[q]
  BY <1>1 DEF HandlersOK, Answering
<1> QED BY <1>2, <1>4, <1>6, <1>7, <1>8, OneMoves

-----------------------------------------------------------------------------
(* The steps of the service.                                               *)

LEMMA ProcessStep ==
    AnswerInv /\ Process /\ UNCHANGED <<avars, handlers, faults>> => AnswerInv'
<1> SUFFICES ASSUME AnswerInv, Process, UNCHANGED <<avars, handlers, faults>>
             PROVE  AnswerInv'
  OBVIOUS
<1>1. /\ req' \in [Request -> {"none", "working", "querying", "answered",
                               "no_pool", "cut"}]
      /\ \A r \in Request : req'[r] = req[r] \/
                            (req[r] \in {"working", "querying"} /\ req'[r] = "cut")
  <2>1. CASE Exit
    BY <2>1 DEF Exit, Active, AnswerInv, HandlersOK
  <2>2. CASE UNCHANGED req
    BY <2>2 DEF AnswerInv, HandlersOK
  <2>3. Exit \/ UNCHANGED req
    BY DEF Process, Signal, ListenFails, ListenReturns, Run, SelectSignal,
           SelectError, ShutdownReturns
  <2> QED BY <2>1, <2>2, <2>3
<1>2. Onward
  BY SameOnward DEF handlers, Asked, DeleteAsked
<1>3. HandlersOK' /\ DocsOK'
  BY <1>1, <1>2 DEF AnswerInv, HandlersOK, handlers, Onward
<1>4. ASSUME NEW r \in Request
      PROVE  (PlaceOK(r) /\ AnswerOK(r) /\ KnownOK(r))'
  <2>1. PlaceOK(r)'
    BY <1>1 DEF AnswerInv, PlaceOK, handlers
  <2>2. AnswerOK(r)' /\ KnownOK(r)'
    BY <1>2, OthersKept DEF handlers
  <2> QED BY <2>1, <2>2
<1> QED BY <1>3, <1>4 DEF AnswerInv

LEMMA AcceptStep ==
    ASSUME AnswerInv, NEW r \in Request, NEW c \in Calls, Accept(r, c)
    PROVE  AnswerInv'
<1>1. /\ DocsOK /\ HandlersOK /\ PlaceOK(r)
      /\ \A q \in Request : PlaceOK(q) /\ AnswerOK(q)
  BY DEF AnswerInv
<1>2. /\ req[r] = "none" /\ at[r] = "none" /\ call[r] = NoCall /\ did[r] = {}
      /\ req' = [req EXCEPT ![r] = "working"]
      /\ UNCHANGED <<avars, did>>
  BY <1>1 DEF Accept, Arrive, Move, PlaceOK
<1> DEFINE place == CASE c.op = "bad"   -> "reply"
                      [] c.op = "index" -> "embed"
                      [] OTHER          -> "store"
           created == {reply[q].id : q \in {p \in Acked("index") : ~reply[p].existed}}
           told    == {call[q].id : q \in Acked("delete")}
           status  == IF c.op = "bad" THEN 400 ELSE 0
<1>3. /\ call' = [call EXCEPT ![r] = c] /\ at' = [at EXCEPT ![r] = place]
      /\ reply' = [reply EXCEPT ![r].status = status]
      /\ known' = [known EXCEPT ![r] = [created |-> created, gone |-> told]]
  BY DEF Accept
<1>4. Asked \subseteq Asked'
  BY <1>2, <1>3 DEF Asked, DeleteAsked, NoCall
<1>5. Onward
  BY <1>2, <1>4, SameOnward
<1>6. \A q \in Request : req[q] = "answered" => Told(q) /\ call[q] \in Calls
  BY <1>1 DEF PlaceOK, Told
<1>7. \A d \in told : d \in DocId /\ stage[d] \in Gone
  <2> SUFFICES ASSUME NEW q \in Acked("delete")
               PROVE  call[q].id \in DocId /\ stage[call[q].id] \in Gone
    OBVIOUS
  <2>1. /\ q \in Request /\ req[q] = "answered" /\ call[q].op = "delete"
        /\ reply[q].status = 200
    BY DEF Acked
  <2>2. Told(q) /\ call[q] \in Calls /\ AnswerOK(q)
    BY <1>1, <1>6, <2>1
  <2>3. call[q].id \in DocId
    BY <2>1, <2>2, CallTypes
  <2> QED BY <2>1, <2>2, <2>3 DEF AnswerOK
<1>8. created \subseteq DocId /\ created \subseteq Kept
  <2> SUFFICES ASSUME NEW q \in Acked("index"), ~reply[q].existed
               PROVE  reply[q].id \in DocId /\ reply[q].id \in Kept
    OBVIOUS
  <2>1. /\ q \in Request /\ req[q] = "answered" /\ call[q].op = "index"
        /\ reply[q].status = 200
    BY DEF Acked
  <2>2. Told(q) /\ AnswerOK(q)
    BY <1>1, <1>6, <2>1
  <2> QED BY <2>1, <2>2 DEF AnswerOK
<1> HIDE DEF created, told
<1>9. place \in {"embed", "store", "reply"} /\ status \in Nat
      /\ (place = "reply" => c.op = "bad") /\ (place = "embed" => c.op = "index")
      /\ (place = "store" => c.op # "bad")
  OBVIOUS
<1> HIDE DEF place, status
<1>10. HandlersOK'
  <2>1. reply' \in [Request -> Answers]
    <3>1. reply[r] \in Answers /\ reply \in [Request -> Answers]
      BY <1>1 DEF HandlersOK
    <3>2. [reply[r] EXCEPT !.status = status] \in Answers
      BY <1>9, <3>1 DEF Answers
    <3>3. reply' = [reply EXCEPT ![r] = [reply[r] EXCEPT !.status = status]]
      BY <1>3
    <3> QED BY <3>1, <3>2, <3>3
  <2>2. known' \in [Request -> [created : SUBSET DocId, gone : SUBSET DocId]]
    <3>1. created \in SUBSET DocId /\ told \in SUBSET DocId
      BY <1>7, <1>8
    <3> QED BY <1>1, <1>3, <3>1 DEF HandlersOK
  <2>3. call' \in [Request -> Calls \union {NoCall}]
        /\ at' \in [Request -> {"none", "embed", "store", "reply"}]
    BY <1>1, <1>3, <1>9 DEF HandlersOK
  <2>4. /\ req' \in [Request -> {"none", "working", "querying", "answered",
                                 "no_pool", "cut"}]
        /\ did' \in [Request -> SUBSET DocId]
    BY <1>1, <1>2 DEF HandlersOK
  <2> QED BY <2>1, <2>2, <2>3, <2>4 DEF HandlersOK
<1>11. /\ call'[r] = c /\ at'[r] = place /\ did'[r] = {} /\ req'[r] = "working"
       /\ reply'[r].status = status
       /\ known'[r].created = created /\ known'[r].gone = told
  BY <1>1, <1>2, <1>3 DEF HandlersOK, Answers
<1>12. PlaceOK(r)'
  BY <1>9, <1>11, CallTypes DEF PlaceOK
<1>13. AnswerOK(r)'
  BY <1>9, <1>11 DEF AnswerOK, Told
<1>14. KnownOK(r)'
  <2>1. Kept \subseteq Kept'
    BY <1>1, <1>5, KeptOnward
  <2>2. Told(r)' => c.op = "bad"
    BY <1>9, <1>11 DEF Told
  <2> QED BY <1>2, <1>7, <1>8, <1>11, <2>1, <2>2 DEF KnownOK, avars
<1>15. \A q \in Request \ {r} :
          /\ req'[q] = req[q] /\ call'[q] = call[q] /\ at'[q] = at[q]
          /\ reply'[q] = reply[q] /\ did'[q] = did[q] /\ known'[q] = known[q]
  BY <1>1, <1>2, <1>3 DEF HandlersOK
<1> QED BY <1>5, <1>10, <1>12, <1>13, <1>14, <1>15, OneMoves

\* A statement at work is that of a request at "store"; it ends with the reply,
\* but for the steps of a compaction.
LEMMA Moves ==
    ASSUME AnswerInv, NEW r \in Request,
           NEW s \in {"none", "working", "querying", "answered", "no_pool", "cut"},
           Move(r, s)
    PROVE  /\ req' \in [Request -> {"none", "working", "querying", "answered",
                                    "no_pool", "cut"}]
           /\ req'[r] = s /\ \A q \in Request \ {r} : req'[q] = req[q]
BY DEF AnswerInv, HandlersOK, Move

LEMMA NoChange ==
    ASSUME AnswerInv, UNCHANGED <<avars, call>>
    PROVE  Onward
BY SameOnward DEF Asked, DeleteAsked

\* The 500s and 503s that stand for no change.
Refused(r, a) ==
    /\ a.status = 500 \/ (a.status = 503 /\ at[r] = "embed")
    /\ reply' = [reply EXCEPT ![r] = a] /\ at' = [at EXCEPT ![r] = "reply"]
    /\ UNCHANGED <<avars, call, known, did>>

LEMMA RefusalStep ==
    ASSUME AnswerInv, NEW r \in Request, at[r] \in {"embed", "store"},
           NEW a \in Answers, Refused(r, a),
           req' \in [Request -> {"none", "working", "querying", "answered",
                                 "no_pool", "cut"}],
           req'[r] \in {"working", "no_pool"},
           \A q \in Request \ {r} : req'[q] = req[q]
    PROVE  AnswerInv'
<1>1. HandlersOK /\ PlaceOK(r)
  BY DEF AnswerInv
<1> DEFINE S == {}
<1>2. S \in SUBSET DocId /\ did' = [did EXCEPT ![r] = S] /\ S = {}
  BY <1>1 DEF PlaceOK, HandlersOK, Refused
<1>3. call[r].op = "get" => a.status = 500
  BY <1>1 DEF PlaceOK, Refused
<1>4. Onward
  BY NoChange DEF Refused
<1> HIDE DEF S
<1>5. Answering(r, a, S)
  <2>1. UNCHANGED <<call, known>>
    BY DEF Refused
  <2>2. a.status # 200 /\ S = {}
    BY <1>2 DEF Refused
  <2>3. reply' = [reply EXCEPT ![r] = a] /\ at' = [at EXCEPT ![r] = "reply"]
        /\ did' = [did EXCEPT ![r] = S]
    BY <1>2 DEF Refused
  <2> QED BY ONLY <1>3, <2>1, <2>2, <2>3 DEF Answering
<1> QED BY <1>2, <1>4, <1>5, AnswerStep

LEMMA EmbedStep ==
    ASSUME AnswerInv, NEW r \in Request, Embed(r)
    PROVE  AnswerInv'
<1>1. /\ HandlersOK /\ PlaceOK(r) /\ req[r] = "working" /\ at[r] = "embed"
      /\ req' = req
  BY DEF AnswerInv, Embed, Working, process
<1>2. CASE at' = [at EXCEPT ![r] = "store"] /\ UNCHANGED <<reply, faults>>
  <2>1. /\ at' \in [Request -> {"none", "embed", "store", "reply"}] /\ at'[r] = "store"
        /\ \A q \in Request \ {r} : at'[q] = at[q]
        /\ req' \in [Request -> {"none", "working", "querying", "answered",
                                 "no_pool", "cut"}]
    BY <1>1, <1>2 DEF HandlersOK
  <2>2. UNCHANGED <<avars, call, reply, did, known>>
    BY <1>2 DEF Embed
  <2>3. PlaceOK(r)'
    BY <1>1, <2>1, <2>2 DEF PlaceOK
  <2> QED BY <1>1, <2>1, <2>2, <2>3, QuietStep
<1>3. CASE Fault /\ Set(r, 503, 0, FALSE)
  <2>1. /\ req' \in [Request -> {"none", "working", "querying", "answered",
                                 "no_pool", "cut"}]
        /\ UNCHANGED <<avars, call, known, did>>
    BY <1>1 DEF HandlersOK, Embed
  <2> DEFINE a == Refusal(503)
  <2>2. /\ reply' = [reply EXCEPT ![r] = a] /\ at' = [at EXCEPT ![r] = "reply"]
        /\ a \in Answers /\ a.status = 503
    BY <1>3 DEF Set, Refusal, Answers
  <2> HIDE DEF a
  <2>3. Refused(r, a)
    BY <1>1, <2>1, <2>2 DEF Refused
  <2> QED BY <1>1, <2>1, <2>2, <2>3, RefusalStep
<1> QED BY <1>2, <1>3 DEF Embed

LEMMA PanicsStep ==
    ASSUME AnswerInv, NEW r \in Request, Panics(r)
    PROVE  AnswerInv'
<1>1. req' = req /\ req[r] = "working" /\ HandlersOK
  BY DEF Panics, process, AnswerInv
<1>2. req' \in [Request -> {"none", "working", "querying", "answered",
                            "no_pool", "cut"}]
  BY <1>1 DEF HandlersOK
<1> DEFINE a == Refusal(500)
<1>3. /\ reply' = [reply EXCEPT ![r] = a] /\ at' = [at EXCEPT ![r] = "reply"]
      /\ a \in Answers /\ a.status = 500
  BY DEF Panics, Set, Refusal, Answers
<1>4. UNCHANGED <<avars, call, known, did>> /\ at[r] \in {"embed", "store"}
  BY DEF Panics
<1> HIDE DEF a
<1>5. Refused(r, a)
  BY <1>3, <1>4 DEF Refused, avars
<1> QED BY <1>1, <1>2, <1>3, <1>4, <1>5, RefusalStep

LEMMA CallStoreStep ==
    ASSUME AnswerInv, NEW r \in Request, CallStore(r)
    PROVE  AnswerInv'
<1>1. HandlersOK /\ PlaceOK(r) /\ at[r] = "store" /\ req[r] = "working"
  BY DEF AnswerInv, CallStore, Acquire
<1>2. CASE pool = "closed"
  <2>1. Move(r, "no_pool") /\ UNCHANGED <<avars, call, did, known>>
    BY <1>2 DEF CallStore, Acquire
  <2> DEFINE a == Refusal(500)
  <2>3. /\ reply' = [reply EXCEPT ![r] = a] /\ at' = [at EXCEPT ![r] = "reply"]
        /\ a \in Answers /\ a.status = 500
    BY <1>2 DEF CallStore, Set, Refusal, Answers
  <2> HIDE DEF a
  <2>2. /\ req' \in [Request -> {"none", "working", "querying", "answered",
                                 "no_pool", "cut"}]
        /\ req'[r] = "no_pool" /\ \A q \in Request \ {r} : req'[q] = req[q]
    BY <2>1, Moves
  <2>4. Refused(r, a)
    BY <2>1, <2>3 DEF Refused, avars
  <2> QED BY <1>1, <2>2, <2>3, <2>4, RefusalStep
<1>3. CASE pool # "closed"
  <2>1. Move(r, "querying") /\ UNCHANGED <<avars, call, did, known, reply, at>>
    BY <1>3 DEF CallStore, Acquire
  <2>2. /\ req' \in [Request -> {"none", "working", "querying", "answered",
                                 "no_pool", "cut"}]
        /\ req'[r] = "querying" /\ \A q \in Request \ {r} : req'[q] = req[q]
    BY <2>1, Moves
  <2>3. PlaceOK(r)'
    BY <1>1, <2>1, <2>2 DEF PlaceOK
  <2>4. at' \in [Request -> {"none", "embed", "store", "reply"}]
    BY <1>1, <2>1 DEF HandlersOK
  <2> QED BY <2>1, <2>2, <2>3, <2>4, QuietStep
<1> QED BY <1>2, <1>3

LEMMA WriteStep ==
    ASSUME AnswerInv, NEW r \in Request, Write(r)
    PROVE  AnswerInv'
<1>1. HandlersOK /\ PlaceOK(r) /\ at[r] = "reply"
  BY DEF AnswerInv, Write
<1>2. /\ req' \in [Request -> {"none", "working", "querying", "answered",
                               "no_pool", "cut"}]
      /\ req'[r] = "answered" /\ \A q \in Request \ {r} : req'[q] = req[q]
  BY Moves DEF Write, Answer
<1>3. UNCHANGED <<avars, call, reply, did, known, at>>
  BY DEF Write, handlers
<1>4. PlaceOK(r)'
  BY <1>1, <1>2, <1>3 DEF PlaceOK
<1>5. at' \in [Request -> {"none", "embed", "store", "reply"}]
  BY <1>1, <1>3 DEF HandlersOK
<1> QED BY <1>2, <1>3, <1>4, <1>5, QuietStep


\* Where a handler is when its statement ends.
LEMMA AtStatement ==
    ASSUME AnswerInv, NEW r \in Request, Release(r)
    PROVE  /\ at[r] = "store" /\ did[r] = {} /\ call[r] \in Calls
           /\ call[r].op \in {"index", "get", "delete", "compact"}
           /\ call[r].op = "index" => call[r].hash \in Hash
           /\ call[r].op \in {"get", "delete"} => call[r].id \in DocId
           /\ req' \in [Request -> {"none", "working", "querying", "answered",
                                    "no_pool", "cut"}]
           /\ req'[r] = "working" /\ \A q \in Request \ {r} : req'[q] = req[q]
<1>1. PlaceOK(r) /\ req[r] = "querying" /\ Move(r, "working")
  BY DEF AnswerInv, Release
<1>2. at[r] = "store" /\ did[r] = {} /\ call[r] \in Calls /\ call[r].op # "bad"
  BY <1>1 DEF PlaceOK
<1> QED BY <1>1, <1>2, CallTypes, Moves

\* A statement that ends with an answer.
LEMMA StatementAnswers ==
    ASSUME AnswerInv, Onward, NEW r \in Request, Release(r),
           NEW a \in Answers, NEW S \in SUBSET DocId, Answering(r, a, S)
    PROVE  AnswerInv'
<1>1. req'[r] \notin {"none", "querying"} /\ at[r] \in {"embed", "store"}
  BY AtStatement
<1> QED BY <1>1, AtStatement, AnswerStep

LEMMA UpsertStep ==
    ASSUME AnswerInv, NEW r \in Request, Release(r), call[r].op = "index",
           UpsertDoc(r), UNCHANGED <<call, known>>
    PROVE  AnswerInv'
<1>1. call[r].hash \in Hash /\ did[r] = {} /\ DocsOK /\ HandlersOK
  BY AtStatement DEF AnswerInv
<1>2. ASSUME NEW d \in DocId, Index(call[r].hash, d), Did(r, d), Set(r, 200, d, FALSE)
      PROVE  AnswerInv'
  <2>1. Onward
    BY <1>1, <1>2, IndexOnward
  <2> DEFINE a == [status |-> 200, id |-> d, existed |-> FALSE, hash |-> content'[d]]
  <2>2. /\ a \in Answers /\ a.status = 200 /\ a.id = d /\ a.existed = FALSE
        /\ reply' = [reply EXCEPT ![r] = a] /\ at' = [at EXCEPT ![r] = "reply"]
    <3>1. d # 0 /\ content'[d] \in Hash \union {NoHash}
      BY <2>1 DEF DocsOK, Onward
    <3> QED BY <1>2, <3>1 DEF Answers, Set
  <2> HIDE DEF a
  <2> DEFINE S == {d}
  <2>3. S \in SUBSET DocId /\ did' = [did EXCEPT ![r] = S]
    BY <1>1, <1>2 DEF Did
  <2>4. content'[d] = call[r].hash /\ stage'[d] = "live" /\ d \in Kept'
    BY <1>1, <1>2 DEF Index, DocsOK, Kept
  <2> HIDE DEF S
  <2>5. S = {d}
    BY DEF S
  <2>6. Answering(r, a, S)
    BY <2>2, <2>3, <2>4, <2>5 DEF Answering
  <2> QED BY <2>1, <2>2, <2>3, <2>6, StatementAnswers
<1>3. ASSUME NEW d \in DocId, content[d] = call[r].hash, UNCHANGED <<avars, did>>,
             Set(r, 200, d, TRUE)
      PROVE  AnswerInv'
  <2>1. Onward
    BY <1>3, NoChange DEF avars
  <2> DEFINE a == [status |-> 200, id |-> d, existed |-> TRUE, hash |-> content'[d]]
  <2>2. /\ a \in Answers /\ a.status = 200 /\ a.id = d /\ a.existed = TRUE
        /\ reply' = [reply EXCEPT ![r] = a] /\ at' = [at EXCEPT ![r] = "reply"]
    <3>1. d # 0 /\ content'[d] \in Hash \union {NoHash}
      BY <2>1 DEF DocsOK, Onward
    <3> QED BY <1>3, <3>1 DEF Answers, Set
  <2> HIDE DEF a
  <2> DEFINE S == {}
  <2>3. S \in SUBSET DocId /\ did' = [did EXCEPT ![r] = S] /\ S = {}
    BY <1>1, <1>3 DEF HandlersOK
  <2>4. content'[d] = call[r].hash
    BY <1>3 DEF avars
  <2> HIDE DEF S
  <2>5. Answering(r, a, S)
    BY <2>2, <2>3, <2>4 DEF Answering
  <2> QED BY <2>1, <2>2, <2>3, <2>5, StatementAnswers
<1> QED BY <1>2, <1>3 DEF UpsertDoc


LEMMA GetStep ==
    ASSUME AnswerInv, NEW r \in Request, Release(r), call[r].op = "get",
           GetDoc(r), UNCHANGED <<call, known>>
    PROVE  AnswerInv'
<1>1. /\ call[r].id \in DocId /\ did[r] = {} /\ DocsOK /\ HandlersOK
      /\ UNCHANGED <<avars, did>>
  BY AtStatement DEF AnswerInv, GetDoc
<1>2. Onward
  BY <1>1, NoChange DEF avars
<1> DEFINE S == {}
<1>3. S \in SUBSET DocId /\ did' = [did EXCEPT ![r] = S] /\ S = {}
  BY <1>1 DEF HandlersOK
<1> HIDE DEF S
<1>4. CASE Visible(call[r].id)
  <2> DEFINE a == [status |-> 200, id |-> call[r].id, existed |-> TRUE,
                   hash |-> content'[call[r].id]]
  <2>1. /\ a \in Answers /\ a.status = 200 /\ a.hash = content'[call[r].id]
        /\ reply' = [reply EXCEPT ![r] = a] /\ at' = [at EXCEPT ![r] = "reply"]
    <3>1. call[r].id # 0 /\ content'[call[r].id] \in Hash \union {NoHash}
      BY <1>1, <1>2 DEF DocsOK, Onward
    <3>2. Set(r, 200, call[r].id, TRUE)
      BY <1>4 DEF GetDoc
    <3> QED BY <1>1, <3>1, <3>2 DEF Answers, Set
  <2> HIDE DEF a
  <2>2. Answering(r, a, S)
    BY <1>3, <1>4, <2>1 DEF Answering, Visible
  <2> QED BY <1>2, <1>3, <2>1, <2>2, StatementAnswers
<1>5. CASE ~Visible(call[r].id)
  <2> DEFINE a == Refusal(404)
  <2>1. /\ a \in Answers /\ a.status = 404
        /\ reply' = [reply EXCEPT ![r] = a] /\ at' = [at EXCEPT ![r] = "reply"]
    BY <1>5 DEF GetDoc, Set, Refusal, Answers
  <2> HIDE DEF a
  <2>2. Answering(r, a, S)
    BY <1>3, <1>5, <2>1 DEF Answering, Visible
  <2> QED BY <1>2, <1>3, <2>1, <2>2, StatementAnswers
<1> QED BY <1>4, <1>5

LEMMA DeleteStep ==
    ASSUME AnswerInv, NEW r \in Request, Release(r), call[r].op = "delete",
           DeleteDoc(r), UNCHANGED <<call, known>>
    PROVE  AnswerInv'
<1>1. call[r].id \in DocId /\ did[r] = {} /\ DocsOK /\ HandlersOK
  BY AtStatement DEF AnswerInv
<1>2. CASE Delete(call[r].id) /\ Did(r, call[r].id) /\ Set(r, 200, 0, FALSE)
  <2>1. Onward
    BY <1>1, <1>2, DeleteOnward
  <2> DEFINE a == Refusal(200)
             S == {call[r].id}
  <2>2. /\ a \in Answers /\ a.status = 200
        /\ reply' = [reply EXCEPT ![r] = a] /\ at' = [at EXCEPT ![r] = "reply"]
    BY <1>2 DEF Set, Refusal, Answers
  <2>3. S \in SUBSET DocId /\ did' = [did EXCEPT ![r] = S] /\ S = {call[r].id}
    BY <1>1, <1>2 DEF Did
  <2>4. stage'[call[r].id] \in Gone
    BY <1>1, <1>2 DEF Delete, DocsOK, Gone
  <2> HIDE DEF a, S
  <2>5. Answering(r, a, S)
    BY <2>2, <2>3, <2>4 DEF Answering
  <2> QED BY <2>1, <2>2, <2>3, <2>5, StatementAnswers
<1>3. CASE UNCHANGED <<avars, did>> /\ Set(r, 404, 0, FALSE)
  <2>1. Onward
    BY <1>3, NoChange DEF avars
  <2> DEFINE a == Refusal(404)
             S == {}
  <2>2. /\ a \in Answers /\ a.status = 404
        /\ reply' = [reply EXCEPT ![r] = a] /\ at' = [at EXCEPT ![r] = "reply"]
    BY <1>3 DEF Set, Refusal, Answers
  <2>3. S \in SUBSET DocId /\ did' = [did EXCEPT ![r] = S] /\ S = {}
    BY <1>1, <1>3 DEF HandlersOK
  <2> HIDE DEF a, S
  <2>4. Answering(r, a, S)
    BY <2>2, <2>3 DEF Answering
  <2> QED BY <2>1, <2>2, <2>3, <2>4, StatementAnswers
<1> QED BY <1>2, <1>3 DEF DeleteDoc

LEMMA CompactStep ==
    ASSUME AnswerInv, NEW r \in Request, Release(r), call[r].op = "compact",
           Compact(r), UNCHANGED <<call, known>>
    PROVE  AnswerInv'
<1>1. at[r] = "store" /\ did[r] = {} /\ DocsOK /\ HandlersOK /\ PlaceOK(r)
      /\ AnswerOK(r) /\ KnownOK(r) /\ did' = did
  BY AtStatement DEF AnswerInv, Compact
<1>2. ASSUME NEW d \in Reclaimable, Reclaim(d), UNCHANGED <<reply, at>>
      PROVE  AnswerInv'
  <2>1. d \in DocId
    BY DEF Reclaimable
  <2>2. Onward
    BY <1>2, <2>1, ReclaimOnward
  <2>3. HandlersOK'
    BY <1>1, <1>2, AtStatement DEF HandlersOK
  <2>4. PlaceOK(r)'
    BY <1>1, <1>2, AtStatement DEF PlaceOK
  <2>5. AnswerOK(r)' /\ KnownOK(r)'
    BY <1>1, <1>2, <2>2, OthersKept
  <2> QED BY <1>1, <1>2, <2>2, <2>3, <2>4, <2>5, AtStatement, OneMoves
<1>3. CASE UNCHANGED avars /\ Set(r, 200, 0, FALSE)
  <2>1. Onward
    BY <1>3, NoChange
  <2> DEFINE a == Refusal(200)
             S == {}
  <2>2. /\ a \in Answers /\ a.status = 200
        /\ reply' = [reply EXCEPT ![r] = a] /\ at' = [at EXCEPT ![r] = "reply"]
    BY <1>3 DEF Set, Refusal, Answers
  <2>3. S \in SUBSET DocId /\ did' = [did EXCEPT ![r] = S] /\ S = {}
    BY <1>1, <1>3 DEF HandlersOK
  <2> HIDE DEF a, S
  <2>4. Answering(r, a, S)
    BY <2>2, <2>3 DEF Answering
  <2> QED BY <2>1, <2>2, <2>3, <2>4, StatementAnswers
<1> QED BY <1>2, <1>3 DEF Compact

LEMMA StoreReturnsStep ==
    ASSUME AnswerInv, NEW r \in Request, StoreReturns(r)
    PROVE  AnswerInv'
<1>1. Release(r) /\ Operation(r) /\ UNCHANGED <<call, known>>
  BY DEF StoreReturns
<1>2. call[r].op \in {"index", "get", "delete", "compact"}
  BY <1>1, AtStatement
<1>3. \/ call[r].op = "index" /\ UpsertDoc(r)
      \/ call[r].op = "get" /\ GetDoc(r)
      \/ call[r].op = "delete" /\ DeleteDoc(r)
      \/ call[r].op = "compact" /\ Compact(r)
  BY <1>1, <1>2 DEF Operation
<1> QED BY <1>1, <1>3, UpsertStep, GetStep, DeleteStep, CompactStep


LEMMA StoreFailsStep ==
    ASSUME AnswerInv, NEW r \in Request, StoreFails(r)
    PROVE  AnswerInv'
<1>1. /\ Release(r) /\ Set(r, 500, 0, FALSE) /\ UNCHANGED <<call, known>>
      /\ HandlersOK
  BY DEF StoreFails, FailureStatus, AnswerInv
<1> DEFINE a == Refusal(500)
<1>2. /\ a \in Answers /\ a.status = 500
      /\ reply' = [reply EXCEPT ![r] = a] /\ at' = [at EXCEPT ![r] = "reply"]
  BY <1>1 DEF Set, Refusal, Answers
<1> HIDE DEF a
<1>3. /\ did[r] = {} /\ (call[r].op = "index" => call[r].hash \in Hash)
      /\ (call[r].op = "delete" => call[r].id \in DocId)
  BY <1>1, AtStatement
<1>4. CASE UNCHANGED <<avars, did>>
  <2>1. Onward
    BY <1>1, <1>4, NoChange DEF avars
  <2> DEFINE S == {}
  <2>2. S \in SUBSET DocId /\ did' = [did EXCEPT ![r] = S] /\ S = {}
    BY <1>1, <1>3, <1>4 DEF HandlersOK
  <2> HIDE DEF S
  <2>3. Answering(r, a, S)
    BY <1>1, <1>2, <2>2 DEF Answering
  <2> QED BY <1>1, <1>2, <2>1, <2>2, <2>3, StatementAnswers
<1>5. ASSUME NEW d \in DocId, Did(r, d),
             \/ call[r].op = "index" /\ Index(call[r].hash, d)
             \/ call[r].op = "delete" /\ d = call[r].id /\ Delete(d)
      PROVE  AnswerInv'
  <2>1. Onward
    BY <1>1, <1>3, <1>5, IndexOnward, DeleteOnward
  <2> DEFINE S == {d}
  <2>2. S \in SUBSET DocId /\ did' = [did EXCEPT ![r] = S]
    BY <1>3, <1>5 DEF Did
  <2> HIDE DEF S
  <2>3. Answering(r, a, S)
    BY <1>1, <1>2, <1>5, <2>2 DEF Answering
  <2> QED BY <1>1, <1>2, <2>1, <2>2, <2>3, StatementAnswers
<1> QED BY <1>4, <1>5 DEF StoreFails

LEMMA NextAnswers == AnswerInv /\ [SNext]_svars => AnswerInv'
<1> SUFFICES ASSUME AnswerInv, [SNext]_svars PROVE AnswerInv'
  OBVIOUS
<1>1. CASE UNCHANGED svars
  <2>1. Onward /\ HandlersOK' /\ \A r \in Request : PlaceOK(r)'
    <3>1. Onward
      BY <1>1, NoChange DEF svars, handlers
    <3>2. HandlersOK'
      BY <1>1 DEF svars, handlers, process, AnswerInv, HandlersOK
    <3>3. \A r \in Request : PlaceOK(r)'
      BY <1>1 DEF svars, handlers, process, AnswerInv, PlaceOK
    <3> QED BY <3>1, <3>2, <3>3
  <2>2. \A r \in Request : AnswerOK(r)' /\ KnownOK(r)'
    BY <1>1, <2>1, OthersKept DEF svars, handlers
  <2> QED BY <2>1, <2>2 DEF AnswerInv, Onward
<1>2. CASE Process /\ UNCHANGED <<avars, handlers, faults>>
  BY <1>2, ProcessStep
<1>3. ASSUME NEW r \in Request, NEW c \in Calls, Accept(r, c) PROVE AnswerInv'
  BY <1>3, AcceptStep
<1>4. ASSUME NEW r \in Request, Serve(r) \/ Panics(r) \/ StoreFails(r)
      PROVE  AnswerInv'
  BY <1>4, EmbedStep, CallStoreStep, StoreReturnsStep, WriteStep, PanicsStep,
     StoreFailsStep DEF Serve
<1> QED BY <1>1, <1>2, <1>3, <1>4 DEF SNext

LEMMA AnswersStand == SSpec => []AnswerInv
BY InitAnswers, NextAnswers, PTL DEF SSpec

\* A status says what the request has changed, whatever other requests, faults
\* and compactions came between, and stays true after it was sent.
THEOREM AnswersTrue == SSpec => []AnswersFit
<1>1. AnswerInv => AnswersFit
  <2> SUFFICES ASSUME AnswerInv, NEW r \in Request, Told(r)
               PROVE  /\ reply[r].status \in {400, 404, 503} => did[r] = {}
                      /\ reply[r].status = 200 /\ call[r].op = "index" =>
                            /\ did[r] = IF reply[r].existed THEN {} ELSE {reply[r].id}
                            /\ content[reply[r].id] = call[r].hash
                      /\ reply[r].status = 200 /\ call[r].op = "delete" =>
                            did[r] = {call[r].id} /\ ~Visible(call[r].id)
                      /\ call[r].op \in {"get", "compact", "bad"} => did[r] = {}
    BY DEF AnswersFit
  <2>1. AnswerOK(r)
    BY DEF AnswerInv
  <2> QED BY <2>1 DEF AnswerOK, Visible, Gone
<1> QED BY <1>1, AnswersStand, PTL

\* What one client was told before another request arrived, that request sees.
THEOREM ReadsFollow == SSpec => []ReadsFollowAnswers
<1>1. AnswerInv => ReadsFollowAnswers
  <2> SUFFICES ASSUME AnswerInv, NEW r \in Request, Told(r), call[r].op = "get"
               PROVE  /\ call[r].id \in known[r].gone => reply[r].status # 200
                      /\ call[r].id \in known[r].created /\ ~DeleteAsked(call[r].id) =>
                            reply[r].status \in {200, 500}
                      /\ reply[r].status = 200 => reply[r].hash = content[call[r].id]
    BY DEF ReadsFollowAnswers
  <2>1. AnswerOK(r) /\ KnownOK(r)
    BY DEF AnswerInv
  <2>2. call[r].id \in known[r].created /\ ~DeleteAsked(call[r].id) =>
           call[r].id \in known[r].created \ Asked
    BY DEF Asked
  <2> QED BY <2>1, <2>2 DEF AnswerOK, KnownOK
<1> QED BY <1>1, AnswersStand, PTL

-----------------------------------------------------------------------------
(* The documents.                                                          *)

\* A handler at work changes the documents by one step of the store or none,
\* also where it is told of an error.
LEMMA OneStoreStep ==
    ASSUME AnswerInv, NEW r \in Request, Serve(r) \/ Panics(r) \/ StoreFails(r)
    PROVE  ANext \/ UNCHANGED avars
<1>1. CASE Embed(r) \/ CallStore(r) \/ Write(r) \/ Panics(r)
  BY <1>1 DEF Embed, CallStore, Write, Panics
<1>2. CASE StoreReturns(r)
  <2>1. /\ call[r].op \in {"index", "get", "delete", "compact"}
        /\ call[r].op = "index" => call[r].hash \in Hash
        /\ call[r].op = "delete" => call[r].id \in DocId
    BY <1>2, AtStatement DEF StoreReturns
  <2>2. CASE call[r].op = "index" /\ UpsertDoc(r)
    BY <2>1, <2>2 DEF UpsertDoc, ANext
  <2>3. CASE call[r].op = "get" /\ GetDoc(r)
    BY <2>3 DEF GetDoc, avars
  <2>4. CASE call[r].op = "delete" /\ DeleteDoc(r)
    BY <2>1, <2>4 DEF DeleteDoc, ANext
  <2>5. CASE call[r].op = "compact" /\ Compact(r)
    BY <2>5 DEF Compact, Reclaimable, ANext
  <2> QED BY <1>2, <2>1, <2>2, <2>3, <2>4, <2>5 DEF StoreReturns, Operation
<1>3. CASE StoreFails(r)
  <2>1. /\ call[r].op = "index" => call[r].hash \in Hash
    BY <1>3, AtStatement DEF StoreFails
  <2> QED BY <1>3, <2>1 DEF StoreFails, ANext
<1> QED BY <1>1, <1>2, <1>3 DEF Serve

\* Whatever the handlers, the faults and the signals, the documents change as
\* DocIndex says: indexed once, deleted once, reclaimed once.
THEOREM ServesIndex == SSpec => [][ANext]_avars
<1>1. AnswerInv /\ [SNext]_svars => [ANext]_avars
  <2> SUFFICES ASSUME AnswerInv, [SNext]_svars PROVE ANext \/ UNCHANGED avars
    OBVIOUS
  <2>1. CASE UNCHANGED svars
    BY <2>1 DEF svars
  <2>2. CASE Process /\ UNCHANGED <<avars, handlers, faults>>
    BY <2>2
  <2>3. ASSUME NEW r \in Request, NEW c \in Calls, Accept(r, c) PROVE UNCHANGED avars
    BY <2>3 DEF Accept
  <2>4. ASSUME NEW r \in Request, Serve(r) \/ Panics(r) \/ StoreFails(r)
        PROVE  ANext \/ UNCHANGED avars
    BY <2>4, OneStoreStep
  <2> QED BY <2>1, <2>2, <2>3, <2>4 DEF SNext
<1> QED BY <1>1, AnswersStand, PTL DEF SSpec

-----------------------------------------------------------------------------
(* GET /v1/docs.                                                           *)

USE ListAssumption

-----------------------------------------------------------------------------
(* The rows of an answer.                                                  *)

Row == (1..MaxTime) \X Doc

LEMMA NewerTransitive ==
    ASSUME NEW a \in Row, NEW b \in Row, NEW c \in Row, Newer(a, b), Newer(b, c)
    PROVE  Newer(a, c)
<1>1. ASSUME NEW x \in Row PROVE x[1] \in Nat /\ x[2] \in Nat
  <2>1. x[1] \in 1..MaxTime /\ x[2] \in Doc
    BY DEF Row
  <2>2. x[1] \in Nat
    BY <2>1
  <2>3. Doc \subseteq Nat
    BY ListAssumption
  <2> QED BY <2>1, <2>2, <2>3
<1>2. /\ a[1] \in Nat /\ b[1] \in Nat /\ c[1] \in Nat
      /\ a[2] \in Nat /\ b[2] \in Nat /\ c[2] \in Nat
  BY <1>1
<1> QED BY <1>2 DEF Newer

LEMMA RowNotFirst == \A x \in Row : x # FirstPage /\ x # NoCursor
<1> SUFFICES ASSUME NEW x \in Row PROVE x # FirstPage /\ x # NoCursor
  OBVIOUS
<1>1. x[1] \in 1..MaxTime
  BY DEF Row
<1>2. FirstPage[1] = 0 /\ NoCursor[1] = -1
  BY DEF FirstPage, NoCursor
<1> QED BY <1>1, <1>2

LEMMA KeyRow ==
    ASSUME LTypeOK, NEW d \in live
    PROVE  d \in Doc /\ Key(d) \in Row
<1>1. d \in Doc /\ createdAt[d] \in 0..MaxTime /\ createdAt[d] > 0
  BY DEF LTypeOK
<1> QED BY <1>1 DEF Key, Row

LEMMA MatchingFinite == LTypeOK => IsFiniteSet(Matching) /\ Matching \subseteq Row
<1> SUFFICES ASSUME LTypeOK PROVE IsFiniteSet(Matching) /\ Matching \subseteq Row
  OBVIOUS
<1> DEFINE L == {e \in live : AfterCursor(e)}
           f == [d \in L |-> Key(d)]
<1>1. L \in SUBSET Doc
  BY DEF LTypeOK
<1>2. IsFiniteSet(L)
  BY <1>1, FS_Subset
<1>3. f \in Surjection(L, Matching)
  BY DEF Surjection, Matching
<1>4. Matching \subseteq Row
  BY KeyRow DEF Matching
<1> HIDE DEF L, f
<1> QED BY <1>2, <1>3, <1>4, FS_Surjection

\* An ordered answer has every matching row, each at one place.
LEMMA OrderedRows ==
    ASSUME LTypeOK, NEW rows \in Ordered
    PROVE  /\ rows \in Seq(Row) /\ Descending(rows)
           /\ \A p \in DOMAIN rows : rows[p] \in Matching
           /\ \A m \in Matching : \E p \in DOMAIN rows : rows[p] = m
<1> DEFINE n == Cardinality(Matching)
           D == 1..n
<1>1. IsFiniteSet(Matching) /\ n \in Nat /\ Matching \subseteq Row
  BY MatchingFinite, FS_CardinalityType
<1>2. /\ rows \in [D -> Matching] /\ \A i, j \in D : i # j => rows[i] # rows[j]
      /\ Descending(rows)
  BY DEF Ordered, SetToSeqs
<1>3. IsFiniteSet(D) /\ Cardinality(D) = n
  BY <1>1, FS_Interval
<1>4. rows \in Injection(D, Matching)
  BY <1>2 DEF Injection, IsInjective
<1>5. rows \in Surjection(D, Matching)
  BY <1>1, <1>3, <1>4, FS_Injection
<1>6. \A m \in Matching : \E p \in D : rows[p] = m
  BY <1>5 DEF Surjection
<1>7. DOMAIN rows = D
  BY <1>2
<1>8. rows \in Seq(Row)
  BY <1>1, <1>2
<1> QED BY <1>2, <1>6, <1>7, <1>8

\* A page is the first rows of the answer.
LEMMA PageRows ==
    ASSUME NEW rows \in Seq(Row)
    PROVE  /\ Page(rows) \in Seq(Row)
           /\ Len(Page(rows)) = IF Len(rows) < Limit THEN Len(rows) ELSE Limit
           /\ \A p \in DOMAIN Page(rows) : p \in DOMAIN rows /\ Page(rows)[p] = rows[p]
<1> DEFINE m == IF Len(rows) < Limit THEN Len(rows) ELSE Limit
<1>1. m \in Nat /\ m <= Len(rows) /\ Len(rows) \in Nat
  OBVIOUS
<1>2. Page(rows) = SubSeq(rows, 1, m)
  BY DEF Page
<1> HIDE DEF m
<1>3. /\ SubSeq(rows, 1, m) \in Seq(Row) /\ Len(SubSeq(rows, 1, m)) = m
      /\ \A p \in 1..m : SubSeq(rows, 1, m)[p] = rows[p] /\ p \in DOMAIN rows
  BY <1>1
<1> QED BY <1>2, <1>3 DEF m

-----------------------------------------------------------------------------
(* Where a walk stands.                                                    *)

Placed ==
    /\ cursor = FirstPage => listed = <<>>
    /\ cursor \notin {FirstPage, NoCursor} =>
          Len(listed) > 0 /\ listed[Len(listed)] = cursor

Listed(d) == Contains(listed, Key(d))
Covered   == \A d \in stable : Listed(d) \/ (cursor # NoCursor /\ AfterCursor(d))

WalkInv == LTypeOK /\ StrictlyDescending /\ Placed /\ Covered

LEMMA InitWalk == LInit => WalkInv
<1> SUFFICES ASSUME LInit PROVE WalkInv
  OBVIOUS
<1>1. LTypeOK
  BY DEF LInit, LTypeOK, NoCursor
<1>2. StrictlyDescending /\ Placed /\ Covered
  BY DEF LInit, StrictlyDescending, Descending, Placed, Covered, FirstPage, NoCursor
<1> QED BY <1>1, <1>2 DEF WalkInv

\* What happens to the documents leaves the walk where it is.
LEMMA TableStep ==
    ASSUME WalkInv, LTypeOK', UNCHANGED <<cursor, listed>>, stable' \subseteq stable,
           \A d \in stable' : createdAt'[d] = createdAt[d]
    PROVE  WalkInv'
<1>1. StrictlyDescending' /\ Placed'
  BY DEF WalkInv, StrictlyDescending, Descending, Placed
<1>2. \A d \in stable' : Key(d)' = Key(d)
  BY DEF Key
<1>3. Covered'
  BY <1>2 DEF WalkInv, Covered, Listed, AfterCursor, Key
<1> QED BY <1>1, <1>3 DEF WalkInv

LEMMA DocumentStep ==
    ASSUME WalkInv, NEW d \in Doc, Tick \/ BeginIndex(d) \/ CommitIndex(d) \/ Disappear(d)
    PROVE  WalkInv'
<1>1. LTypeOK /\ stable \subseteq live /\ \A e \in live : createdAt[e] > 0 /\ e \in Doc
  BY DEF WalkInv, LTypeOK
<1>2. CASE Tick
  <2>1. LTypeOK'
    BY <1>1, <1>2 DEF Tick, LTypeOK
  <2> QED BY <1>2, <2>1, TableStep DEF Tick
<1>3. CASE BeginIndex(d)
  <2>1. LTypeOK'
    BY <1>1, <1>3 DEF BeginIndex, LTypeOK
  <2>2. \A e \in stable : e # d /\ createdAt'[e] = createdAt[e]
    BY <1>1, <1>3 DEF BeginIndex, LTypeOK
  <2> QED BY <1>3, <2>1, <2>2, TableStep DEF BeginIndex
<1>4. CASE CommitIndex(d)
  <2>1. LTypeOK'
    BY <1>1, <1>4 DEF CommitIndex, LTypeOK
  <2> QED BY <1>4, <2>1, TableStep DEF CommitIndex
<1>5. CASE Disappear(d)
  <2>1. LTypeOK'
    BY <1>1, <1>5 DEF Disappear, LTypeOK
  <2> QED BY <1>5, <2>1, TableStep DEF Disappear
<1> QED BY <1>2, <1>3, <1>4, <1>5

LEMMA StartStep == WalkInv /\ StartWalk => WalkInv'
<1> SUFFICES ASSUME WalkInv, StartWalk PROVE WalkInv'
  OBVIOUS
<1>1. LTypeOK'
  BY DEF WalkInv, StartWalk, LTypeOK
<1>2. StrictlyDescending' /\ Placed' /\ Covered'
  BY DEF StartWalk, StrictlyDescending, Descending, Placed, Covered, AfterCursor,
         FirstPage, NoCursor
<1> QED BY <1>1, <1>2 DEF WalkInv

LEMMA FetchStep == WalkInv /\ FetchPage => WalkInv'
<1> SUFFICES ASSUME WalkInv, FetchPage PROVE WalkInv'
  OBVIOUS
<1>1. PICK rows \in Ordered :
         listed' = listed \o Page(rows) /\ cursor' = NextCursor(Page(rows))
  BY DEF FetchPage
<1> DEFINE page == Page(rows)
           n == Len(rows)
           m == Len(page)
           k == Len(listed)
<1>2. /\ rows \in Seq(Row) /\ Descending(rows)
      /\ \A p \in DOMAIN rows : rows[p] \in Matching
      /\ \A x \in Matching : \E p \in DOMAIN rows : rows[p] = x
  BY OrderedRows DEF WalkInv
<1>3. /\ page \in Seq(Row) /\ m = IF n < Limit THEN n ELSE Limit
      /\ \A p \in DOMAIN page : p \in DOMAIN rows /\ page[p] = rows[p]
  BY <1>2, PageRows
<1>4. /\ listed \in Seq(Row) /\ k \in Nat /\ n \in Nat /\ m \in Nat
      /\ listed' = listed \o page /\ cursor' = NextCursor(page)
      /\ UNCHANGED <<now, createdAt, live, gone, stable>>
      /\ cursor # NoCursor
  BY <1>1, <1>2, <1>3 DEF WalkInv, LTypeOK, Row, FetchPage
<1> HIDE DEF page
<1>5. /\ listed' \in Seq(Row) /\ Len(listed') = k + m
      /\ \A i \in 1..k : listed'[i] = listed[i]
      /\ \A i \in 1..m : listed'[k + i] = page[i] /\ page[i] \in Row
      /\ \A i \in 1..(k + m) : i \in 1..k \/ (i - k \in 1..m /\ listed'[i] = page[i - k])
  <2>1. /\ listed' \in Seq(Row) /\ Len(listed') = k + m
        /\ \A i \in 1..k : listed'[i] = listed[i]
        /\ \A i \in 1..(k + m) : i > k => listed'[i] = page[i - k]
    <3>1. page \in Seq(Row) /\ listed \in Seq(Row) /\ listed' = listed \o page
      BY <1>3, <1>4
    <3> HIDE DEF Row
    <3>2. listed' \in Seq(Row)
      BY <3>1
    <3>3. Len(listed') = k + m
      BY <3>1
    <3>4. \A i \in 1..k : listed'[i] = listed[i]
      BY <3>1
    <3>5. \A i \in 1..(k + m) : i > k => listed'[i] = page[i - k]
      BY <3>1
    <3> QED BY <3>2, <3>3, <3>4, <3>5
  <2>2. \A i \in 1..m : page[i] \in Row
    BY <1>3, <1>4
  <2> HIDE DEF k, m
  <2>3. \A i \in 1..m : k + i \in 1..(k + m) /\ k + i > k /\ (k + i) - k = i
    BY <1>4
  <2>4. \A i \in 1..(k + m) : i \in 1..k \/ (i > k /\ i - k \in 1..m)
    BY <1>4
  <2> QED BY <2>1, <2>2, <2>3, <2>4
<1>6. cursor' = IF m = Limit THEN page[m] ELSE NoCursor
  BY <1>4 DEF NextCursor
<1>7. LTypeOK'
  <2>1. m = Limit => page[m] \in Row
    BY <1>3, <1>4
  <2> QED BY <1>4, <1>5, <1>6, <2>1 DEF WalkInv, LTypeOK, Row
<1>8. StrictlyDescending'
  <2>1. ASSUME NEW i \in 1..k, NEW j \in 1..m PROVE Newer(listed[i], page[j])
    <3>1. cursor # FirstPage /\ k > 0 /\ listed[k] = cursor /\ cursor \in Row
      BY <1>4, <2>1 DEF WalkInv, Placed, LTypeOK, Row
    <3>2. page[j] \in Matching /\ page[j] \in Row /\ listed[i] \in Row
      BY <1>2, <1>3, <1>4
    <3>3. Newer(cursor, page[j])
      BY <3>1, <3>2 DEF Matching, AfterCursor
    <3>4. i = k \/ Newer(listed[i], cursor)
      BY <1>4, <3>1 DEF WalkInv, StrictlyDescending, Descending
    <3> QED BY <3>1, <3>2, <3>3, <3>4, NewerTransitive
  <2>2. \A i, j \in 1..k : i < j => Newer(listed[i], listed[j])
    BY <1>4 DEF WalkInv, StrictlyDescending, Descending
  <2>3. \A i, j \in 1..m : i < j => Newer(page[i], page[j])
    BY <1>2, <1>3, <1>4 DEF Descending
  <2>4. ASSUME NEW i \in 1..(k + m), NEW j \in 1..(k + m), i < j
        PROVE  Newer(listed'[i], listed'[j])
    <3>1. CASE j \in 1..k
      BY <1>4, <1>5, <2>2, <2>4, <3>1
    <3>2. CASE j \notin 1..k /\ i \in 1..k
      BY <1>4, <1>5, <2>1, <3>2
    <3>3. CASE j \notin 1..k /\ i \notin 1..k
      <4>1. i - k \in 1..m /\ j - k \in 1..m /\ i - k < j - k
        BY <1>4, <1>5, <2>4, <3>3
      <4>2. listed'[i] = page[i - k] /\ listed'[j] = page[j - k]
        BY <1>5, <3>3
      <4> QED BY <2>3, <4>1, <4>2
    <3> QED BY <3>1, <3>2, <3>3
  <2>5. DOMAIN listed' = 1..(k + m)
    BY <1>5
  <2> QED BY <2>4, <2>5 DEF StrictlyDescending, Descending
<1>9. Placed'
  <2>1. CASE m = Limit
    <3>1. m \in 1..m /\ page[m] \in Row /\ listed'[k + m] = page[m] /\ k + m > 0
      BY <1>3, <1>4, <1>5, <2>1
    <3>3. page[m] # FirstPage
      BY <3>1, RowNotFirst
    <3> QED BY <1>5, <1>6, <2>1, <3>1, <3>3 DEF Placed
  <2>2. CASE m # Limit
    BY <1>6, <2>2 DEF Placed, FirstPage, NoCursor
  <2> QED BY <2>1, <2>2
<1>10. Covered'
  <2> SUFFICES ASSUME NEW d \in stable
               PROVE  Listed(d)' \/ (cursor' # NoCursor /\ AfterCursor(d)')
    BY <1>4 DEF Covered
  <2>1. d \in live /\ Key(d)' = Key(d) /\ Key(d) \in Row
    BY <1>4, KeyRow DEF WalkInv, LTypeOK, Key
  <2>2. CASE Listed(d)
    <3>1. PICK i \in 1..k : listed[i] = Key(d)
      BY <2>2 DEF Listed, Contains
    <3>2. i \in 1..(k + m) /\ listed'[i] = Key(d)
      BY <1>4, <1>5, <3>1
    <3> QED BY <1>5, <2>1, <3>2 DEF Listed, Contains
  <2>3. CASE AfterCursor(d)
    <3>1. Key(d) \in Matching
      BY <2>1, <2>3 DEF Matching
    <3>2. PICK p \in DOMAIN rows : rows[p] = Key(d)
      BY <1>2, <3>1
    <3>3. p \in 1..n
      BY <1>2, <3>2
    <3>4. CASE p <= m
      <4>1. k + p \in 1..(k + m) /\ listed'[k + p] = Key(d)
        BY <1>3, <1>4, <1>5, <3>2, <3>3, <3>4
      <4> QED BY <1>5, <2>1, <4>1 DEF Listed, Contains
    <3>5. CASE p > m
      <4>1. m = Limit /\ m \in DOMAIN page /\ m \in DOMAIN rows /\ m < p
        BY <1>2, <1>3, <1>4, <3>3, <3>5
      <4>2. Newer(page[m], Key(d)) /\ page[m] \in Row
        BY <1>2, <1>3, <3>2, <4>1 DEF Descending
      <4>3. page[m] # NoCursor
        BY <4>2, RowNotFirst
      <4> QED BY <1>6, <2>1, <4>1, <4>2, <4>3 DEF AfterCursor
    <3> QED BY <1>4, <3>3, <3>4, <3>5
  <2> QED BY <2>2, <2>3 DEF WalkInv, Covered
<1> QED BY <1>7, <1>8, <1>9, <1>10 DEF WalkInv

LEMMA NextWalk == WalkInv /\ [LNext]_lvars => WalkInv'
<1> SUFFICES ASSUME WalkInv, [LNext]_lvars PROVE WalkInv'
  OBVIOUS
<1>1. CASE UNCHANGED lvars
  <2>1. LTypeOK'
    BY <1>1 DEF WalkInv, LTypeOK, lvars
  <2> QED BY <1>1, <2>1, TableStep DEF lvars
<1>2. CASE Tick
  <2>1. LTypeOK'
    BY <1>2 DEF WalkInv, Tick, LTypeOK
  <2> QED BY <1>2, <2>1, TableStep DEF Tick
<1>3. ASSUME NEW d \in Doc, BeginIndex(d) \/ CommitIndex(d) \/ Disappear(d)
      PROVE  WalkInv'
  BY <1>3, DocumentStep
<1> QED BY <1>1, <1>2, <1>3, StartStep, FetchStep DEF LNext

-----------------------------------------------------------------------------
(* The theorems.                                                           *)

LEMMA WalkStands == LSpec => []WalkInv
BY InitWalk, NextWalk, PTL DEF LSpec

\* No document is listed twice, nor after an older one, on any page of a walk.
THEOREM WalkDescends == LSpec => []StrictlyDescending
<1>1. WalkInv => StrictlyDescending
  BY DEF WalkInv
<1> QED BY <1>1, WalkStands, PTL

\* A walk that has ended has listed every document that was live throughout.
THEOREM WalkComplete == LSpec => []NoneSkipped
<1>1. WalkInv => NoneSkipped
  BY DEF WalkInv, Covered, NoneSkipped, Listed
<1> QED BY <1>1, WalkStands, PTL
=============================================================================
