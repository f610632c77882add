------------------------------ MODULE Sidecar ------------------------------
(***************************************************************************)
(* services/embed-sidecar under a document's batches: the process builds   *)
(* its embedder and its reranker when a request first needs them, keeps    *)
(* them in a dict its threads share without a lock, and may restart with   *)
(* other settings while it is asked.                                       *)
(*                                                                         *)
(* Thread Caller serves the batches of EmbedBatches, the other threads     *)
(* /embed, /healthz and /rerank of other clients.  A batch may also go to  *)
(* whatever else answers at the address (SidecarAnswers), or to nobody.    *)
(***************************************************************************)
EXTENDS EmbedBatches

CONSTANTS Thread, Caller

ASSUME SidecarAssumption == Caller \in Thread

VARIABLES
    settings,   \* EMBEDDER_KIND, and the dimension of its embedder
    state,      \* which of "embedder" and "reranker" is built
    at,         \* where a thread is: "idle", "get", "build" or "use"
    needs,      \* the model it asks for: /rerank the reranker, /embed and
                \* /healthz the embedder
    \* history, of this process
    told,       \* the models a 200 has been answered with
    warm        \* told, when a thread's request arrived

process == <<settings, state, at, needs, told, warm>>
svars   == <<evars, process>>

\* The hash embedder is always pinned to the schema's dimension.
Settings == {s \in [kind : {"hash", "hf"}, dim : {Dim, OtherDim}] :
                s.kind = "hash" => s.dim = Dim}

SInit ==
    /\ EInit
    /\ settings \in Settings /\ state = {}
    /\ at = [t \in Thread |-> "idle"] /\ needs = [t \in Thread |-> "none"]
    /\ told = {} /\ warm = [t \in Thread |-> {}]

Begin(t, model) ==
    /\ at[t] = "idle" /\ at' = [at EXCEPT ![t] = "get"]
    /\ needs' = [needs EXCEPT ![t] = model]
    /\ warm' = [warm EXCEPT ![t] = told]
    /\ UNCHANGED <<settings, state, told>>

\* get_embedder, get_reranker: if e is None
Get(t) ==
    /\ at[t] = "get"
    /\ at' = [at EXCEPT ![t] = IF needs[t] \in state THEN "use" ELSE "build"]
    /\ UNCHANGED <<settings, state, needs, told, warm>>

\* mutant: the model built is not kept
Local(t) == state

Publish(t) == state \union {needs[t]}

\* A model of another dimension than the schema's is refused.
Fits(t) == needs[t] = "reranker" \/ settings.dim = Dim

Build(t) ==
    /\ at[t] = "build" /\ Fits(t)
    /\ state' = Publish(t) /\ at' = [at EXCEPT ![t] = "use"]
    /\ UNCHANGED <<settings, needs, told, warm>>

Idle(t) ==
    /\ at' = [at EXCEPT ![t] = "idle"] /\ needs' = [needs EXCEPT ![t] = "none"]
    /\ warm' = [warm EXCEPT ![t] = {}]

\* The weights do not load, or the ValueError of the dimension: a 500, and
\* the next request tries again.
BuildFails(t) ==
    /\ at[t] = "build" /\ settings.kind = "hf"
    /\ Idle(t)
    /\ UNCHANGED <<settings, state, told>>

Reply(t) ==
    /\ at[t] = "use" /\ Idle(t)
    /\ told' = told \union {needs[t]}
    /\ UNCHANGED <<settings, state>>

\* One vector for each text of the batch, in the embedder's dimension; dropped
\* when the client has given up.
AnswerCaller ==
    /\ Reply(Caller)
    /\ answer' = IF step # "sent" THEN answer ELSE
           [embeddings |-> [p \in 1..(End - i) |-> <<i + p, settings.dim>>],
            dim |-> settings.dim]
    /\ UNCHANGED <<n, bs, i, out, step, chunkOf>>

\* Models, and requests at work, are gone.
Restart ==
    /\ settings' \in Settings /\ state' = {} /\ told' = {}
    /\ at' = [t \in Thread |-> "idle"] /\ needs' = [t \in Thread |-> "none"]
    /\ warm' = [t \in Thread |-> {}]

Client == SendBatch \/ CallFails \/ Receive \/ AllEmbedded \/ BuildRows

SNext ==
    \/ SendBatch /\ (Begin(Caller, "embedder") \/ UNCHANGED process)
    \/ SidecarAnswers /\ at[Caller] = "idle" /\ UNCHANGED process
    \/ (CallFails \/ Receive \/ AllEmbedded \/ BuildRows) /\ UNCHANGED process
    \/ AnswerCaller
    \/ /\ \/ \E t \in Thread \ {Caller} :
               \/ \E model \in {"embedder", "reranker"} : Begin(t, model)
               \/ Reply(t)
          \/ \E t \in Thread : Get(t) \/ Build(t) \/ BuildFails(t)
          \/ Restart
       /\ UNCHANGED evars

\* The client's calls end, if need be by its timeout of 30 seconds; nothing is
\* assumed of the sidecar.
SSpec == SInit /\ [][SNext]_svars /\ WF_evars(Client /\ SNext)
-----------------------------------------------------------------------------
\* Readiness holds: a request that arrives after any answer this process gave
\* with a model, a 200 of /healthz included, never waits for that model to be
\* built, whatever other threads build at the same time or fail to.
ReadyIsWarm ==
    \A t \in Thread : at[t] = "build" => needs[t] \notin warm[t]

\* Every document is embedded or fails, also under a sidecar that hangs,
\* restarts or never fits, and with any batch size.
DocumentEnds == <>(step \in {"built", "failed"})
=============================================================================
