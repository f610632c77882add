--------------------------- MODULE IndexingProofs ---------------------------
(***************************************************************************)
(* Indexing in bulk: every chunk of a document gets its own vector, no     *)
(* request waits for a model the sidecar has answered with, and            *)
(* cmd/indexer accounts for every document; for any number of texts,       *)
(* threads, documents and workers, any batch size and whatever answers.    *)
(*                                                                         *)
(* Embedding: the client's part (EmbedInv) and the process's (WarmInv)     *)
(* share only the answer on its way, and are kept separately by every      *)
(* step.                                                                   *)
(*                                                                         *)
(* The pool: the argument is a count.  What the producer has sent is in    *)
(* the channel, in the hands of a worker or in a total, up to one document *)
(* for each worker that has returned after a signal.  Numbers of workers   *)
(* are followed over a step by MoveCounts.                                 *)
(***************************************************************************)
EXTENDS Sidecar, IndexerPool, SequenceTheorems, FiniteSetTheorems, TLAPS

-----------------------------------------------------------------------------
(* The client.                                                             *)

\* The texts whose vectors have come back.
Sent == IF i < n THEN i ELSE n

EmbedType ==
    /\ n \in Nat /\ bs \in Nat \ {0} /\ i \in Nat
    /\ out \in Seq(Nat \X {Dim})
    /\ step \in {"loop", "sent", "embedded", "failed", "built"}

\* An answer holds vectors of the batch that was sent, from its first text on;
\* perhaps too few or too many, perhaps some of a wrong length.
AnswerInOrder ==
    answer = NoAnswer \/
    \E d, len : \E m \in Nat :
        answer = [embeddings |-> [p \in 1..m |-> <<i + p, len[p]>>], dim |-> d]

EmbedInv ==
    /\ EmbedType /\ AnswerInOrder
    /\ Len(out) = Sent /\ \A p \in 1..Len(out) : out[p] = <<p, Dim>>
    /\ step = "sent" => i < n
    /\ step \in {"embedded", "built"} => i >= n
    /\ step # "sent" => answer = NoAnswer
    /\ OwnVector

LEMMA InitEmbed == EInit => EmbedInv
<1> SUFFICES ASSUME EInit PROVE EmbedInv
  OBVIOUS
<1> USE EmbedAssumption
<1>1. EmbedType
  BY DEF EInit, EmbedType, BatchSize
<1>2. Len(out) = Sent /\ \A p \in 1..Len(out) : out[p] = <<p, Dim>>
  BY <1>1 DEF EInit, Sent, EmbedType
<1>3. AnswerInOrder /\ OwnVector
  BY DEF EInit, AnswerInOrder, OwnVector
<1> QED BY <1>1, <1>2, <1>3 DEF EmbedInv, EInit

\* What Client.Embed accepts are the vectors of exactly the texts sent.
LEMMA AcceptedBatch ==
    ASSUME EmbedInv, step = "sent", answer # NoAnswer, Acceptable
    PROVE  /\ answer.embeddings \in Seq(Nat \X {Dim})
           /\ Len(answer.embeddings) = End - i /\ End - i \in Nat
           /\ \A p \in 1..(End - i) : answer.embeddings[p] = <<i + p, Dim>>
<1>1. PICK d, len, m : m \in Nat /\
         answer = [embeddings |-> [p \in 1..m |-> <<i + p, len[p]>>], dim |-> d]
  BY DEF EmbedInv, AnswerInOrder
<1>0. m \in Nat
  BY <1>1
<1> DEFINE vs == [p \in 1..m |-> <<i + p, len[p]>>]
<1>2. answer.embeddings = vs
  BY <1>1
<1>3. Len(vs) = m
  BY <1>0
<1>4. i \in Nat /\ n \in Nat /\ bs \in Nat \ {0} /\ i < n
  BY DEF EmbedInv, EmbedType
<1>5. m = End - i /\ End - i \in Nat /\ End > i /\ End \in Nat
  BY <1>0, <1>2, <1>3, <1>4 DEF Acceptable, End
<1>6. \A p \in 1..m : len[p] = Dim
  <2> SUFFICES ASSUME NEW p \in 1..m PROVE len[p] = Dim
    OBVIOUS
  <2>1. DOMAIN vs = 1..m
    OBVIOUS
  <2>2. vs[p] \in ToSet(vs) /\ vs[p] = <<i + p, len[p]>>
    BY <2>1, Zenon DEF ToSet
  <2> QED BY <1>2, <2>2 DEF Acceptable
<1>7. vs \in Seq(Nat \X {Dim})
  BY <1>0, <1>4, <1>6
<1> QED BY <1>2, <1>3, <1>5, <1>6, <1>7

\* A sequence put behind another keeps both: where each entry lies.
LEMMA Appended ==
    ASSUME NEW S, NEW s \in Seq(S), NEW t \in Seq(S), NEW k, NEW l,
           Len(s) = k, Len(t) = l
    PROVE  /\ s \o t \in Seq(S) /\ Len(s \o t) = k + l
           /\ \A p \in 1..(k + l) : (s \o t)[p] = IF p <= k THEN s[p] ELSE t[p - k]
<1>1. s \o t \in Seq(S)
  OBVIOUS
<1>2. Len(s \o t) = Len(s) + Len(t)
  OBVIOUS
<1>3. \A p \in 1..(Len(s) + Len(t)) :
         (s \o t)[p] = IF p <= Len(s) THEN s[p] ELSE t[p - Len(s)]
  OBVIOUS
<1> QED BY <1>1, <1>2, <1>3

LEMMA ReceiveStep == EmbedInv /\ Receive => EmbedInv'
<1> SUFFICES ASSUME EmbedInv, Receive PROVE EmbedInv'
  OBVIOUS
<1> USE EmbedAssumption DEF EmbedInv
<1>1. CASE Acceptable
  <2>1. /\ out' = out \o answer.embeddings /\ i' = i + bs /\ step' = "loop"
        /\ answer' = NoAnswer /\ UNCHANGED <<n, bs, chunkOf>>
        /\ step = "sent" /\ answer # NoAnswer
    BY <1>1 DEF Receive
  <2>2. i \in Nat /\ n \in Nat /\ bs \in Nat \ {0} /\ i < n
    BY <2>1 DEF EmbedType
  <2>3. out \in Seq(Nat \X {Dim}) /\ Len(out) = i
    BY <2>2 DEF EmbedType, Sent
  <2> HIDE DEF EmbedInv
  <2>4. /\ answer.embeddings \in Seq(Nat \X {Dim})
        /\ Len(answer.embeddings) = End - i /\ End - i \in Nat
        /\ \A p \in 1..(End - i) : answer.embeddings[p] = <<i + p, Dim>>
    BY <1>1, <2>1, AcceptedBatch
  <2>5. /\ out' \in Seq(Nat \X {Dim}) /\ Len(out') = End
        /\ \A p \in 1..Len(out') :
              out'[p] = IF p <= i THEN out[p] ELSE answer.embeddings[p - i]
    <3> DEFINE e == answer.embeddings
               D == Nat \X {Dim}
    <3>3. out \in Seq(D) /\ e \in Seq(D) /\ Len(out) = i /\ Len(e) = End - i
      BY <2>3, <2>4
    <3> HIDE DEF D, e
    <3>4. /\ out \o e \in Seq(D) /\ Len(out \o e) = i + (End - i)
          /\ \A p \in 1..(i + (End - i)) :
                (out \o e)[p] = IF p <= i THEN out[p] ELSE e[p - i]
      BY <3>3, Appended
    <3>1. /\ out \o answer.embeddings \in Seq(Nat \X {Dim})
          /\ Len(out \o answer.embeddings) = i + (End - i)
          /\ \A p \in 1..(i + (End - i)) : (out \o answer.embeddings)[p] =
                IF p <= i THEN out[p] ELSE answer.embeddings[p - i]
      BY <3>4 DEF D, e
    <3>2. i + (End - i) = End
      BY <2>2, <2>4 DEF End
    <3> QED BY <2>1, <3>1, <3>2
  <2>6. Sent' = End
    BY <2>1, <2>2 DEF Sent, End
  <2>7. \A p \in 1..Len(out') : out'[p] = <<p, Dim>>
    <3> SUFFICES ASSUME NEW p \in 1..Len(out') PROVE out'[p] = <<p, Dim>>
      OBVIOUS
    <3>1. CASE p <= i
      <4>1. \A q \in 1..Len(out) : out[q] = <<q, Dim>>
        BY DEF EmbedInv
      <4>2. out[p] = <<p, Dim>>
        BY <2>2, <2>3, <2>4, <2>5, <3>1, <4>1
      <4> QED BY <2>5, <3>1, <4>2
    <3>2. CASE ~(p <= i)
      <4>1. p - i \in 1..(End - i) /\ i + (p - i) = p
        BY <2>2, <2>4, <2>5, <3>2 DEF End
      <4>2. out'[p] = answer.embeddings[p - i]
        BY <2>5, <3>2
      <4>3. answer.embeddings[p - i] = <<i + (p - i), Dim>>
        BY <2>4, <4>1
      <4> QED BY <4>1, <4>2, <4>3
    <3> QED BY <3>1, <3>2
  <2>8. EmbedType'
    BY <2>1, <2>2, <2>5 DEF EmbedType
  <2>9. AnswerInOrder' /\ OwnVector'
    BY <2>1 DEF AnswerInOrder, OwnVector
  <2> QED BY <2>1, <2>5, <2>6, <2>7, <2>8, <2>9 DEF EmbedInv
<1>2. CASE ~Acceptable
  <2>1. /\ step' = "failed" /\ answer' = NoAnswer /\ UNCHANGED <<out, i, n, bs, chunkOf>>
    BY <1>2 DEF Receive
  <2> QED BY <2>1 DEF EmbedType, AnswerInOrder, OwnVector, Sent
<1> QED BY <1>1, <1>2

LEMMA BuildRowsStep == EmbedInv /\ BuildRows => EmbedInv'
<1> SUFFICES ASSUME EmbedInv, BuildRows PROVE EmbedInv'
  OBVIOUS
<1>1. i >= n /\ i \in Nat /\ n \in Nat /\ out \in Seq(Nat \X {Dim}) /\ Len(out) = n
  BY DEF EmbedInv, EmbedType, BuildRows, Sent
<1>2. OwnVector'
  BY <1>1 DEF EmbedInv, OwnVector, BuildRows
<1> QED BY <1>1, <1>2 DEF EmbedInv, EmbedType, AnswerInOrder, BuildRows, Sent

\* An answer that arrives replaces none of another batch.
LEMMA AnswerStep ==
    ASSUME EmbedInv, UNCHANGED <<n, bs, i, out, step, chunkOf>>, NEW m \in Nat,
           \/ answer' = answer
           \/ /\ step = "sent"
              /\ \E d, len : answer' =
                   [embeddings |-> [p \in 1..m |-> <<i + p, len[p]>>], dim |-> d]
    PROVE  EmbedInv'
<1>1. AnswerInOrder'
  <2>1. CASE answer' = answer
    <3>1. AnswerInOrder /\ i' = i
      BY DEF EmbedInv
    <3> QED BY <2>1, <3>1, Zenon DEF AnswerInOrder, NoAnswer
  <2>2. CASE answer' # answer
    <3>1. PICK d, len : answer' =
            [embeddings |-> [p \in 1..m |-> <<i' + p, len[p]>>], dim |-> d]
      BY <2>2
    <3>2. \E l \in Nat : answer' =
            [embeddings |-> [p \in 1..l |-> <<i' + p, len[p]>>], dim |-> d]
      BY <3>1, Zenon
    <3> QED BY <3>2, Zenon DEF AnswerInOrder
  <2> QED BY <2>1, <2>2
<1>2. step' # "sent" => answer' = NoAnswer
  BY DEF EmbedInv, NoAnswer
<1> QED BY <1>1, <1>2 DEF EmbedInv, EmbedType, OwnVector, Sent

LEMMA NextEmbed == EmbedInv /\ [SNext]_svars => EmbedInv'
<1> SUFFICES ASSUME EmbedInv, [SNext]_svars PROVE EmbedInv'
  OBVIOUS
<1>0. i \in Nat /\ n \in Nat /\ bs \in Nat \ {0}
  BY DEF EmbedInv, EmbedType
<1>1. CASE UNCHANGED evars
  BY <1>1 DEF evars, EmbedInv, EmbedType, AnswerInOrder, OwnVector, Sent
<1>2. CASE SendBatch \/ CallFails \/ AllEmbedded
  BY <1>0, <1>2 DEF SendBatch, CallFails, AllEmbedded, BatchDone, EmbedInv, EmbedType,
              AnswerInOrder, OwnVector, Sent
<1>3. CASE Receive \/ BuildRows
  BY <1>3, ReceiveStep, BuildRowsStep
<1>4. CASE SidecarAnswers
  <2>1. PICK d \in {Dim, OtherDim}, m \in 0..(End - i + 1) :
          \E len \in [1..m -> {Dim, OtherDim}] :
            answer' = [embeddings |-> [p \in 1..m |-> <<i + p, len[p]>>], dim |-> d]
    BY <1>4 DEF SidecarAnswers
  <2>2. m \in Nat
    BY <1>0, <2>1
  <2>3. \E d1, len : answer' =
          [embeddings |-> [p \in 1..m |-> <<i + p, len[p]>>], dim |-> d1]
    BY <2>1, Zenon
  <2> QED BY <1>4, <2>2, <2>3, AnswerStep DEF SidecarAnswers
<1>5. CASE AnswerCaller
  <2>1. CASE step = "sent"
    <3>1. End - i \in Nat
      BY <1>0, <2>1 DEF EmbedInv, End
    <3> DEFINE len == [p \in 1..(End - i) |-> settings.dim]
    <3>2. [p \in 1..(End - i) |-> <<i + p, settings.dim>>]
            = [p \in 1..(End - i) |-> <<i + p, len[p]>>]
      OBVIOUS
    <3>3. answer' = [embeddings |-> [p \in 1..(End - i) |-> <<i + p, len[p]>>],
                     dim |-> settings.dim]
      BY <1>5, <2>1, <3>2 DEF AnswerCaller
    <3> HIDE DEF len
    <3>4. \E d, l : answer' =
            [embeddings |-> [p \in 1..(End - i) |-> <<i + p, l[p]>>], dim |-> d]
      BY <3>3, Zenon
    <3>5. UNCHANGED <<n, bs, i, out, step, chunkOf>>
      BY <1>5 DEF AnswerCaller
    <3> QED BY <2>1, <3>1, <3>4, <3>5, AnswerStep
  <2>2. CASE step # "sent"
    BY <1>5, <2>2, AnswerStep DEF AnswerCaller
  <2> QED BY <2>1, <2>2
<1> QED BY <1>1, <1>2, <1>3, <1>4, <1>5 DEF SNext, svars

\* Every chunk row of every document that is stored has the vector of its own
\* text, in the dimension of the column, whatever answered at the address.
THEOREM OwnVectors == SSpec => []OwnVector
<1>1. SInit => EmbedInv
  BY InitEmbed DEF SInit
<1>2. EmbedInv => OwnVector
  BY DEF EmbedInv
<1> QED BY <1>1, <1>2, NextEmbed, PTL DEF SSpec

-----------------------------------------------------------------------------
(* The process.                                                            *)

Models == {"embedder", "reranker"}

\* What was answered with is in the dict, and what a thread has found or built.
WarmInv ==
    /\ state \subseteq Models /\ told \subseteq state
    /\ at \in [Thread -> {"idle", "get", "build", "use"}]
    /\ needs \in [Thread -> Models \union {"none"}]
    /\ warm \in [Thread -> SUBSET Models]
    /\ \A t \in Thread : /\ warm[t] \subseteq state
                         /\ at[t] # "idle" => needs[t] \in Models
                         /\ at[t] = "use" => needs[t] \in state
    /\ ReadyIsWarm

USE SidecarAssumption DEF Models

LEMMA InitWarm == SInit => WarmInv
BY DEF SInit, WarmInv, ReadyIsWarm

LEMMA BeginStep ==
    ASSUME WarmInv, NEW t \in Thread, NEW model \in Models, Begin(t, model)
    PROVE  WarmInv'
BY DEF WarmInv, ReadyIsWarm, Begin

LEMMA GetStep == ASSUME WarmInv, NEW t \in Thread, Get(t) PROVE WarmInv'
BY DEF WarmInv, ReadyIsWarm, Get

LEMMA BuildStep == ASSUME WarmInv, NEW t \in Thread, Build(t) PROVE WarmInv'
BY DEF WarmInv, ReadyIsWarm, Build, Publish

LEMMA BuildFailsStep == ASSUME WarmInv, NEW t \in Thread, BuildFails(t) PROVE WarmInv'
BY DEF WarmInv, ReadyIsWarm, BuildFails, Idle

LEMMA ReplyStep == ASSUME WarmInv, NEW t \in Thread, Reply(t) PROVE WarmInv'
BY DEF WarmInv, ReadyIsWarm, Reply, Idle

LEMMA NextWarm == WarmInv /\ [SNext]_svars => WarmInv'
<1> SUFFICES ASSUME WarmInv, [SNext]_svars PROVE WarmInv'
  OBVIOUS
<1>1. CASE UNCHANGED process
  BY <1>1 DEF process, WarmInv, ReadyIsWarm
<1>2. CASE Restart
  BY <1>2 DEF Restart, WarmInv, ReadyIsWarm
<1>3. CASE Begin(Caller, "embedder") \/ AnswerCaller
  BY <1>3, BeginStep, ReplyStep DEF AnswerCaller
<1>4. ASSUME NEW t \in Thread,
             \/ \E model \in Models : Begin(t, model)
             \/ Reply(t) \/ Get(t) \/ Build(t) \/ BuildFails(t)
      PROVE  WarmInv'
  BY <1>4, BeginStep, ReplyStep, GetStep, BuildStep, BuildFailsStep
<1> QED BY <1>1, <1>2, <1>3, <1>4 DEF SNext, svars

\* Once the process has answered with a model, no request that arrives later
\* waits for that model, whichever threads build, fail or answer meanwhile.
THEOREM Ready == SSpec => []ReadyIsWarm
<1>1. WarmInv => ReadyIsWarm
  BY DEF WarmInv
<1> QED BY <1>1, InitWarm, NextWarm, PTL DEF SSpec

-----------------------------------------------------------------------------
(* The pool of cmd/indexer.                                                *)

USE PoolAssumption

-----------------------------------------------------------------------------
(* Workers that are somewhere.                                             *)

At(f, A) == {v \in Worker : f[v] \in A}

LEMMA AtFinite ==
    ASSUME NEW f, NEW A
    PROVE  IsFiniteSet(At(f, A)) /\ Cardinality(At(f, A)) \in Nat
BY FS_Subset, FS_CardinalityType DEF At

\* One worker moves.
LEMMA MoveCounts ==
    ASSUME NEW f, NEW g, NEW A, NEW w \in Worker,
           \A v \in Worker \ {w} : g[v] = f[v]
    PROVE  Cardinality(At(g, A)) =
              IF g[w] \in A
              THEN IF f[w] \in A THEN Cardinality(At(f, A)) ELSE Cardinality(At(f, A)) + 1
              ELSE IF f[w] \in A THEN Cardinality(At(f, A)) - 1 ELSE Cardinality(At(f, A))
<1>1. CASE g[w] \in A /\ f[w] \notin A
  <2>1. At(g, A) = At(f, A) \union {w} /\ w \notin At(f, A)
    BY <1>1 DEF At
  <2> QED BY <1>1, <2>1, AtFinite, FS_AddElement
<1>2. CASE g[w] \notin A /\ f[w] \in A
  <2>1. At(g, A) = At(f, A) \ {w} /\ w \in At(f, A)
    BY <1>2 DEF At
  <2> QED BY <1>2, <2>1, AtFinite, FS_RemoveElement
<1>3. CASE g[w] \in A <=> f[w] \in A
  <2>1. At(g, A) = At(f, A)
    BY <1>3 DEF At
  <2> QED BY <1>3, <2>1
<1> QED BY <1>1, <1>2, <1>3

Hands    == {"index", "stored", "erred"}
Places   == {"take", "returned"} \union Hands
InHands  == Cardinality(At(pc, Hands))
Stopped  == Cardinality(At(pc, {"returned"}))
Uncounted == Cardinality(At(pc, {"stored"}))

LEMMA Sets ==
    /\ InHand = At(pc, Hands) /\ Returned = At(pc, {"returned"})
    /\ {w \in Worker : pc[w] = "stored"} = At(pc, {"stored"})
BY DEF InHand, Returned, At, Hands

\* TypeOK without the bounds on the totals, which follow from the accounts.
Shape ==
    /\ cancelled \in BOOLEAN /\ closed \in BOOLEAN /\ producing \in BOOLEAN
    /\ jobs \in Seq(Docs) /\ Len(jobs) <= Cap
    /\ next \in 1..(Count + 1)
    /\ pc \in [Worker -> Places]
    /\ cur \in [Worker -> Docs \union {0}]
    /\ inserted \in Nat /\ failed \in Nat
    /\ done \in BOOLEAN /\ report \in {<<>>} \union (Nat \X Nat)
    /\ stored \subseteq Docs
    /\ faults \in 0..MaxFaults

LEMMA Numbers ==
    ASSUME Shape
    PROVE  /\ InHands \in Nat /\ Stopped \in Nat /\ Uncounted \in Nat
           /\ IsFiniteSet(stored) /\ Cardinality(stored) \in Nat
           /\ Len(jobs) \in Nat /\ next \in Nat /\ inserted \in Nat /\ failed \in Nat
           /\ Count \in Nat /\ Cap \in Nat
<1>1. IsFiniteSet(stored)
  <2>1. IsFiniteSet(1..Count)
    BY FS_Interval
  <2> QED BY <2>1, FS_Subset DEF Shape, Docs
<1>2. Cap \in Nat
  BY FS_CardinalityType DEF Cap
<1> QED BY <1>1, <1>2, AtFinite, FS_CardinalityType DEF Shape, InHands, Stopped, Uncounted

Missing == next - 1 - Len(jobs) - InHands - inserted - failed

Balance ==
    /\ Missing >= 0
    /\ Missing <= IF cancelled THEN Stopped ELSE 0
    /\ inserted + Uncounted <= Cardinality(stored)

Fresh ==
    /\ stored \subseteq 1..(next - 1)
    /\ \A w \in Worker : pc[w] = "index" => cur[w] \notin stored
    /\ \A k \in DOMAIN jobs : jobs[k] \notin stored

LEMMA AccountsIs == ASSUME Shape PROVE Accounts <=> Balance /\ Fresh
<1>1. Missing \in Int
  BY Numbers DEF Missing
<1>2. Lost(Missing) <=> Missing >= 0 /\ Missing <= IF cancelled THEN Stopped ELSE 0
  <2>1. Stopped = Cardinality(Returned) /\ Stopped \in Nat
    BY Sets, Numbers DEF Stopped
  <2> QED BY <1>1, <2>1 DEF Lost
<1>3. InHands = Cardinality(InHand)
      /\ Uncounted = Cardinality({w \in Worker : pc[w] = "stored"})
  BY Sets DEF InHands, Uncounted
<1> QED BY <1>2, <1>3 DEF Accounts, Missing, Balance, Fresh

LEMMA TypeIs == TypeOK <=> Shape /\ inserted <= Count /\ failed <= Count
BY DEF TypeOK, Shape, Places, Hands

\* The totals stay within -n because nothing is counted that was not sent.
LEMMA Bounded == ASSUME Shape, Balance PROVE inserted <= Count /\ failed <= Count
BY Numbers DEF Shape, Balance, Missing

Strong == Shape /\ HandledOnce /\ Balance /\ Fresh /\ Ending

LEMMA StrongIs == Strong <=> PoolInv
BY TypeIs, Bounded, AccountsIs DEF Strong, PoolInv

-----------------------------------------------------------------------------
(* The steps.                                                              *)

LEMMA InitStrong == Init => Strong
<1> SUFFICES ASSUME Init PROVE Strong
  OBVIOUS
<1>1. Cap \in Nat
  BY FS_CardinalityType DEF Cap
<1>2. Shape
  <2>1. jobs \in Seq(Docs) /\ Len(jobs) <= Cap
    BY <1>1 DEF Init
  <2>2. pc \in [Worker -> Places] /\ cur \in [Worker -> Docs \union {0}]
    BY DEF Init, Places
  <2>3. cancelled \in BOOLEAN /\ closed \in BOOLEAN /\ producing \in BOOLEAN /\ done \in BOOLEAN
    BY Zenon DEF Init
  <2>4. /\ next \in 1..(Count + 1) /\ inserted \in Nat /\ failed \in Nat
        /\ report \in {<<>>} \union (Nat \X Nat)
        /\ stored \subseteq Docs /\ faults \in 0..MaxFaults
    BY DEF Init
  <2> QED BY <2>1, <2>2, <2>3, <2>4 DEF Shape
<1>3. At(pc, Hands) = {} /\ At(pc, {"returned"}) = {} /\ At(pc, {"stored"}) = {}
  BY DEF Init, At, Hands
<1>4. InHands = 0 /\ Stopped = 0 /\ Uncounted = 0 /\ Cardinality(stored) = 0
  BY <1>3, FS_EmptySet DEF Init, InHands, Stopped, Uncounted
<1>5. Balance /\ Fresh
  BY <1>4 DEF Init, Balance, Missing, Fresh
<1>6. InHand = {} /\ Returned = {}
  BY <1>3, Sets
<1>7. HandledOnce /\ Ending
  BY <1>6 DEF Init, HandledOnce, Ending
<1> QED BY <1>2, <1>5, <1>7 DEF Strong

\* A step that moves no worker changes none of their numbers.
LEMMA NobodyMoves ==
    ASSUME pc' = pc
    PROVE  InHands' = InHands /\ Stopped' = Stopped /\ Uncounted' = Uncounted
           /\ InHand' = InHand /\ Returned' = Returned
BY DEF InHands, Stopped, Uncounted, At, InHand, Returned

LEMMA CancelStep == Strong /\ Cancel => Strong'
<1> SUFFICES ASSUME Strong, Cancel PROVE Strong'
  OBVIOUS
<1> USE DEF Strong, Cancel, channel, producer, totals, main
<1>1. UNCHANGED <<InHands, Stopped, Uncounted, InHand, Returned>>
  BY NobodyMoves
<1>2. Shape'
  BY DEF Shape, Cap
<1>3. HandledOnce' /\ Fresh' /\ Ending'
  BY <1>1 DEF HandledOnce, Fresh, Ending, AllSent
<1>4. Balance'
  BY <1>1, Numbers DEF Balance, Missing
<1> QED BY <1>2, <1>3, <1>4

LEMMA SendStep == Strong /\ Send => Strong'
<1> SUFFICES ASSUME Strong, Send PROVE Strong'
  OBVIOUS
<1>1. UNCHANGED <<InHands, Stopped, Uncounted, InHand, Returned>>
  BY NobodyMoves DEF Send
<1>2. /\ Shape /\ jobs \in Seq(Docs) /\ next \in 1..Count /\ next \in Docs /\ Count \in Nat
      /\ jobs' = Append(jobs, next) /\ next' = next + 1
      /\ Len(jobs) < Cap /\ producing /\ Len(jobs) \in Nat /\ Cap \in Nat
  BY Numbers DEF Strong, Shape, Send, AllSent, Docs
<1>3. /\ jobs' \in Seq(Docs) /\ Len(jobs') = Len(jobs) + 1
      /\ \A k \in DOMAIN jobs : jobs'[k] = jobs[k]
      /\ jobs'[Len(jobs) + 1] = next
      /\ \A k \in DOMAIN jobs' : k \in DOMAIN jobs \/ k = Len(jobs) + 1
  BY <1>2
<1>4. Shape'
  BY <1>2, <1>3 DEF Shape, Send, channel, producer, totals, main, Cap
<1>5. HandledOnce'
  <2>1. /\ \A k, j \in DOMAIN jobs : k < j => jobs[k] < jobs[j]
        /\ \A k \in DOMAIN jobs : jobs[k] < next /\ jobs[k] \in Nat /\ k \in 1..Len(jobs)
        /\ \A w \in InHand : cur[w] \in 1..(next - 1) /\ \A k \in DOMAIN jobs : cur[w] < jobs[k]
        /\ \A v, w \in InHand : v # w => cur[v] # cur[w]
    BY <1>2 DEF Strong, HandledOnce, Docs
  <2>2. \A k, j \in DOMAIN jobs' : k < j => jobs'[k] < jobs'[j]
    BY <1>2, <1>3, <2>1
  <2>3. \A k \in DOMAIN jobs' : jobs'[k] < next'
    BY <1>2, <1>3, <2>1
  <2>4. \A w \in InHand : cur[w] \in 1..(next' - 1) /\ \A k \in DOMAIN jobs' : cur[w] < jobs'[k]
    BY <1>2, <1>3, <2>1
  <2>5. cur' = cur
    BY DEF Send
  <2> QED BY <1>1, <2>1, <2>2, <2>3, <2>4, <2>5 DEF HandledOnce
<1>6. Balance'
  BY <1>1, <1>2, <1>3, Numbers DEF Strong, Balance, Missing, Send, totals
<1>7. Fresh'
  <2>1. next \notin stored /\ \A k \in DOMAIN jobs : jobs[k] \notin stored
    BY <1>2 DEF Strong, Fresh
  <2>2. \A k \in DOMAIN jobs' : jobs'[k] \notin stored
    BY <1>3, <2>1
  <2>3. stored \subseteq 1..(next' - 1)
    BY <1>2 DEF Strong, Fresh
  <2> QED BY <2>2, <2>3 DEF Strong, Fresh, Send
<1>8. Ending'
  BY <1>1, <1>2 DEF Strong, Ending, Send, totals, main, channel
<1> QED BY <1>4, <1>5, <1>6, <1>7, <1>8 DEF Strong

LEMMA ProducerReturnsStep == Strong /\ ProducerReturns => Strong'
<1> SUFFICES ASSUME Strong, ProducerReturns PROVE Strong'
  OBVIOUS
<1> USE DEF Strong, ProducerReturns, totals, main
<1>1. UNCHANGED <<InHands, Stopped, Uncounted, InHand, Returned>>
  BY NobodyMoves
<1>2. Shape'
  BY DEF Shape, Cap
<1>3. HandledOnce' /\ Fresh'
  BY <1>1 DEF HandledOnce, Fresh
<1>4. Balance'
  BY <1>1 DEF Balance, Missing
<1>5. Ending'
  BY <1>1 DEF Ending, AllSent
<1> QED BY <1>2, <1>3, <1>4, <1>5

LEMMA WaiterStep == Strong /\ (CloseDone \/ Report) => Strong'
<1> SUFFICES ASSUME Strong, CloseDone \/ Report PROVE Strong'
  OBVIOUS
<1>1. pc' = pc /\ UNCHANGED <<cancelled, channel, producer, cur, totals, stored, faults>>
  BY DEF CloseDone, Report
<1>2. UNCHANGED <<InHands, Stopped, Uncounted, InHand, Returned>>
  BY <1>1, NobodyMoves
<1>3. Shape'
  <2>1. report' \in {<<>>} \union (Nat \X Nat)
    BY DEF Strong, Shape, CloseDone, Report
  <2>2. done' \in BOOLEAN
    BY Zenon DEF Strong, Shape, CloseDone, Report
  <2> QED BY <1>1, <2>1, <2>2 DEF Strong, Shape, Cap, channel, producer, totals
<1>4. HandledOnce' /\ Fresh' /\ Balance'
  BY <1>1, <1>2 DEF Strong, HandledOnce, Fresh, Balance, Missing, channel, producer, totals
<1>5. Ending'
  <2>1. AllReturned => Returned = Worker
    BY DEF AllReturned, Returned
  <2> QED BY <1>1, <1>2, <2>1 DEF Strong, Ending, CloseDone, Report, channel,
             producer, totals, AllSent
<1> QED BY <1>3, <1>4, <1>5 DEF Strong


\* The numbers after a worker has moved.
LEMMA WorkerCounts ==
    ASSUME Shape, NEW w \in Worker, NEW s \in Places, pc' = [pc EXCEPT ![w] = s]
    PROVE  /\ InHands' = IF s \in Hands
                         THEN IF pc[w] \in Hands THEN InHands ELSE InHands + 1
                         ELSE IF pc[w] \in Hands THEN InHands - 1 ELSE InHands
           /\ Stopped' = IF s = "returned"
                         THEN IF pc[w] = "returned" THEN Stopped ELSE Stopped + 1
                         ELSE IF pc[w] = "returned" THEN Stopped - 1 ELSE Stopped
           /\ Uncounted' = IF s = "stored"
                         THEN IF pc[w] = "stored" THEN Uncounted ELSE Uncounted + 1
                         ELSE IF pc[w] = "stored" THEN Uncounted - 1 ELSE Uncounted
<1>1. pc \in [Worker -> Places]
  BY DEF Shape
<1>a. pc'[w] = s /\ \A v \in Worker \ {w} : pc'[v] = pc[v]
  BY <1>1
<1>2. InHands' = Cardinality(At(pc', Hands)) /\ Stopped' = Cardinality(At(pc', {"returned"}))
      /\ Uncounted' = Cardinality(At(pc', {"stored"}))
  BY DEF InHands, Stopped, Uncounted
<1> HIDE DEF Hands, Places
<1>b. \A A : Cardinality(At(pc', A)) =
          IF pc'[w] \in A
          THEN IF pc[w] \in A THEN Cardinality(At(pc, A)) ELSE Cardinality(At(pc, A)) + 1
          ELSE IF pc[w] \in A THEN Cardinality(At(pc, A)) - 1 ELSE Cardinality(At(pc, A))
  <2> TAKE A
  <2> QED BY ONLY <1>a, w \in Worker, MoveCounts
<1>3. InHands' = IF s \in Hands
                 THEN IF pc[w] \in Hands THEN InHands ELSE InHands + 1
                 ELSE IF pc[w] \in Hands THEN InHands - 1 ELSE InHands
  BY <1>a, <1>b, <1>2 DEF InHands
<1>4. Stopped' = IF s = "returned"
                 THEN IF pc[w] = "returned" THEN Stopped ELSE Stopped + 1
                 ELSE IF pc[w] = "returned" THEN Stopped - 1 ELSE Stopped
  <2> DEFINE A == {"returned"}
  <2>1. \A x : x \in A <=> x = "returned"
    OBVIOUS
  <2>2. Stopped = Cardinality(At(pc, A)) /\ Stopped' = Cardinality(At(pc', A))
    BY <1>2 DEF Stopped
  <2> HIDE DEF A
  <2>3. Cardinality(At(pc', A)) =
          IF pc'[w] \in A
          THEN IF pc[w] \in A THEN Cardinality(At(pc, A)) ELSE Cardinality(At(pc, A)) + 1
          ELSE IF pc[w] \in A THEN Cardinality(At(pc, A)) - 1 ELSE Cardinality(At(pc, A))
    BY <1>b
  <2> QED BY <1>a, <2>1, <2>2, <2>3
<1>5. Uncounted' = IF s = "stored"
                   THEN IF pc[w] = "stored" THEN Uncounted ELSE Uncounted + 1
                   ELSE IF pc[w] = "stored" THEN Uncounted - 1 ELSE Uncounted
  <2> DEFINE A == {"stored"}
  <2>1. \A x : x \in A <=> x = "stored"
    OBVIOUS
  <2>2. Uncounted = Cardinality(At(pc, A)) /\ Uncounted' = Cardinality(At(pc', A))
    BY <1>2 DEF Uncounted
  <2> HIDE DEF A
  <2>3. Cardinality(At(pc', A)) =
          IF pc'[w] \in A
          THEN IF pc[w] \in A THEN Cardinality(At(pc, A)) ELSE Cardinality(At(pc, A)) + 1
          ELSE IF pc[w] \in A THEN Cardinality(At(pc, A)) - 1 ELSE Cardinality(At(pc, A))
    BY <1>b
  <2> QED BY <1>a, <2>1, <2>2, <2>3
<1> QED BY <1>3, <1>4, <1>5

LEMMA TakeStep == ASSUME Strong, NEW w \in Worker, Take(w) PROVE Strong'
<1>1. /\ Shape /\ pc \in [Worker -> Places] /\ cur \in [Worker -> Docs \union {0}]
      /\ jobs \in Seq(Docs) /\ jobs # <<>> /\ pc[w] = "take" /\ Len(jobs) <= Cap
      /\ pc' = [pc EXCEPT ![w] = "index"] /\ cur' = [cur EXCEPT ![w] = jobs[1]]
      /\ jobs' = Tail(jobs)
      /\ UNCHANGED <<cancelled, closed, producer, totals, main, stored, faults>>
  BY DEF Strong, Shape, Take
<1>2. /\ Len(jobs) \in Nat /\ Len(jobs) >= 1 /\ 1 \in DOMAIN jobs /\ jobs[1] \in Docs
      /\ jobs' \in Seq(Docs) /\ Len(jobs') = Len(jobs) - 1
      /\ \A k \in DOMAIN jobs' : jobs'[k] = jobs[k + 1] /\ k + 1 \in DOMAIN jobs /\ k \in Nat
                                 /\ 1 < k + 1
  BY <1>1
<1>3. InHands' = InHands + 1 /\ Stopped' = Stopped /\ Uncounted' = Uncounted
  <2> DEFINE s == "index"
  <2>1. s \in Places /\ s \in Hands /\ s # "returned" /\ s # "stored"
        /\ pc[w] \notin Hands /\ pc[w] # "returned" /\ pc[w] # "stored"
    BY <1>1 DEF Places, Hands
  <2>2. pc' = [pc EXCEPT ![w] = s]
    BY <1>1
  <2> HIDE DEF s
  <2> QED BY <1>1, <2>1, <2>2, WorkerCounts
<1>4. Shape'
  <2>1. pc' \in [Worker -> Places] /\ cur' \in [Worker -> Docs \union {0}]
    BY <1>1, <1>2 DEF Places, Hands
  <2>2. Len(jobs') <= Cap' /\ jobs' \in Seq(Docs)
    BY <1>1, <1>2, Numbers DEF Cap
  <2> QED BY <1>1, <2>1, <2>2 DEF Shape, producer, totals, main
<1>5. InHand' = InHand \union {w} /\ w \notin InHand /\ Returned' = Returned
  BY <1>1 DEF InHand, Returned
<1>6. /\ \A v \in InHand : cur'[v] = cur[v]
      /\ cur'[w] = jobs[1]
  BY <1>1, <1>5 DEF InHand
<1>7. HandledOnce'
  <2>1. /\ \A k, j \in DOMAIN jobs : k < j => jobs[k] < jobs[j]
        /\ \A k \in DOMAIN jobs : jobs[k] < next /\ jobs[k] \in Nat /\ jobs[k] >= 1
        /\ \A v \in InHand : cur[v] \in 1..(next - 1) /\ \A k \in DOMAIN jobs : cur[v] < jobs[k]
        /\ \A v, u \in InHand : v # u => cur[v] # cur[u]
        /\ next \in Nat
    BY <1>1, Numbers, SMTT(30) DEF Strong, HandledOnce, Docs
  <2>2. \A k, j \in DOMAIN jobs' : k < j => jobs'[k] < jobs'[j]
    BY <1>2, <2>1
  <2>3. \A k \in DOMAIN jobs' : jobs'[k] < next /\ jobs[1] < jobs'[k]
    BY <1>2, <2>1
  <2>4. \A v \in InHand : cur[v] < jobs[1] /\ \A k \in DOMAIN jobs' : cur[v] < jobs'[k]
    BY <1>2, <2>1
  <2>5. \A v \in InHand' : cur'[v] \in 1..(next - 1) /\ \A k \in DOMAIN jobs' : cur'[v] < jobs'[k]
    <3>1. jobs[1] \in 1..(next - 1) /\ \A k \in DOMAIN jobs' : jobs[1] < jobs'[k]
      BY <1>2, <2>1, <2>3
    <3>2. \A v \in InHand : cur'[v] \in 1..(next - 1) /\ \A k \in DOMAIN jobs' : cur'[v] < jobs'[k]
      BY <1>6, <2>1, <2>4
    <3> QED BY <1>5, <1>6, <3>1, <3>2
  <2>6. \A v, u \in InHand' : v # u => cur'[v] # cur'[u]
    <3>1. \A v \in InHand : cur[v] # jobs[1]
      BY <1>2, <2>1, <2>4
    <3> QED BY <1>5, <1>6, <2>1, <3>1
  <2>7. next' = next
    BY <1>1 DEF producer
  <2> QED BY <2>2, <2>3, <2>5, <2>6, <2>7 DEF HandledOnce
<1>8. Balance'
  BY <1>1, <1>2, <1>3, Numbers, SMTT(30) DEF Strong, Balance, Missing, producer, totals
<1>9. Fresh'
  <2>1. jobs[1] \notin stored /\ \A k \in DOMAIN jobs' : jobs'[k] \notin stored
    BY <1>2 DEF Strong, Fresh
  <2>2. \A v \in Worker : pc'[v] = "index" => cur'[v] \notin stored
    BY <1>1, <2>1 DEF Strong, Fresh
  <2> QED BY <1>1, <2>1, <2>2 DEF Strong, Fresh, producer
<1>10. Ending'
  <2>1. w \notin Returned
    BY <1>1 DEF Returned
  <2>2. Returned # {} => cancelled
    BY <1>1 DEF Strong, Ending
  <2>3. ~done /\ report = <<>>
    BY <2>1 DEF Strong, Ending
  <2> QED BY <1>1, <1>5, <2>2, <2>3 DEF Strong, Ending, producer, totals, main, AllSent
<1> QED BY <1>4, <1>7, <1>8, <1>9, <1>10 DEF Strong

\* Steps of a worker that take nothing from the channel.
LEMMA WorkerMoves ==
    ASSUME Strong, NEW w \in Worker, NEW s \in Places, pc' = [pc EXCEPT ![w] = s],
           UNCHANGED <<cancelled, channel, producer, cur, main>>,
           stored \subseteq stored', stored' \subseteq Docs,
           inserted' \in Nat, failed' \in Nat, faults' \in 0..MaxFaults,
           pc[w] # "returned", s \in Hands => pc[w] \in Hands, Fresh', Balance',
           s = "returned" => cancelled \/ (closed /\ jobs = <<>>)
    PROVE  Strong'
<1>1. Shape'
  BY DEF Strong, Shape, channel, producer, main, Cap
<1>2. InHand' \subseteq InHand
  BY DEF Strong, Shape, InHand, Hands
<1>3. HandledOnce'
  BY <1>2 DEF Strong, HandledOnce, channel, producer
<1>4. ~done /\ report = <<>>
  BY DEF Strong, Ending, Returned
<1>5. Returned' \subseteq Returned \union {w} /\ (s # "returned" => Returned' \subseteq Returned)
  BY DEF Strong, Shape, Returned
<1>6. Ending'
  BY <1>4, <1>5 DEF Strong, Ending, AllSent, channel, producer, main
<1> QED BY <1>1, <1>3, <1>6 DEF Strong


LEMMA RangeEndsStep == ASSUME Strong, NEW w \in Worker, RangeEnds(w) PROVE Strong'
<1>1. /\ pc[w] = "take" /\ jobs = <<>> /\ closed /\ pc' = [pc EXCEPT ![w] = "returned"]
      /\ UNCHANGED <<cancelled, channel, producer, cur, totals, main, stored, faults>>
      /\ Shape /\ pc \in [Worker -> Places]
  BY DEF RangeEnds, Strong, Shape
<1> DEFINE s == "returned"
<1>2. /\ s \in Places /\ s \notin Hands /\ s = "returned" /\ pc' = [pc EXCEPT ![w] = s]
      /\ pc[w] \notin Hands /\ s # "stored" /\ s # "index"
  BY <1>1 DEF Places, Hands
<1> HIDE DEF s
<1>3. InHands' = InHands /\ Stopped' = Stopped + 1 /\ Uncounted' = Uncounted
  BY <1>1, <1>2, WorkerCounts
<1>4. Balance'
  BY <1>1, <1>3, Numbers DEF Strong, Balance, Missing, channel, producer, totals
<1>5. Fresh'
  BY <1>1, <1>2 DEF Strong, Fresh, channel, producer
<1> QED BY <1>1, <1>2, <1>4, <1>5, WorkerMoves DEF totals, Shape

LEMMA EffectStep == ASSUME Strong, NEW w \in Worker, Effect(w) PROVE Strong'
<1>1. /\ pc[w] = "index" /\ pc' = [pc EXCEPT ![w] = "stored"]
      /\ stored' = stored \union {cur[w]}
      /\ UNCHANGED <<cancelled, channel, producer, cur, totals, main, faults>>
      /\ Shape /\ pc \in [Worker -> Places]
  BY DEF Effect, Strong, Shape
<1> DEFINE s == "stored"
<1>2. /\ s \in Places /\ s \in Hands /\ s = "stored" /\ pc' = [pc EXCEPT ![w] = s]
      /\ pc[w] \in Hands /\ pc[w] # "returned" /\ s # "index"
  BY <1>1 DEF Places, Hands
<1> HIDE DEF s
<1>3. InHands' = InHands /\ Stopped' = Stopped /\ Uncounted' = Uncounted + 1
  BY <1>1, <1>2, WorkerCounts
<1>4. /\ cur[w] \in 1..(next - 1) /\ \A k \in DOMAIN jobs : cur[w] < jobs[k]
      /\ \A v \in InHand : v # w => cur[v] # cur[w]
  BY <1>1 DEF Strong, HandledOnce, InHand
<1>5. cur[w] \notin stored /\ cur[w] \in Docs
  <2>1. next - 1 <= Count /\ next \in Nat
    BY <1>1 DEF Shape
  <2> QED BY <1>1, <1>4, <2>1 DEF Strong, Fresh, Docs
<1>6. Cardinality(stored') = Cardinality(stored) + 1
  BY <1>1, <1>5, Numbers, FS_AddElement
<1>7. Balance'
  BY <1>1, <1>3, <1>6, Numbers DEF Strong, Balance, Missing, channel, producer, totals
<1>8. Fresh'
  <2>1. \A v \in Worker : pc'[v] = "index" => v # w /\ pc[v] = "index" /\ v \in InHand
    BY <1>1 DEF InHand
  <2>2. \A k \in DOMAIN jobs : jobs[k] # cur[w]
    BY <1>1, <1>4 DEF Shape, Docs
  <2> QED BY <1>1, <1>4, <2>1, <2>2 DEF Strong, Fresh, channel, producer
<1>9. stored' \subseteq Docs
  BY <1>1, <1>5 DEF Shape
<1> QED BY <1>1, <1>2, <1>7, <1>8, <1>9, WorkerMoves DEF totals, Shape

LEMMA FailsStep == ASSUME Strong, NEW w \in Worker, Fails(w) PROVE Strong'
<1>1. /\ pc[w] \in {"index", "stored"} /\ pc' = [pc EXCEPT ![w] = "erred"]
      /\ UNCHANGED <<cancelled, channel, producer, cur, totals, main, stored>>
      /\ Shape /\ pc \in [Worker -> Places]
  BY DEF Fails, Strong, Shape
<1> DEFINE s == "erred"
<1>2. /\ s \in Places /\ s \in Hands /\ s # "stored" /\ pc' = [pc EXCEPT ![w] = s]
      /\ pc[w] \in Hands /\ pc[w] # "returned" /\ s # "index" /\ s # "returned"
  BY <1>1 DEF Places, Hands
<1> HIDE DEF s
<1>3. InHands' = InHands /\ Stopped' = Stopped /\ (Uncounted' = Uncounted \/ Uncounted' = Uncounted - 1)
  BY <1>1, <1>2, WorkerCounts
<1>4. Balance'
  BY <1>1, <1>3, Numbers DEF Strong, Balance, Missing, channel, producer, totals
<1>5. Fresh'
  BY <1>1, <1>2 DEF Strong, Fresh, channel, producer
<1>6. faults' \in 0..MaxFaults
  BY <1>1 DEF Fails, Shape
<1> QED BY <1>1, <1>2, <1>4, <1>5, <1>6, WorkerMoves DEF totals, Shape

LEMMA HandleErrorStep == ASSUME Strong, NEW w \in Worker, HandleError(w) PROVE Strong'
<1>1. /\ pc[w] = "erred"
      /\ UNCHANGED <<cancelled, channel, producer, cur, inserted, main, stored, faults>>
      /\ Shape /\ pc \in [Worker -> Places]
  BY DEF HandleError, Strong, Shape
<1> DEFINE s == IF cancelled THEN "returned" ELSE "take"
<1>2. /\ s \in Places /\ s \notin Hands /\ s # "stored" /\ pc' = [pc EXCEPT ![w] = s]
      /\ pc[w] \in Hands /\ pc[w] # "returned" /\ s # "index"
      /\ s = "returned" <=> cancelled
      /\ failed' = IF cancelled THEN failed ELSE failed + 1
      /\ pc[w] # "stored"
  BY <1>1 DEF HandleError, Places, Hands
<1> HIDE DEF s
<1>3. /\ InHands' = InHands - 1 /\ Uncounted' = Uncounted
      /\ Stopped' = IF cancelled THEN Stopped + 1 ELSE Stopped
  BY <1>1, <1>2, WorkerCounts
<1>4. Balance'
  <2>1. Missing' = IF cancelled THEN Missing + 1 ELSE Missing
    <3>1. next' = next /\ Len(jobs') = Len(jobs) /\ inserted' = inserted
      BY <1>1 DEF channel, producer
    <3>2. next \in Nat /\ Len(jobs) \in Nat /\ inserted \in Nat /\ failed \in Nat
          /\ InHands \in Nat
      BY <1>1, Numbers
    <3>3. CASE cancelled
      BY <1>2, <1>3, <3>1, <3>2, <3>3 DEF Missing
    <3>4. CASE ~cancelled
      BY <1>2, <1>3, <3>1, <3>2, <3>4 DEF Missing
    <3> QED BY <3>3, <3>4
  <2>2. inserted' = inserted /\ stored' = stored /\ cancelled' = cancelled
    BY <1>1
  <2>3. Missing \in Int
    BY <1>1, Numbers DEF Missing
  <2> QED BY <1>1, <1>3, <2>1, <2>2, <2>3, Numbers DEF Strong, Balance
<1>5. Fresh'
  BY <1>1, <1>2 DEF Strong, Fresh, channel, producer
<1>6. failed' \in Nat /\ inserted' \in Nat /\ faults' \in 0..MaxFaults
  BY <1>1, <1>2 DEF Shape
<1> QED BY <1>1, <1>2, <1>4, <1>5, <1>6, WorkerMoves DEF Shape

LEMMA CountInsertedStep ==
    ASSUME Strong, NEW w \in Worker, CountInserted(w) PROVE Strong'
<1>1. /\ pc[w] = "stored" /\ pc' = [pc EXCEPT ![w] = "take"] /\ inserted' = inserted + 1
      /\ UNCHANGED <<cancelled, channel, producer, cur, failed, main, stored, faults>>
      /\ Shape /\ pc \in [Worker -> Places]
  BY DEF CountInserted, Strong, Shape
<1> DEFINE s == "take"
<1>2. /\ s \in Places /\ s \notin Hands /\ s # "stored" /\ pc' = [pc EXCEPT ![w] = s]
      /\ pc[w] \in Hands /\ pc[w] # "returned" /\ s # "index" /\ s # "returned"
  BY <1>1 DEF Places, Hands
<1> HIDE DEF s
<1>3. InHands' = InHands - 1 /\ Uncounted' = Uncounted - 1 /\ Stopped' = Stopped
  BY <1>1, <1>2, WorkerCounts
<1>4. Balance'
  <2>1. Missing' = Missing
    BY <1>1, <1>3, Numbers DEF Missing, channel, producer
  <2>2. inserted' + Uncounted' = inserted + Uncounted
    BY <1>1, <1>3, Numbers
  <2> QED BY <1>1, <1>3, <2>1, <2>2 DEF Strong, Balance
<1>5. Fresh'
  BY <1>1, <1>2 DEF Strong, Fresh, channel, producer
<1>6. failed' \in Nat /\ inserted' \in Nat
  BY <1>1 DEF Shape
<1> QED BY <1>1, <1>2, <1>4, <1>5, <1>6, WorkerMoves DEF Shape

LEMMA NextStrong == Strong /\ [Next]_vars => Strong'
<1> SUFFICES ASSUME Strong, [Next]_vars PROVE Strong'
  OBVIOUS
<1>1. CASE UNCHANGED vars
  <2>1. UNCHANGED <<InHands, Stopped, Uncounted, InHand, Returned>>
    BY <1>1, NobodyMoves DEF vars
  <2> QED BY <1>1, <2>1 DEF vars, Strong, Shape, HandledOnce, Balance, Missing, Fresh,
             Ending, AllSent, Cap
<1>2. CASE Cancel \/ Send \/ ProducerReturns \/ CloseDone \/ Report
  BY <1>2, CancelStep, SendStep, ProducerReturnsStep, WaiterStep
<1>3. ASSUME NEW w \in Worker, Work(w) PROVE Strong'
  BY <1>3, TakeStep, RangeEndsStep, EffectStep, FailsStep, HandleErrorStep,
     CountInsertedStep DEF Work
<1> QED BY <1>1, <1>2, <1>3 DEF Next

-----------------------------------------------------------------------------
(* The theorems.                                                           *)

\* No interleaving of the goroutines, with a signal and with failures at any
\* time, handles a document twice, loses one but with a stopped worker, or
\* counts as inserted one that is not stored.
THEOREM NothingLost == Spec => []PoolInv
BY InitStrong, NextStrong, StrongIs, PTL DEF Spec

\* The totals printed at the end of a run without a signal add up to -n.
THEOREM TotalsAddUp == Spec => []EveryDocAccounted
<1>1. Strong => EveryDocAccounted
  <2> SUFFICES ASSUME Strong, report # <<>>, ~cancelled
               PROVE  report[1] + report[2] = Count
    BY DEF EveryDocAccounted
  <2>1. /\ Returned = Worker /\ report = <<inserted, failed>>
        /\ closed /\ jobs = <<>> /\ AllSent
    BY DEF Strong, Ending
  <2>2. InHand = {}
    BY <2>1 DEF InHand, Returned
  <2>3. InHands = 0 /\ Len(jobs) = 0
    BY <2>1, <2>2, Sets, FS_EmptySet DEF InHands
  <2>4. next = Count + 1
    BY <2>1 DEF AllSent, Strong, Shape
  <2>5. Missing = 0
    BY Numbers DEF Strong, Balance, Missing
  <2> QED BY <2>1, <2>3, <2>4, <2>5, Numbers DEF Missing, Strong
<1> QED BY <1>1, InitStrong, NextStrong, PTL DEF Spec
=============================================================================
