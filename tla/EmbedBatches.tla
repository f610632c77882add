---------------------------- MODULE EmbedBatches ----------------------------
(***************************************************************************)
(* The vectors of a document: handleIndex and indexOne send its chunks to  *)
(* the sidecar in batches (embedBatched, Client.Embed) and give chunk i    *)
(* the i-th vector of all answers together.  The sidecar may fail, answer  *)
(* another number of vectors, or vectors of another length; what it        *)
(* answers is taken to be in the order of the texts, which the client      *)
(* could not tell.  Sidecar has the process that answers.                  *)
(*                                                                         *)
(* Texts are 1..n.  A vector is <<t, d>>: the text it embeds and its       *)
(* length, Dim or not.                                                     *)
(***************************************************************************)
EXTENDS Integers, Sequences, SequencesExt

CONSTANTS
    MaxTexts,       \* bound: chunks of a document
    BatchSizes,     \* values of EmbedBatchSize, or of -batch
    DefaultBatch,   \* 32
    Dim, OtherDim   \* 384, and what another model answers

ASSUME EmbedAssumption ==
    /\ MaxTexts \in Nat /\ BatchSizes \subseteq Int
    /\ DefaultBatch \in Nat \ {0} /\ Dim # OtherDim

VARIABLES
    n, bs,
    i, out,         \* of embedBatched
    step,             \* "loop", "sent", "embedded", "failed" or "built"
    answer,         \* the sidecar's embeddings and dim, on its way back
    chunkOf         \* the embedding of each chunk row built

evars == <<n, bs, i, out, step, answer, chunkOf>>

NoAnswer == [embeddings |-> <<>>, dim |-> 0]

\* mutant: a batch size of 0 is kept
NegativeOnly(b) == IF b < 0 THEN DefaultBatch ELSE b

BatchSize(b) == IF b <= 0 THEN DefaultBatch ELSE b

EInit ==
    /\ n \in 1..MaxTexts
    /\ \E b \in BatchSizes : bs = BatchSize(b)
    /\ i = 0 /\ out = <<>> /\ step = "loop"
    /\ answer = NoAnswer /\ chunkOf = <<>>

\* The slice texts[i:end].
End       == IF i + bs > n THEN n ELSE i + bs
BatchDone == i >= n

SendBatch ==
    /\ step = "loop" /\ ~BatchDone
    /\ step' = "sent"
    /\ UNCHANGED <<n, bs, i, out, answer, chunkOf>>

\* A proxy, another release: up to one vector too many, each of either length,
\* whatever the answer gives as its dim.  The order is that of the texts.
SidecarAnswers ==
    /\ step = "sent" /\ answer = NoAnswer
    /\ \E d \in {Dim, OtherDim}, m \in 0..(End - i + 1) :
       \E len \in [1..m -> {Dim, OtherDim}] :
          answer' = [embeddings |-> [p \in 1..m |-> <<i + p, len[p]>>], dim |-> d]
    /\ UNCHANGED <<n, bs, i, out, step, chunkOf>>

\* No answer, another status than 200, or a body that does not decode.
CallFails ==
    /\ step = "sent"
    /\ step' = "failed" /\ answer' = NoAnswer
    /\ UNCHANGED <<n, bs, i, out, chunkOf>>

\* mutant: the number of vectors is not compared
DimsOnly == answer.dim = Dim /\ \A v \in ToSet(answer.embeddings) : v[2] = Dim

\* What Client.Embed requires of an answer.
Acceptable ==
    /\ Len(answer.embeddings) = End - i
    /\ answer.dim = Dim
    /\ \A v \in ToSet(answer.embeddings) : v[2] = Dim

Receive ==
    /\ step = "sent" /\ answer # NoAnswer
    /\ answer' = NoAnswer
    /\ IF Acceptable
       THEN out' = out \o answer.embeddings /\ i' = i + bs /\ step' = "loop"
       ELSE step' = "failed" /\ UNCHANGED <<out, i>>
    /\ UNCHANGED <<n, bs, chunkOf>>

AllEmbedded ==
    /\ step = "loop" /\ BatchDone
    /\ step' = "embedded"
    /\ UNCHANGED <<n, bs, i, out, answer, chunkOf>>

\* storeChunks[i].Embedding = embeds[i]; an index out of range would panic.
BuildRows ==
    /\ step = "embedded"
    /\ chunkOf' = [c \in 1..n |-> IF c \in DOMAIN out THEN out[c] ELSE <<"panic">>]
    /\ step' = "built"
    /\ UNCHANGED <<n, bs, i, out, answer>>

\* Every chunk row gets the vector of its own text, in the dimension of the
\* column, however the batches fall and however many vectors an answer has and
\* of whatever lengths, as long as they are in the order of the texts.
OwnVector == step = "built" => \A c \in 1..n : chunkOf[c] = <<c, Dim>>
=============================================================================
