------------------------------ MODULE DocIndex ------------------------------
(***************************************************************************)
(* What the store promises, without transactions, locks or connections: a  *)
(* map from document ids to documents.  A document is indexed whole, at    *)
(* most once per content hash for ever; it may be deleted, once; and the   *)
(* chunks of a deleted document, and of no other, may be reclaimed, once   *)
(* and all together.                                                       *)
(***************************************************************************)
EXTENDS Naturals

CONSTANTS Hash, DocId, NoHash, ChunksOf

VARIABLES
    content,    \* the hash of each document, NoHash where there is none
    stage,      \* "absent", "live", "deleted" or "reclaimed"
    text        \* the number of chunks that can be searched or reclaimed

avars == <<content, stage, text>>

AInit ==
    /\ content = [d \in DocId |-> NoHash]
    /\ stage = [d \in DocId |-> "absent"]
    /\ text = [d \in DocId |-> 0]

Index(h, d) ==
    /\ \A e \in DocId : content[e] # h
    /\ stage[d] = "absent"
    /\ content' = [content EXCEPT ![d] = h]
    /\ stage' = [stage EXCEPT ![d] = "live"]
    /\ text' = [text EXCEPT ![d] = ChunksOf[h]]

Delete(d) ==
    /\ stage[d] = "live"
    /\ stage' = [stage EXCEPT ![d] = "deleted"]
    /\ UNCHANGED <<content, text>>

Reclaim(d) ==
    /\ stage[d] = "deleted"
    /\ stage' = [stage EXCEPT ![d] = "reclaimed"]
    /\ text' = [text EXCEPT ![d] = 0]
    /\ UNCHANGED content

ANext == \E d \in DocId : (\E h \in Hash : Index(h, d)) \/ Delete(d) \/ Reclaim(d)

ASpec == AInit /\ [][ANext]_avars
=============================================================================
