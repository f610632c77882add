--------------------------- MODULE ChunkerProofs ---------------------------
(***************************************************************************)
(* Chunker's properties hold for every body and every choice of options.   *)
(* The inductive invariant SplitInv says where the loop stands: everything     *)
(* before the cursor is in a chunk, the window reaches from cursor to      *)
(* hardEnd, and the last chunk ended less than a target after the cursor.  *)
(***************************************************************************)
EXTENDS Chunker, TLAPS

USE ChunkerAssumption

\* After the clamps of Split the target is positive, the maximum not below it
\* and the overlap below it, whatever the caller gave.
LEMMA OptionsClamped ==
    ASSUME NEW t \in Int, NEW m \in Int, NEW o \in Int
    PROVE  /\ ClampTarget(t) \in Nat \ {0}
           /\ ClampMax(m, ClampTarget(t)) \in Nat
           /\ ClampTarget(t) <= ClampMax(m, ClampTarget(t))
           /\ ClampOverlap(o, ClampTarget(t)) \in Nat
           /\ ClampOverlap(o, ClampTarget(t)) < ClampTarget(t)
<1>1. ClampTarget(t) \in Nat \ {0}
  BY DEF ClampTarget
<1> DEFINE g == ClampTarget(t)
<1>2. g \div 4 \in Nat /\ g \div 4 < g
  BY <1>1
<1>3. ClampMax(m, g) \in Nat /\ g <= ClampMax(m, g)
  BY <1>1 DEF ClampMax
<1>4. ClampOverlap(o, g) \in Nat /\ ClampOverlap(o, g) < g
  BY <1>1, <1>2 DEF ClampOverlap
<1> QED BY <1>1, <1>3, <1>4

LEMMA InitInv == Init => SplitInv
<1> SUFFICES ASSUME Init PROVE SplitInv
  OBVIOUS
<1>1. PICK t \in RawTargets, m \in RawMaxes, o \in RawOverlaps :
          /\ target = ClampTarget(t)
          /\ max = ClampMax(m, ClampTarget(t))
          /\ overlap = ClampOverlap(o, ClampTarget(t))
  BY DEF Init
<1>2. t \in Int /\ m \in Int /\ o \in Int
  OBVIOUS
<1>3. /\ target \in Nat \ {0} /\ max \in Nat /\ overlap \in Nat
      /\ target <= max /\ overlap < target
  BY <1>1, <1>2, OptionsClamped
<1>4. TypeOK
  BY <1>3 DEF Init, TypeOK
<1>5. OptionsOK
  BY <1>3 DEF Init, OptionsOK
<1>6. LoopOK /\ ChunksBounded /\ ChunksOrdered
  BY DEF Init, LoopOK, ChunksBounded, ChunksOrdered
<1> QED BY <1>4, <1>5, <1>6 DEF SplitInv

\* A step that cuts no piece keeps what is said of the pieces.
LEMMA KeepsPieces ==
    ASSUME UNCHANGED <<input, out>>, ChunksBounded, ChunksOrdered, OptionsOK
    PROVE  ChunksBounded' /\ ChunksOrdered' /\ OptionsOK'
BY DEF input, ChunksBounded, ChunksOrdered, OptionsOK

LEMMA KeepsCover ==
    ASSUME UNCHANGED <<input, out>>, NEW n \in Nat, Covered(n)
    PROVE  Covered(n)'
BY DEF input, Covered

LEMMA StartStep == SplitInv /\ Start => SplitInv'
<1> SUFFICES ASSUME SplitInv, Start PROVE SplitInv'
  OBVIOUS
<1> USE DEF SplitInv
<1>1. /\ UNCHANGED <<text, len, target, max, overlap, cursor, end, hardEnd, i>>
      /\ out = <<>> /\ cursor = 0
  BY DEF Start, input, LoopOK
<1>2. CASE len <= max
  <2>1. out' = <<<<0, len>>>> /\ pc' = "done"
    BY <1>2 DEF Start
  <2>2. TypeOK'
    BY <1>1, <2>1 DEF TypeOK
  <2>3. OptionsOK'
    BY <1>1 DEF OptionsOK
  <2>4. ChunksBounded' /\ ChunksOrdered'
    BY <1>1, <1>2, <2>1 DEF ChunksBounded, ChunksOrdered, TypeOK
  <2>5. Covered(len)'
    BY <1>1, <2>1 DEF Covered, TypeOK
  <2>6. LoopOK'
    BY <1>1, <2>1, <2>5 DEF LoopOK
  <2> QED BY <2>2, <2>3, <2>4, <2>6
<1>3. CASE len > max
  <2>1. out' = out /\ pc' = "top"
    BY <1>3 DEF Start, TypeOK
  <2>2. TypeOK' /\ OptionsOK' /\ ChunksBounded' /\ ChunksOrdered'
    BY <1>1, <2>1 DEF TypeOK, OptionsOK, ChunksBounded, ChunksOrdered
  <2>3. Covered(cursor)'
    BY <1>1 DEF Covered
  <2>4. LoopOK'
    BY <1>1, <1>3, <2>1, <2>3 DEF LoopOK, TypeOK
  <2> QED BY <2>2, <2>4
<1> QED BY <1>2, <1>3 DEF TypeOK

LEMMA TopStep == SplitInv /\ Top => SplitInv'
<1> SUFFICES ASSUME SplitInv, Top PROVE SplitInv'
  OBVIOUS
<1> USE DEF SplitInv
<1>1. UNCHANGED <<input, out>> /\ cursor' = cursor
  BY DEF Top
<1>2. /\ UNCHANGED <<text, len, target, max, overlap, cursor, out>>
      /\ cursor < len /\ len > max /\ Covered(cursor)
  BY DEF Top, input, LoopOK
<1>3. /\ end' = Smaller(cursor + target, len) /\ i' = end'
      /\ hardEnd' = Smaller(cursor + max, len)
      /\ pc' \in {"emit", "sentence"}
  BY DEF Top
<1>4. TypeOK'
  BY <1>2, <1>3 DEF TypeOK, Smaller
<1>5. ChunksBounded' /\ ChunksOrdered' /\ OptionsOK'
  BY <1>1, KeepsPieces
<1>6. Covered(cursor)'
  BY <1>2 DEF Covered
<1>7. end' <= hardEnd'
  BY <1>3 DEF Smaller, OptionsOK, TypeOK
<1>8. LoopOK'
  BY <1>2, <1>3, <1>6, <1>7 DEF LoopOK, Smaller, TypeOK, Top
<1> QED BY <1>4, <1>5, <1>8

\* The three loops of preferBoundary move end no further than hardEnd.
LEMMA ScanStep == SplitInv /\ (ScanSentence \/ SkipTrailing \/ ScanSpace) => SplitInv'
<1> SUFFICES ASSUME SplitInv, ScanSentence \/ SkipTrailing \/ ScanSpace PROVE SplitInv'
  OBVIOUS
<1> USE DEF SplitInv
<1>1. UNCHANGED <<input, out>>
  BY DEF ScanSentence, SkipTrailing, ScanSpace
<1>2. UNCHANGED <<text, len, target, max, overlap, cursor, hardEnd, out>>
  BY DEF ScanSentence, SkipTrailing, ScanSpace, input
<1>3. /\ pc \in {"sentence", "trail", "space"}
      /\ cursor < len /\ len > max /\ Covered(cursor)
      /\ end <= i /\ i <= hardEnd /\ end >= Smaller(cursor + target, len)
  BY DEF ScanSentence, SkipTrailing, ScanSpace, LoopOK
<1>4. /\ pc' \in {"sentence", "trail", "space", "emit"}
      /\ i' \in Nat /\ end' \in Nat
      /\ end <= end' /\ end' <= i' /\ i' <= hardEnd
  BY <1>2, <1>3 DEF ScanSentence, SkipTrailing, ScanSpace, TypeOK
<1>5. TypeOK'
  BY <1>2, <1>4 DEF TypeOK
<1>6. ChunksBounded' /\ ChunksOrdered' /\ OptionsOK'
  BY <1>1, KeepsPieces
<1>7. Covered(cursor)'
  BY <1>2, <1>3 DEF Covered
<1>8. /\ hardEnd <= len /\ hardEnd <= cursor + max
      /\ \A c \in DOMAIN out :
              /\ out[c][1] < cursor /\ out[c][2] < cursor + target
              /\ out[c][2] < len /\ cursor >= out[c][2] - overlap
  BY <1>3 DEF LoopOK
<1>9. end' >= Smaller(cursor + target, len)
  BY <1>3, <1>4 DEF TypeOK, Smaller
<1>10. LoopOK'
  <2>1. hardEnd' <= len' /\ hardEnd' <= cursor' + max' /\ cursor' < len' /\ len' > max'
    BY <1>2, <1>3, <1>8
  <2>2. end' <= hardEnd' /\ end' >= Smaller(cursor + target, len)'
    BY <1>2, <1>4, <1>9 DEF TypeOK, Smaller
  <2>3. \A c \in DOMAIN out' :
              /\ out'[c][1] < cursor' /\ out'[c][2] < cursor' + target'
              /\ out'[c][2] < len' /\ cursor' >= out'[c][2] - overlap'
    BY <1>2, <1>8
  <2> QED BY <1>2, <1>4, <1>7, <2>1, <2>2, <2>3 DEF LoopOK
<1> QED BY <1>5, <1>6, <1>10

LEMMA SmallerRange ==
    ASSUME NEW a \in Nat, NEW b \in Nat, a <= b
    PROVE  0..(a - 1) \subseteq 0..(b - 1)
OBVIOUS

LEMMA EmitStep == SplitInv /\ Emit => SplitInv'
<1> SUFFICES ASSUME SplitInv, Emit PROVE SplitInv'
  OBVIOUS
<1> USE DEF SplitInv
<1>1. UNCHANGED <<text, len, target, max, overlap, end, hardEnd, i>> /\ pc = "emit"
  BY DEF Emit, input
<1>2. /\ cursor < len /\ len > max /\ Covered(cursor)
      /\ hardEnd <= len /\ hardEnd <= cursor + max
      /\ end <= hardEnd /\ end >= Smaller(cursor + target, len)
      /\ \A c \in DOMAIN out :
              /\ out[c][1] < cursor /\ out[c][2] < cursor + target
              /\ out[c][2] < len /\ cursor >= out[c][2] - overlap
  BY <1>1 DEF LoopOK
<1>3. /\ cursor < end /\ end <= len /\ end - cursor <= max
      /\ \A c \in DOMAIN out : out[c][2] < end
  <2>1. cursor < end
    BY <1>2 DEF TypeOK, Smaller
  <2>2. end <= len /\ end - cursor <= max
    BY <1>2 DEF TypeOK
  <2>3. ASSUME NEW c \in DOMAIN out PROVE out[c][2] < end
    <3>1. out[c][2] \in Nat
      BY DEF TypeOK
    <3> QED BY <1>2, <3>1 DEF TypeOK, Smaller
  <2> QED BY <2>1, <2>2, <2>3
\* What the pieces are once this one is appended.
<1> DEFINE P == Pieces
           Cut(c) == c[1] <= c[2] /\ c[2] <= len /\ c[2] - c[1] <= max /\ c[1] < c[2]
<1>4. /\ P \in Seq(Nat \X Nat)
      /\ DOMAIN out \subseteq DOMAIN P
      /\ \A c \in DOMAIN out : P[c] = out[c]
      /\ \A c \in DOMAIN P : c \in DOMAIN out \/ (P[c] = <<cursor, end>> /\ c = Len(out) + 1)
      /\ Len(out) \in Nat /\ DOMAIN out = 1..Len(out) /\ DOMAIN P \subseteq Nat
  <2>1. <<cursor, end>> \in Nat \X Nat /\ out \in Seq(Nat \X Nat)
    BY DEF TypeOK
  <2>2. Append(out, <<cursor, end>>) \in Seq(Nat \X Nat)
    BY <2>1
  <2>3. CASE P = out
    BY <2>1, <2>3
  <2>4. CASE P = Append(out, <<cursor, end>>)
    BY <2>1, <2>2, <2>4
  <2> QED BY <2>3, <2>4 DEF Pieces
<1>5. \A c \in DOMAIN P : Cut(P[c])
  <2> SUFFICES ASSUME NEW c \in DOMAIN P PROVE Cut(P[c])
    OBVIOUS
  <2>1. CASE c \in DOMAIN out
    <3>1. Cut(out[c])
      BY <2>1, <1>2 DEF ChunksBounded, TypeOK
    <3>2. P[c] = out[c]
      BY <2>1, <1>4
    <3> HIDE DEF P
    <3> QED BY <3>1, <3>2
  <2>2. CASE P[c] = <<cursor, end>>
    <3> HIDE DEF P
    <3> QED BY <2>2, <1>3 DEF TypeOK
  <2> HIDE DEF P, Cut
  <2> QED BY <2>1, <2>2, <1>4
<1>6. \A c, d \in DOMAIN P : c < d =>
        /\ P[c][1] < P[d][1] /\ P[c][2] < P[d][2]
        /\ P[d][1] >= P[c][2] - overlap
  <2> SUFFICES ASSUME NEW c \in DOMAIN P, NEW d \in DOMAIN P, c < d
               PROVE  /\ P[c][1] < P[d][1] /\ P[c][2] < P[d][2]
                      /\ P[d][1] >= P[c][2] - overlap
    OBVIOUS
  <2> HIDE DEF P
  <2>1. c \in DOMAIN out
    BY <1>4, SMTT(30)
  <2>2. CASE d \in DOMAIN out
    BY <2>1, <2>2, <1>4 DEF ChunksOrdered
  <2>3. CASE P[d] = <<cursor, end>>
    BY <2>1, <2>3, <1>4, <1>2, <1>3
  <2> QED BY <2>2, <2>3, <1>4
<1>7. \A p \in 0..(end - 1) :
        IsWhite(text[p]) \/ \E c \in DOMAIN P : P[c][1] <= p /\ p < P[c][2]
  <2> SUFFICES ASSUME NEW p \in 0..(end - 1), ~IsWhite(text[p])
               PROVE  \E c \in DOMAIN P : P[c][1] <= p /\ p < P[c][2]
    OBVIOUS
  <2>0. p < len /\ p \in Nat
    BY <1>3 DEF TypeOK
  <2>1. CASE p < cursor
    <3>0. p \in 0..(cursor - 1)
      BY <2>0, <2>1 DEF TypeOK
    <3>1. PICK c \in DOMAIN out : out[c][1] <= p /\ p < out[c][2]
      BY <3>0, <2>0, <1>2 DEF Covered
    <3> HIDE DEF P
    <3> QED BY <3>1, <1>4
  <2>2. CASE p >= cursor
    <3>1. p \in cursor..(end - 1)
      BY <2>0, <2>2 DEF TypeOK
    <3>2. P = Append(out, <<cursor, end>>)
      BY <3>1 DEF Pieces
    <3>3. Len(out) + 1 \in DOMAIN P /\ P[Len(out) + 1] = <<cursor, end>>
      BY <3>2 DEF TypeOK
    <3> HIDE DEF P
    <3> QED BY <3>1, <3>3 DEF TypeOK
  <2> QED BY <2>0, <2>1, <2>2 DEF TypeOK
<1>8. OptionsOK'
  BY <1>1 DEF OptionsOK
<1>9. CASE end >= len
  <2>1. end = len /\ len > 0
    BY <1>2, <1>3, <1>9 DEF TypeOK
  <2>2. P # <<>>
    <3>1. ~IsWhite(text[len - 1]) /\ len - 1 \in 0..(end - 1)
      BY <2>1 DEF OptionsOK, TypeOK
    <3> HIDE DEF P
    <3> QED BY <3>1, <1>7
  <2>3. out' = P /\ pc' = "done" /\ cursor' = cursor
    BY <2>2, <1>9 DEF Emit
  <2> HIDE DEF P
  <2>4. TypeOK'
    BY <1>1, <1>4, <2>3 DEF TypeOK
  <2>5. ChunksBounded' /\ ChunksOrdered'
    BY <1>1, <1>5, <1>6, <2>3 DEF ChunksBounded, ChunksOrdered
  <2>6. Covered(len)'
    BY <1>1, <1>7, <2>1, <2>3 DEF Covered
  <2>7. LoopOK'
    BY <2>2, <2>3, <2>6 DEF LoopOK
  <2> QED BY <1>8, <2>4, <2>5, <2>7
<1>10. CASE end < len
  <2>1. out' = P /\ pc' = "top" /\ cursor' = NextCursor
    BY <1>10 DEF Emit, TypeOK
  <2>2. /\ cursor' \in Nat /\ cursor < cursor' /\ cursor' <= end
        /\ cursor' >= end - overlap
    BY <2>1, <1>3 DEF NextCursor, TypeOK
  <2> HIDE DEF P
  <2>3. TypeOK'
    BY <1>1, <1>4, <2>1, <2>2 DEF TypeOK
  <2>4. ChunksBounded' /\ ChunksOrdered'
    BY <1>1, <1>5, <1>6, <2>1 DEF ChunksBounded, ChunksOrdered
  <2>5. Covered(cursor)'
    <3>0. end \in Nat
      BY DEF TypeOK
    <3>1. 0..(cursor' - 1) \subseteq 0..(end - 1)
      BY <3>0, <2>2, SmallerRange
    <3>2. \A p \in 0..(cursor' - 1) :
            IsWhite(text[p]) \/ \E c \in DOMAIN P : P[c][1] <= p /\ p < P[c][2]
      BY <3>1, <1>7
    <3>3. \A p \in 0..(cursor' - 1) :
            IsWhite(text'[p]) \/ \E c \in DOMAIN out' : out'[c][1] <= p /\ p < out'[c][2]
      BY <3>2, <1>1, <2>1
    <3> QED BY <3>3 DEF Covered
  <2>6. ASSUME NEW c \in DOMAIN P
        PROVE  /\ P[c][1] < cursor' /\ P[c][2] < cursor' + target
               /\ P[c][2] < len /\ cursor' >= P[c][2] - overlap
    <3>1. CASE c \in DOMAIN out
      <4>1. out[c] \in Nat \X Nat
        BY <3>1 DEF TypeOK
      <4>2. out[c][1] \in Nat /\ out[c][2] \in Nat
        BY <4>1
      <4>3. P[c] = out[c]
        BY <3>1, <1>4
      <4>4. /\ out[c][1] < cursor' /\ out[c][2] < cursor' + target
            /\ out[c][2] < len /\ cursor' >= out[c][2] - overlap
        BY <3>1, <4>2, <1>2, <2>2 DEF TypeOK
      <4> QED BY <4>3, <4>4
    <3>2. CASE P[c] = <<cursor, end>>
      BY <3>2, <2>2, <1>10 DEF TypeOK, OptionsOK
    <3> QED BY <3>1, <3>2, <1>4
  <2>7. LoopOK'
    <3>1. cursor' < len
      BY <2>2, <1>10 DEF TypeOK
    <3>2. \A c \in DOMAIN out' :
              /\ out'[c][1] < cursor' /\ out'[c][2] < cursor' + target'
              /\ out'[c][2] < len' /\ cursor' >= out'[c][2] - overlap'
      BY <1>1, <2>1, <2>6
    <3> QED BY <3>1, <3>2, <1>1, <1>2, <2>1, <2>5 DEF LoopOK
  <2> QED BY <1>8, <2>3, <2>4, <2>7
<1> QED BY <1>9, <1>10 DEF TypeOK

\* The inductive invariant of Split's loops holds in every reachable state.
THEOREM Invariant == Spec => []SplitInv
<1>1. SplitInv /\ [Next]_vars => SplitInv'
  <2> SUFFICES ASSUME SplitInv, [Next]_vars PROVE SplitInv'
    OBVIOUS
  <2>1. CASE Start
    BY <2>1, StartStep
  <2>2. CASE Top
    BY <2>2, TopStep
  <2>3. CASE ScanSentence \/ SkipTrailing \/ ScanSpace
    BY <2>3, ScanStep
  <2>4. CASE Emit
    BY <2>4, EmitStep
  <2>5. CASE UNCHANGED vars
    BY <2>5 DEF vars, input, SplitInv, TypeOK, OptionsOK, LoopOK, ChunksBounded,
                ChunksOrdered, Covered
  <2> QED BY <2>1, <2>2, <2>3, <2>4, <2>5 DEF Next
<1> QED BY InitInv, <1>1, PTL DEF Spec

\* No chunk of any body is longer than MaxChars or, unless the body is, empty.
THEOREM Bounded == Spec => []ChunksBounded
<1>1. SplitInv => ChunksBounded
  BY DEF SplitInv
<1> QED BY Invariant, <1>1, PTL

\* Chunks follow the text and repeat at most Overlap of it.
THEOREM Ordered == Spec => []ChunksOrdered
<1>1. SplitInv => ChunksOrdered
  BY DEF SplitInv
<1> QED BY Invariant, <1>1, PTL

\* Split loses no text and yields at least one chunk.
THEOREM Complete == Spec => []NothingLost
<1>1. SplitInv => NothingLost
  <2> SUFFICES ASSUME SplitInv, pc = "done"
               PROVE  /\ out # <<>>
                      /\ \A p \in 0..(len - 1) : IsWhite(text[p])
                            \/ \E c \in DOMAIN out : out[c][1] <= p /\ p < out[c][2]
    BY DEF NothingLost
  <2>1. Covered(len) /\ out # <<>>
    BY DEF SplitInv, LoopOK
  <2>2. len \in Nat
    BY DEF SplitInv, TypeOK
  <2>3. \A p \in 0..(len - 1) : p < len
    BY <2>2
  <2> QED BY <2>1, <2>3 DEF Covered
<1> QED BY Invariant, <1>1, PTL
=============================================================================
