--------------------------- MODULE SanitizeProofs ---------------------------
(***************************************************************************)
(* The bounds of SanitizeBM25Query for every query and every cap.          *)
(***************************************************************************)
EXTENDS Sanitize, SequenceTheorems, TLAPS

USE SanitizeAssumption

LEMMA InitInv == Init => SanitizeInv
<1> SUFFICES ASSUME Init PROVE SanitizeInv
  OBVIOUS
<1>1. q \in Seq(Class)
  <2>1. PICK n \in 0..MaxInput : q \in [1..n -> Class]
    BY DEF Init, BoundedSeq, SeqOf
  <2> QED BY <2>1
<1>2. TypeOK
  BY <1>1 DEF Init, TypeOK
<1>3. LoopOK /\ SingleBlanks /\ CappedButOne
  BY DEF Init, LoopOK, SingleBlanks, CappedButOne
<1> QED BY <1>2, <1>3 DEF SanitizeInv

\* Writing position i keeps the positions in order and in range.
LEMMA Written ==
    ASSUME TypeOK, i <= Len(q)
    PROVE  /\ Append(b, i) \in Seq(1..Len(q))
           /\ Len(Append(b, i)) = Len(b) + 1 /\ Append(b, i)[Len(b) + 1] = i
           /\ \A p \in 1..Len(b) : Append(b, i)[p] = b[p]
           /\ Len(b) \in Nat /\ Append(b, i) # <<>>
  BY DEF TypeOK

LEMMA DropStep == SanitizeInv /\ DropRune => SanitizeInv'
<1> SUFFICES ASSUME SanitizeInv, DropRune PROVE SanitizeInv'
  OBVIOUS
<1> USE DEF SanitizeInv, DropRune
<1>1. TypeOK'
  BY DEF TypeOK
<1>2. LoopOK'
  BY DEF LoopOK, TypeOK
<1>3. SingleBlanks' /\ CappedButOne'
  BY DEF SingleBlanks, CappedButOne
<1> QED BY <1>1, <1>2, <1>3

LEMMA BlankStep == SanitizeInv /\ WriteBlank => SanitizeInv'
<1> SUFFICES ASSUME SanitizeInv, WriteBlank PROVE SanitizeInv'
  OBVIOUS
<1> USE DEF SanitizeInv
<1>0. /\ UNCHANGED <<q, pass, pc>> /\ pc = "scan" /\ i <= Len(q)
      /\ Blank(q[i]) /\ i' = i + 1 /\ i \in Nat /\ Len(q) \in Nat
  BY DEF WriteBlank, TypeOK
<1>1. CASE prevSpace
  <2>1. UNCHANGED <<b, prevSpace>>
    BY <1>1 DEF WriteBlank
  <2>2. TypeOK'
    BY <1>0, <2>1 DEF TypeOK
  <2>3. LoopOK'
    BY <1>0, <2>1 DEF LoopOK, TypeOK
  <2>4. SingleBlanks' /\ CappedButOne'
    BY <1>0, <2>1 DEF SingleBlanks, CappedButOne
  <2> QED BY <2>2, <2>3, <2>4
<1>2. CASE ~prevSpace
  <2>1. b' = Append(b, i) /\ prevSpace' = TRUE
    BY <1>2 DEF WriteBlank
  <2>2. /\ b' \in Seq(1..Len(q)) /\ Len(b') = Len(b) + 1 /\ b'[Len(b) + 1] = i
        /\ \A p \in 1..Len(b) : b'[p] = b[p]
        /\ Len(b) \in Nat /\ b' # <<>>
    BY <1>0, <2>1, Written
  <2>3. b # <<>> /\ ~Blank(q[b[Len(b)]]) /\ Len(b) > 0
    BY <1>0, <1>2 DEF LoopOK, TypeOK
  <2>4. q[b[Len(b)]] = "word" /\ Len(b) < MaxQueryRunes
    BY <1>0, <2>2, <2>3 DEF LoopOK
  <2>5. TypeOK'
    BY <1>0, <2>1, <2>2 DEF TypeOK
  <2>6. LoopOK'
    BY <1>0, <2>1, <2>2, <2>4 DEF LoopOK
  <2>7. SingleBlanks'
    BY <1>0, <2>2, <2>3, <2>4, SMTT(30) DEF SingleBlanks
  <2>8. CappedButOne'
    BY <2>2, <2>4 DEF CappedButOne
  <2> QED BY <2>5, <2>6, <2>7, <2>8
<1> QED BY <1>1, <1>2

LEMMA RuneStep == SanitizeInv /\ WriteRune => SanitizeInv'
<1> SUFFICES ASSUME SanitizeInv, WriteRune PROVE SanitizeInv'
  OBVIOUS
<1> USE DEF SanitizeInv
<1>0. /\ UNCHANGED <<q, pass>> /\ pc = "scan" /\ i <= Len(q)
      /\ q[i] = "word" /\ i' = i + 1 /\ i \in Nat /\ Len(q) \in Nat
      /\ b' = Append(b, i) /\ prevSpace' = FALSE
      /\ pc' = IF Len(b) + 1 >= MaxQueryRunes THEN "trim" ELSE "scan"
  BY DEF WriteRune, CapReached, TypeOK
<1>1. /\ b' \in Seq(1..Len(q)) /\ Len(b') = Len(b) + 1 /\ b'[Len(b) + 1] = i
      /\ \A p \in 1..Len(b) : b'[p] = b[p]
      /\ Len(b) \in Nat /\ b' # <<>>
  BY <1>0, Written
<1>2. TypeOK'
  <2>1. pc' \in {"scan", "trim"}
    BY <1>0
  <2>2. i' \in 1..(Len(q) + 1)
    BY <1>0 DEF TypeOK
  <2> QED BY <1>0, <1>1, <2>1, <2>2 DEF TypeOK
<1>3. ~Blank("word")
  BY DEF Blank
<1>4. LoopOK'
  BY <1>0, <1>1, <1>3 DEF LoopOK
<1>5. SingleBlanks'
  <2>1. q'[b'[Len(b')]] = "word" /\ pc' # "done"
    BY <1>0, <1>1
  <2>2. q'[b'[1]] = "word"
    <3>1. CASE Len(b) = 0
      BY <1>0, <1>1, <3>1
    <3>2. CASE Len(b) > 0
      BY <1>0, <1>1, <3>2 DEF SingleBlanks, TypeOK
    <3> QED BY <1>1, <3>1, <3>2
  <2>3. ASSUME NEW p \in 1..(Len(b') - 1)
        PROVE  q'[b'[p]] = "word" \/ q'[b'[p + 1]] = "word"
    BY <1>0, <1>1 DEF SingleBlanks
  <2> QED BY <2>1, <2>2, <2>3 DEF SingleBlanks
<1>6. CappedButOne'
  <2>1. Len(b) <= MaxQueryRunes
    BY <1>0 DEF LoopOK
  <2>2. ASSUME Len(b') = MaxQueryRunes + 1
        PROVE  ~(q'[b'[MaxQueryRunes]] = "word")
    <3>1. Len(b) = MaxQueryRunes
      BY <1>1, <2>2
    <3>2. Blank(q[b[MaxQueryRunes]])
      BY <1>0, <3>1 DEF LoopOK
    <3>3. b'[MaxQueryRunes] = b[MaxQueryRunes]
      BY <1>1, <3>1
    <3> QED BY <1>0, <1>3, <3>2, <3>3
  <2> QED BY <1>1, <2>1, <2>2 DEF CappedButOne
<1> QED BY <1>2, <1>4, <1>5, <1>6

LEMMA EndStep == SanitizeInv /\ EndOfQuery => SanitizeInv'
<1> SUFFICES ASSUME SanitizeInv, EndOfQuery PROVE SanitizeInv'
  OBVIOUS
<1> USE DEF SanitizeInv, EndOfQuery
<1>1. TypeOK'
  BY DEF TypeOK
<1>2. LoopOK'
  BY DEF LoopOK
<1>3. SingleBlanks' /\ CappedButOne'
  BY DEF SingleBlanks, CappedButOne
<1> QED BY <1>1, <1>2, <1>3

LEMMA TrimStep == SanitizeInv /\ Trim => SanitizeInv'
<1> SUFFICES ASSUME SanitizeInv, Trim PROVE SanitizeInv'
  OBVIOUS
<1> USE DEF SanitizeInv
<1>0. UNCHANGED <<q, i, prevSpace, pass>> /\ pc' = "done"
  BY DEF Trim
<1>1. PICK n \in 0..Len(b) : (n > 0 => q[b[n]] = "word") /\ b' = SubSeq(b, 1, n)
  BY DEF Trim
<1>2. /\ b' \in Seq(1..Len(q)) /\ Len(b') = n /\ n \in Nat /\ Len(b) \in Nat
      /\ \A p \in 1..n : b'[p] = b[p]
  <2>1. b \in Seq(1..Len(q)) /\ 1 \in 1..(Len(b) + 1) /\ n \in (1 - 1)..Len(b)
    BY DEF TypeOK
  <2> QED BY <1>1, <2>1, SubSeqProperties
<1>3. TypeOK'
  BY <1>0, <1>2 DEF TypeOK
<1>4. LoopOK'
  BY <1>0, <1>2 DEF LoopOK
<1>5. b' # <<>> => n > 0
  BY <1>2
<1>6. SingleBlanks'
  BY <1>0, <1>1, <1>2, <1>5 DEF SingleBlanks, TypeOK
<1>7. CappedButOne'
  BY <1>0, <1>2 DEF CappedButOne
<1> QED BY <1>3, <1>4, <1>6, <1>7

LEMMA SecondStep == SanitizeInv /\ SecondPass => SanitizeInv'
<1> SUFFICES ASSUME SanitizeInv, SecondPass PROVE SanitizeInv'
  OBVIOUS
<1> USE DEF SanitizeInv, SecondPass
<1>1. q' \in Seq(Class)
  <2>1. q' \in [1..Len(b) -> Class] /\ Len(b) \in Nat
    BY DEF TypeOK, Class
  <2> QED BY <2>1
<1>2. TypeOK'
  BY <1>1 DEF TypeOK
<1>3. LoopOK' /\ SingleBlanks' /\ CappedButOne'
  BY DEF LoopOK, SingleBlanks, CappedButOne
<1> QED BY <1>2, <1>3

LEMMA StepInv == SanitizeInv /\ [Next]_vars => SanitizeInv'
<1> SUFFICES ASSUME SanitizeInv, [Next]_vars PROVE SanitizeInv'
  OBVIOUS
<1>1. CASE UNCHANGED vars
  BY <1>1 DEF vars, SanitizeInv, TypeOK, LoopOK, SingleBlanks, CappedButOne
<1>2. CASE Next
  BY <1>2, DropStep, BlankStep, RuneStep, EndStep, TrimStep, SecondStep DEF Next
<1> QED BY <1>1, <1>2

\* What the loop maintains, in every reachable state.
THEOREM Invariant == Spec => []SanitizeInv
BY InitInv, StepInv, PTL DEF Spec

\* A result passes the cap by at most one rune, and then its rune at the cap
\* is a blank: the whole extent of the missing test in WriteBlank.
THEOREM Capped == Spec => []CappedButOne
<1>1. SanitizeInv => CappedButOne
  BY DEF SanitizeInv
<1> QED BY Invariant, <1>1, PTL

\* No result has a leading, a doubled or a trailing blank.
THEOREM Blanks == Spec => []SingleBlanks
<1>1. SanitizeInv => SingleBlanks
  BY DEF SanitizeInv
<1> QED BY Invariant, <1>1, PTL

-----------------------------------------------------------------------------
(* Token boundaries: behind a word only runes that vanish have been read.  *)
Gap ==
    pc = "scan" /\ ~prevSpace =>
        \A r \in (b[Len(b)] + 1)..(i - 1) : ~Blank(q[r])

KeptInv == SanitizeInv /\ BoundariesKept /\ Gap

LEMMA InitKept == Init => KeptInv
<1> SUFFICES ASSUME Init PROVE KeptInv
  OBVIOUS
<1>1. i = 1 /\ Len(b) = 0 /\ prevSpace
  BY DEF Init
<1>2. BoundariesKept
  BY <1>1 DEF BoundariesKept
<1>3. Gap
  BY <1>1 DEF Gap
<1> QED BY <1>2, <1>3, InitInv DEF KeptInv

\* A rune that is neither a word nor a blank goes unseen.
LEMMA DropKeeps == KeptInv /\ DropRune => (BoundariesKept /\ Gap)'
<1> SUFFICES ASSUME KeptInv, DropRune PROVE (BoundariesKept /\ Gap)'
  OBVIOUS
<1> USE DEF KeptInv, SanitizeInv
<1>1. /\ UNCHANGED <<q, b, prevSpace, pc>> /\ i' = i + 1 /\ i \in Nat
      /\ ~Blank(q[i]) /\ q[i] # "word"
  BY DEF DropRune, Dropped, TypeOK
<1>2. BoundariesKept'
  BY <1>1 DEF BoundariesKept
<1>3. Gap'
  <2> SUFFICES ASSUME pc = "scan", ~prevSpace, NEW r \in (b[Len(b)] + 1)..i
               PROVE  ~Blank(q[r])
    BY <1>1 DEF Gap
  <2>1. b # <<>> /\ Len(b) \in Nat /\ b[Len(b)] \in Nat
    BY DEF LoopOK, TypeOK
  <2>2. r = i \/ r \in (b[Len(b)] + 1)..(i - 1)
    BY <1>1, <2>1
  <2> QED BY <1>1, <2>2 DEF Gap
<1> QED BY <1>2, <1>3

\* A blank, written or not, leaves nothing to say of the runes behind a word.
LEMMA BlankKeeps == KeptInv /\ WriteBlank => (BoundariesKept /\ Gap)'
<1> SUFFICES ASSUME KeptInv, WriteBlank PROVE (BoundariesKept /\ Gap)'
  OBVIOUS
<1> USE DEF KeptInv, SanitizeInv
<1>0. /\ UNCHANGED <<q, pass, pc>> /\ pc = "scan" /\ i <= Len(q)
      /\ Blank(q[i]) /\ q[i] # "word" /\ i' = i + 1 /\ i \in Nat /\ Len(q) \in Nat
      /\ prevSpace' = TRUE
  BY DEF WriteBlank, TypeOK, Blank
<1>1. Gap'
  BY <1>0 DEF Gap
<1>2. CASE prevSpace
  <2>1. b' = b
    BY <1>2 DEF WriteBlank
  <2> QED BY <1>0, <1>1, <2>1 DEF BoundariesKept
<1>3. CASE ~prevSpace
  <2>1. b' = Append(b, i)
    BY <1>3 DEF WriteBlank
  <2>2. /\ Len(b') = Len(b) + 1 /\ b'[Len(b) + 1] = i
        /\ \A p \in 1..Len(b) : b'[p] = b[p]
        /\ Len(b) \in Nat
    BY <1>0, <2>1, Written
  <2>3. \A r \in 1..(i' - 1) : q'[r] = "word" => Contains(b', r)
    <3> SUFFICES ASSUME NEW r \in 1..(i - 1), q[r] = "word" PROVE Contains(b', r)
      BY <1>0
    <3>1. Contains(b, r)
      BY DEF BoundariesKept
    <3>2. PICK p \in 1..Len(b) : b[p] = r
      BY <3>1 DEF Contains, ToSet, TypeOK
    <3>3. p \in 1..Len(b') /\ b'[p] = r
      BY <2>2, <3>2
    <3>4. b' \in Seq(1..Len(q))
      BY <1>0, <2>1, Written
    <3> QED BY <3>3, <3>4 DEF Contains, ToSet
  <2>4. ASSUME NEW p \in 1..(Len(b') - 1)
        PROVE  /\ b'[p] < b'[p + 1]
               /\ q'[b'[p]] = "word" /\ q'[b'[p + 1]] = "word" =>
                     \A r \in (b'[p] + 1)..(b'[p + 1] - 1) : q'[r] \notin {"space", "invalid"}
    <3>1. CASE p < Len(b)
      BY <1>0, <2>2, <2>4, <3>1 DEF BoundariesKept
    <3>2. CASE p = Len(b)
      BY <1>0, <2>2, <2>4, <3>2 DEF LoopOK
    <3> QED BY <2>2, <2>4, <3>1, <3>2
  <2> QED BY <1>1, <2>3, <2>4 DEF BoundariesKept
<1> QED BY <1>2, <1>3

\* A word joins the one before it exactly when Gap has no blank between them.
LEMMA RuneKeeps == KeptInv /\ WriteRune => (BoundariesKept /\ Gap)'
<1> SUFFICES ASSUME KeptInv, WriteRune PROVE (BoundariesKept /\ Gap)'
  OBVIOUS
<1> USE DEF KeptInv, SanitizeInv
<1>0. /\ UNCHANGED <<q, pass>> /\ pc = "scan" /\ i <= Len(q)
      /\ q[i] = "word" /\ i' = i + 1 /\ i \in Nat /\ Len(q) \in Nat
      /\ b' = Append(b, i)
  BY DEF WriteRune, TypeOK
<1>1. /\ b' \in Seq(1..Len(q)) /\ Len(b') = Len(b) + 1 /\ b'[Len(b) + 1] = i
      /\ \A p \in 1..Len(b) : b'[p] = b[p]
      /\ Len(b) \in Nat
  BY <1>0, Written
<1>2. \A r \in 1..(i' - 1) : q'[r] = "word" => Contains(b', r)
  <2> SUFFICES ASSUME NEW r \in 1..i, q[r] = "word" PROVE \E p \in 1..Len(b') : b'[p] = r
    BY <1>0, <1>1 DEF Contains, ToSet
  <2>1. CASE r = i
    BY <1>1, <2>1
  <2>2. CASE r # i
    <3>1. r \in 1..(i - 1)
      BY <1>0, <2>2
    <3>2. Contains(b, r)
      BY <3>1 DEF BoundariesKept
    <3>3. PICK p \in 1..Len(b) : b[p] = r
      BY <3>2 DEF Contains, ToSet, TypeOK
    <3>4. p \in 1..Len(b') /\ b'[p] = r
      BY <1>1, <3>3
    <3> QED BY <3>4
  <2> QED BY <2>1, <2>2
<1>3. ASSUME NEW p \in 1..(Len(b') - 1)
      PROVE  /\ b'[p] < b'[p + 1]
             /\ q'[b'[p]] = "word" /\ q'[b'[p + 1]] = "word" =>
                   \A r \in (b'[p] + 1)..(b'[p + 1] - 1) : q'[r] \notin {"space", "invalid"}
  <2>1. CASE p < Len(b)
    BY <1>0, <1>1, <1>3, <2>1 DEF BoundariesKept
  <2>2. CASE p = Len(b)
    <3>1. b'[p] = b[Len(b)] /\ b'[p + 1] = i /\ b[Len(b)] < i /\ b # <<>>
      BY <1>1, <1>3, <2>2 DEF LoopOK
    <3>2. ASSUME q[b[Len(b)]] = "word", NEW r \in (b[Len(b)] + 1)..(i - 1)
          PROVE  q[r] \notin {"space", "invalid"}
      <4>1. ~Blank(q[b[Len(b)]])
        BY <3>2 DEF Blank
      <4>2. ~prevSpace
        BY <1>0, <3>1, <4>1 DEF LoopOK
      <4>3. ~Blank(q[r])
        BY <1>0, <3>2, <4>2 DEF Gap
      <4> QED BY <4>3 DEF Blank
    <3> QED BY <1>0, <3>1, <3>2
  <2> QED BY <1>1, <1>3, <2>1, <2>2
<1>4. Gap'
  <2>1. b'[Len(b')] + 1 = i' /\ i' \in Nat
    BY <1>0, <1>1
  <2> QED BY <2>1 DEF Gap
<1> QED BY <1>2, <1>3, <1>4 DEF BoundariesKept

\* Trim takes blanks only.
LEMMA TrimKeeps == KeptInv /\ Trim => (BoundariesKept /\ Gap)'
<1> SUFFICES ASSUME KeptInv, Trim PROVE (BoundariesKept /\ Gap)'
  OBVIOUS
<1> USE DEF KeptInv, SanitizeInv
<1>0. UNCHANGED <<q, i>> /\ pc' = "done"
  BY DEF Trim
<1>1. PICK n \in 0..Len(b) : /\ \A p \in (n + 1)..Len(b) : Blank(q[b[p]])
                            /\ b' = SubSeq(b, 1, n)
  BY DEF Trim
<1>2. /\ b' \in Seq(1..Len(q)) /\ Len(b') = n /\ n \in Nat /\ Len(b) \in Nat
      /\ \A p \in 1..n : b'[p] = b[p]
  <2>1. b \in Seq(1..Len(q)) /\ 1 \in 1..(Len(b) + 1) /\ n \in (1 - 1)..Len(b)
    BY DEF TypeOK
  <2> QED BY <1>1, <2>1, SubSeqProperties
<1>3. \A r \in 1..(i' - 1) : q'[r] = "word" => Contains(b', r)
  <2> SUFFICES ASSUME NEW r \in 1..(i - 1), q[r] = "word"
               PROVE  \E p \in 1..Len(b') : b'[p] = r
    BY <1>0, <1>2 DEF Contains, ToSet
  <2>1. Contains(b, r)
    BY DEF BoundariesKept
  <2>2. PICK p \in 1..Len(b) : b[p] = r
    BY <2>1 DEF Contains, ToSet, TypeOK
  <2>3. p \notin (n + 1)..Len(b)
    BY <1>1, <2>2 DEF Blank
  <2>4. p \in 1..n
    BY <1>2, <2>2, <2>3
  <2> QED BY <1>2, <2>2, <2>4
<1>4. ASSUME NEW p \in 1..(Len(b') - 1)
      PROVE  /\ b'[p] < b'[p + 1]
             /\ q'[b'[p]] = "word" /\ q'[b'[p + 1]] = "word" =>
                   \A r \in (b'[p] + 1)..(b'[p + 1] - 1) : q'[r] \notin {"space", "invalid"}
  <2>1. p \in 1..(Len(b) - 1) /\ b'[p] = b[p] /\ b'[p + 1] = b[p + 1]
    BY <1>1, <1>2, <1>4
  <2> QED BY <1>0, <2>1 DEF BoundariesKept
<1>5. Gap'
  BY <1>0 DEF Gap
<1> QED BY <1>3, <1>4, <1>5 DEF BoundariesKept

LEMMA OtherKeeps ==
    KeptInv /\ (EndOfQuery \/ SecondPass \/ UNCHANGED vars) => (BoundariesKept /\ Gap)'
<1> SUFFICES ASSUME KeptInv, EndOfQuery \/ SecondPass \/ UNCHANGED vars
             PROVE  (BoundariesKept /\ Gap)'
  OBVIOUS
<1>1. CASE EndOfQuery
  BY <1>1 DEF KeptInv, EndOfQuery, BoundariesKept, Gap
<1>2. CASE SecondPass
  <2>1. i' = 1 /\ Len(b') = 0 /\ prevSpace'
    BY <1>2 DEF SecondPass
  <2> QED BY <2>1 DEF BoundariesKept, Gap
<1>3. CASE UNCHANGED vars
  BY <1>3 DEF KeptInv, vars, BoundariesKept, Gap
<1> QED BY <1>1, <1>2, <1>3

\* No word that was read is lost and none changes place, and two words touch in
\* the result only if no white space and no garbage was between them.
THEOREM Boundaries == Spec => []BoundariesKept
<1>1. KeptInv /\ [Next]_vars => KeptInv'
  <2> SUFFICES ASSUME KeptInv, [Next]_vars PROVE KeptInv'
    OBVIOUS
  <2>1. SanitizeInv'
    BY StepInv DEF KeptInv
  <2>2. (BoundariesKept /\ Gap)'
    BY DropKeeps, BlankKeeps, RuneKeeps, TrimKeeps, OtherKeeps DEF Next
  <2> QED BY <2>1, <2>2 DEF KeptInv
<1>2. KeptInv => BoundariesKept
  BY DEF KeptInv
<1> QED BY InitKept, <1>1, <1>2, PTL DEF Spec

-----------------------------------------------------------------------------
(* The second pass reads what the first wrote, and writes it again.        *)
CleanQuery ==
    /\ \A p \in 1..Len(q) : q[p] \in {"word", "space"}
    /\ Len(q) > 0 => q[1] = "word" /\ q[Len(q)] = "word"
    /\ \A p \in 1..(Len(q) - 1) : q[p] = "word" \/ q[p + 1] = "word"
    /\ Len(q) <= MaxQueryRunes + 1
    /\ Len(q) = MaxQueryRunes + 1 => q[MaxQueryRunes] # "word"

Rewritten ==
    /\ \A p \in 1..Len(b) : b[p] = p
    /\ pc = "scan" => Len(b) = i - 1
    /\ pc # "scan" => Len(b) = Len(q)

Again == pass = 2 => CleanQuery /\ Rewritten

FixInv == SanitizeInv /\ Again

\* The loop of the second pass finds nothing to drop, to merge or to cut off.
LEMMA LoopAgain ==
    ASSUME FixInv, pass = 2, DropRune \/ WriteBlank \/ WriteRune
    PROVE  Again'
<1> USE DEF FixInv, SanitizeInv, Again
<1>1. /\ UNCHANGED <<q, pass>> /\ pc = "scan" /\ i <= Len(q) /\ i' = i + 1
      /\ i \in Nat /\ i >= 1 /\ Len(q) \in Nat /\ Len(b) \in Nat /\ Len(b) = i - 1
  BY DEF DropRune, WriteBlank, WriteRune, TypeOK, Rewritten
<1>2. ~DropRune
  BY <1>1 DEF DropRune, Dropped, Blank, CleanQuery
<1>3. b' = Append(b, i)
  <2>1. CASE WriteRune
    BY <2>1 DEF WriteRune
  <2>2. CASE WriteBlank
    <3>1. q[i] # "word"
      BY <2>2 DEF WriteBlank, Blank
    <3>2. i # 1
      BY <1>1, <3>1 DEF CleanQuery
    <3>3. (i - 1) \in 1..(Len(q) - 1) /\ (i - 1) + 1 = i
      BY <1>1, <3>2
    <3>4. q[i - 1] = "word" \/ q[(i - 1) + 1] = "word"
      BY <3>3 DEF CleanQuery
    <3>5. q[i - 1] = "word"
      BY <3>1, <3>3, <3>4
    <3>6. b # <<>> /\ b[Len(b)] = i - 1
      BY <1>1, <3>2, <3>3 DEF Rewritten
    <3>7. ~prevSpace
      BY <1>1, <3>5, <3>6 DEF LoopOK, Blank
    <3> QED BY <2>2, <3>7 DEF WriteBlank
  <2> QED BY <1>2, <2>1, <2>2
<1>4. /\ Len(b') = Len(b) + 1 /\ b'[Len(b) + 1] = i
      /\ \A p \in 1..Len(b) : b'[p] = b[p]
  BY <1>1, <1>3, Written
<1>5. \A p \in 1..Len(b') : b'[p] = p
  BY <1>1, <1>4 DEF Rewritten
<1>6. pc' # "scan" => Len(b') = Len(q')
  <2> SUFFICES ASSUME pc' # "scan" PROVE i = Len(q)
    BY <1>1, <1>4
  <2>1. q[i] = "word" /\ i >= MaxQueryRunes
    BY <1>1, <1>2 DEF WriteBlank, WriteRune, CapReached
  <2>2. i # MaxQueryRunes \/ Len(q) # MaxQueryRunes + 1
    BY <2>1 DEF CleanQuery
  <2>3. Len(q) <= MaxQueryRunes + 1
    BY DEF CleanQuery
  <2> QED BY <1>1, <2>1, <2>2, <2>3
<1>7. CleanQuery'
  BY <1>1 DEF CleanQuery
<1> QED BY <1>1, <1>4, <1>5, <1>6, <1>7 DEF Rewritten

LEMMA EndAgain == ASSUME FixInv, pass = 2, EndOfQuery PROVE Again'
<1> USE DEF FixInv, SanitizeInv, Again, EndOfQuery
<1>1. i > Len(q) /\ i <= Len(q) + 1 /\ i \in Nat /\ Len(q) \in Nat
  BY DEF TypeOK
<1>2. Len(b) = i - 1
  BY DEF Rewritten
<1>3. Rewritten'
  BY <1>1, <1>2 DEF Rewritten
<1> QED BY <1>3 DEF CleanQuery

LEMMA TrimAgain == ASSUME FixInv, pass = 2, Trim PROVE Again'
<1> USE DEF FixInv, SanitizeInv, Again
<1>0. UNCHANGED <<q, i, pass>> /\ pc = "trim" /\ pc' = "done"
  BY DEF Trim
<1>1. PICK n \in 0..Len(b) : /\ \A p \in (n + 1)..Len(b) : Blank(q[b[p]])
                            /\ b' = SubSeq(b, 1, n)
  BY DEF Trim
<1>2. /\ Len(b') = n /\ n \in Nat /\ Len(b) \in Nat
      /\ \A p \in 1..n : b'[p] = b[p]
  <2>1. b \in Seq(1..Len(q)) /\ 1 \in 1..(Len(b) + 1) /\ n \in (1 - 1)..Len(b)
    BY DEF TypeOK
  <2> QED BY <1>1, <2>1, SubSeqProperties
<1>3. n = Len(b)
  <2> SUFFICES ASSUME n < Len(b) PROVE FALSE
    BY <1>1, <1>2
  <2>1. Len(b) \in (n + 1)..Len(b) /\ Len(b) \in 1..Len(b)
    BY <1>2
  <2>2. b[Len(b)] = Len(b) /\ Len(b) = Len(q)
    BY <1>0, <2>1 DEF Rewritten
  <2>3. q[Len(q)] = "word"
    BY <1>2, <2>1, <2>2 DEF CleanQuery
  <2> QED BY <1>1, <2>1, <2>2, <2>3 DEF Blank
<1>4. Rewritten'
  BY <1>0, <1>2, <1>3 DEF Rewritten
<1> QED BY <1>0, <1>4 DEF CleanQuery

\* The bounds of the first pass make its result a clean query.
LEMMA SecondAgain == ASSUME FixInv, SecondPass PROVE Again'
<1> USE DEF FixInv, SanitizeInv, SecondPass
<1>0. Len(b) \in Nat /\ DOMAIN b = 1..Len(b)
  BY DEF TypeOK
<1>1. /\ Len(q') = Len(b) /\ DOMAIN q' = 1..Len(b)
      /\ \A p \in 1..Len(b) : q'[p] = IF q[b[p]] = "word" THEN "word" ELSE "space"
  BY <1>0
<1>2. Len(b) > 0 => b # <<>>
  OBVIOUS
<1>3. Len(b) = MaxQueryRunes + 1 => q'[MaxQueryRunes] # "word"
  BY <1>0, <1>1 DEF CappedButOne
<1>4. CleanQuery'
  <2>1. \A p \in 1..Len(q') : q'[p] \in {"word", "space"}
    BY <1>1
  <2>2. Len(q') > 0 => q'[1] = "word" /\ q'[Len(q')] = "word"
    BY <1>0, <1>1, <1>2 DEF SingleBlanks
  <2>3. ASSUME NEW p \in 1..(Len(q') - 1) PROVE q'[p] = "word" \/ q'[p + 1] = "word"
    <3>1. p \in 1..Len(b) /\ p + 1 \in 1..Len(b) /\ p \in 1..(Len(b) - 1)
      BY <1>0, <1>1
    <3> QED BY <1>1, <3>1 DEF SingleBlanks
  <2>4. Len(q') <= MaxQueryRunes + 1
    BY <1>1 DEF CappedButOne
  <2> QED BY <1>1, <1>3, <2>1, <2>2, <2>3, <2>4 DEF CleanQuery
<1>5. Rewritten'
  BY DEF Rewritten
<1> QED BY <1>4, <1>5 DEF Again

\* Sanitising a result changes nothing, whether or not the cap had cut it.
THEOREM Idempotent == Spec => []FixedPoint
<1>1. Init => FixInv
  BY InitInv DEF Init, FixInv, Again
<1>2. FixInv /\ [Next]_vars => FixInv'
  <2> SUFFICES ASSUME FixInv, [Next]_vars PROVE FixInv'
    OBVIOUS
  <2>1. SanitizeInv'
    BY StepInv DEF FixInv
  <2>2. CASE SecondPass
    BY <2>1, <2>2, SecondAgain DEF FixInv
  <2>3. CASE UNCHANGED vars
    BY <2>1, <2>3 DEF FixInv, vars, Again, CleanQuery, Rewritten
  <2>4. CASE pass = 2 /\ (DropRune \/ WriteBlank \/ WriteRune \/ EndOfQuery \/ Trim)
    BY <2>1, <2>4, LoopAgain, EndAgain, TrimAgain DEF FixInv
  <2>5. CASE pass = 1 /\ (DropRune \/ WriteBlank \/ WriteRune \/ EndOfQuery \/ Trim)
    BY <2>1, <2>5 DEF FixInv, Again, DropRune, WriteBlank, WriteRune, EndOfQuery, Trim
  <2>6. pass \in {1, 2}
    BY DEF FixInv, SanitizeInv, TypeOK
  <2> QED BY <2>2, <2>3, <2>4, <2>5, <2>6 DEF Next
<1>3. FixInv => FixedPoint
  <2> SUFFICES ASSUME FixInv, pass = 2, pc = "done" PROVE b = [p \in 1..Len(q) |-> p]
    BY DEF FixedPoint
  <2>1. /\ Len(b) = Len(q) /\ \A p \in 1..Len(b) : b[p] = p
        /\ b \in Seq(1..Len(q))
    BY DEF FixInv, SanitizeInv, Again, Rewritten, TypeOK
  <2>2. b \in [1..Len(b) -> 1..Len(q)]
    BY <2>1
  <2> QED BY <2>1, <2>2
<1> QED BY <1>1, <1>2, <1>3, PTL DEF Spec
=============================================================================
