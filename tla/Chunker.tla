------------------------------ MODULE Chunker ------------------------------
(***************************************************************************)
(* chunker.Split and preferBoundary, loop by loop.  A body is a function   *)
(* from positions 0..len-1 to the class of the rune there:                 *)
(*     "word"  no boundary           "stop"   . ! or ?                     *)
(*     "blank" space, tab, return    "line"   newline                      *)
(*     "nbsp"  white space to TrimSpace that isSpace does not know         *)
(* A chunk is the pair <<from, to>> of the piece it is cut from; trimming  *)
(* takes white space off its ends.                                         *)
(***************************************************************************)
EXTENDS Integers, Sequences

CONSTANTS
    MaxLen,     \* bound: runes of a body
    RawTargets, RawMaxes, RawOverlaps,  \* values of Options given by callers
    DefaultTarget, DefaultMax           \* DefaultTargetChars, DefaultMaxChars

ASSUME ChunkerAssumption ==
    /\ MaxLen \in Nat
    /\ RawTargets \subseteq Int /\ RawMaxes \subseteq Int
    /\ RawOverlaps \subseteq Int
    /\ DefaultTarget \in Nat \ {0} /\ DefaultMax \in Nat \ {0}

Class   == {"word", "stop", "blank", "line", "nbsp"}
IsSpace(c) == c \in {"blank", "line"}
IsWhite(c) == c \in {"blank", "line", "nbsp"}   \* strings.TrimSpace
IsStop(c)  == c \in {"stop", "line"}

VARIABLES
    text, len,                  \* the body, after TrimSpace
    target, max, overlap,       \* opts, after the defaults
    pc, cursor, end, hardEnd, i,
    out                         \* the chunks; Index is the position

input == <<text, len, target, max, overlap>>
vars  == <<input, pc, cursor, end, hardEnd, i, out>>

Smaller(a, b) == IF a < b THEN a ELSE b

\* mutant: the overlap is not clamped
OverlapUnclamped(o, t) == IF o < 0 THEN 0 ELSE o

\* mutant: a target of 0 is kept
ZeroTarget(t) == IF t < 0 THEN DefaultTarget ELSE t

\* mutant: the maximum may stay below the target
MaxAlone(m, t) == IF m <= 0 THEN DefaultMax ELSE m

\* The clamps at the head of Split.
ClampTarget(t)     == IF t <= 0 THEN DefaultTarget ELSE t
ClampMax(m, t)     == LET d == IF m <= 0 THEN DefaultMax ELSE m
                      IN  IF d < t THEN t ELSE d
ClampOverlap(o, t) == IF o < 0 THEN 0 ELSE IF o >= t THEN t \div 4 ELSE o

Init ==
    /\ len \in 0..MaxLen
    /\ text \in [0..(len - 1) -> Class]
    /\ len > 0 => ~IsWhite(text[0]) /\ ~IsWhite(text[len - 1])
    /\ \E t \in RawTargets, m \in RawMaxes, o \in RawOverlaps :
          /\ target = ClampTarget(t)
          /\ max = ClampMax(m, ClampTarget(t))
          /\ overlap = ClampOverlap(o, ClampTarget(t))
    /\ pc = "start"
    /\ cursor = 0 /\ end = 0 /\ hardEnd = 0 /\ i = 0
    /\ out = <<>>

\* A body that is empty or fits is one chunk.
Start ==
    /\ pc = "start"
    /\ IF len <= max THEN out' = <<<<0, len>>>> /\ pc' = "done"
                     ELSE pc' = "top" /\ UNCHANGED out
    /\ UNCHANGED <<input, cursor, end, hardEnd, i>>

\* The head of the loop, and the first test of preferBoundary.
Top ==
    /\ pc = "top"
    /\ end' = Smaller(cursor + target, len)
    /\ hardEnd' = Smaller(cursor + max, len)
    /\ i' = end'
    /\ pc' = IF end' >= len THEN "emit" ELSE "sentence"
    /\ UNCHANGED <<input, cursor, out>>

\* Look for the end of a sentence.
ScanSentence ==
    /\ pc = "sentence"
    /\ IF i < hardEnd
       THEN i' = i + 1 /\ pc' = IF IsStop(text[i]) THEN "trail" ELSE "sentence"
       ELSE i' = end /\ pc' = "space"
    /\ UNCHANGED <<input, cursor, end, hardEnd, out>>

\* mutant: trailing white space is taken without looking at hardEnd
TrailTooFar ==
    /\ pc = "trail"
    /\ IF i < len /\ IsSpace(text[i])
       THEN i' = i + 1 /\ UNCHANGED <<pc, end>>
       ELSE end' = i /\ pc' = "emit" /\ UNCHANGED i
    /\ UNCHANGED <<input, cursor, hardEnd, out>>

\* Take the white space after it.
SkipTrailing ==
    /\ pc = "trail"
    /\ IF i < hardEnd /\ IsSpace(text[i])
       THEN i' = i + 1 /\ UNCHANGED <<pc, end>>
       ELSE end' = i /\ pc' = "emit" /\ UNCHANGED i
    /\ UNCHANGED <<input, cursor, hardEnd, out>>

\* Otherwise look for white space, otherwise cut at the target.
ScanSpace ==
    /\ pc = "space"
    /\ IF i < hardEnd /\ ~IsSpace(text[i])
       THEN i' = i + 1 /\ UNCHANGED <<pc, end>>
       ELSE /\ end' = IF i < hardEnd THEN i ELSE end
            /\ pc' = "emit" /\ UNCHANGED i
    /\ UNCHANGED <<input, cursor, hardEnd, out>>

\* mutant: the next piece starts one rune late
NextPastEnd == IF end - overlap <= cursor THEN end + 1 ELSE end - overlap + 1

NextCursor == IF end - overlap <= cursor THEN end ELSE end - overlap

\* The pieces once the current one is appended, unless it is blank.
Pieces == IF \E p \in cursor..(end - 1) : ~IsWhite(text[p])
          THEN Append(out, <<cursor, end>>) ELSE out

\* Go on where the next piece overlaps this one.  At the end of the body a
\* result without pieces would be the body as one chunk.
Emit ==
    /\ pc = "emit"
    /\ IF end >= len
       THEN /\ out' = IF Pieces = <<>> THEN <<<<0, len>>>> ELSE Pieces
            /\ pc' = "done" /\ UNCHANGED cursor
       ELSE out' = Pieces /\ pc' = "top" /\ cursor' = NextCursor
    /\ UNCHANGED <<input, end, hardEnd, i>>

Next == Start \/ Top \/ ScanSentence \/ SkipTrailing \/ ScanSpace \/ Emit
Spec == Init /\ [][Next]_vars
FairSpec == Spec /\ WF_vars(Next)
-----------------------------------------------------------------------------
TypeOK ==
    /\ len \in Nat /\ text \in [0..(len - 1) -> Class]
    /\ target \in Nat \ {0} /\ max \in Nat /\ overlap \in Nat
    /\ pc \in {"start", "top", "sentence", "trail", "space", "emit", "done"}
    /\ cursor \in Nat /\ end \in Nat /\ hardEnd \in Nat /\ i \in Nat
    /\ out \in Seq(Nat \X Nat)

\* No chunk is longer than MaxChars, whatever boundary preferBoundary walked
\* to, and none is empty unless the body is.
ChunksBounded ==
    \A c \in DOMAIN out :
        /\ out[c][1] <= out[c][2] /\ out[c][2] <= len
        /\ out[c][2] - out[c][1] <= max
        /\ len > 0 => out[c][1] < out[c][2]

\* Every rune that is not white space is in some chunk: cutting at boundaries,
\* trimming, dropping blank pieces and overlapping loses no text; and an empty
\* body yields a chunk too, so that every document has a row.
NothingLost ==
    pc = "done" => out # <<>> /\ \A p \in 0..(len - 1) :
        IsWhite(text[p]) \/ \E c \in DOMAIN out : out[c][1] <= p /\ p < out[c][2]

\* Chunks are in the order of the text, each starts and ends after the one
\* before it, and repeats no more than Overlap of it.
ChunksOrdered ==
    \A c, d \in DOMAIN out : c < d =>
        /\ out[c][1] < out[d][1] /\ out[c][2] < out[d][2]
        /\ out[d][1] >= out[c][2] - overlap

\* The overlap never moves the cursor back or keeps it in place.
Terminates == <>(pc = "done")

-----------------------------------------------------------------------------
(* The inductive invariant.                                                *)
OptionsOK == target <= max /\ overlap < target /\ (len > 0 => ~IsWhite(text[len - 1]))

Covered(n) ==
    \A p \in 0..(n - 1) : p < len =>
        IsWhite(text[p]) \/ \E c \in DOMAIN out : out[c][1] <= p /\ p < out[c][2]

\* Where the loop stands in the body, relative to the chunks it has cut.
LoopOK ==
    /\ pc = "start" => out = <<>> /\ cursor = 0
    /\ pc \notin {"start", "done"} => cursor < len /\ len > max /\ Covered(cursor)
    /\ pc \in {"sentence", "trail", "space", "emit"} =>
          /\ hardEnd <= len /\ hardEnd <= cursor + max
          /\ end <= hardEnd /\ end >= Smaller(cursor + target, len)
    /\ pc \in {"sentence", "trail", "space"} => end <= i /\ i <= hardEnd
    /\ pc \in {"top", "sentence", "trail", "space", "emit"} =>
          \A c \in DOMAIN out :
              /\ out[c][1] < cursor /\ out[c][2] < cursor + target
              /\ out[c][2] < len /\ cursor >= out[c][2] - overlap
    /\ pc = "done" => Covered(len) /\ out # <<>>

SplitInv == TypeOK /\ OptionsOK /\ LoopOK /\ ChunksBounded /\ ChunksOrdered
=============================================================================
