------------------------------ MODULE Sanitize ------------------------------
(***************************************************************************)
(* SanitizeBM25Query, rune by rune.  A query is a sequence of classes:     *)
(*     "word"     kept                "space"   unicode.IsSpace            *)
(*     "control"  other C0/C1 runes   "format"  isZeroWidth                *)
(*     "invalid"  a byte that is not UTF-8                                 *)
(* The result is the sequence of the positions written: the rune itself    *)
(* for a word, one ASCII space for a blank.  A second pass over the result *)
(* shows whether the function is a fixed point.                            *)
(***************************************************************************)
EXTENDS Integers, Sequences, SequencesExt

CONSTANTS
    MaxQueryRunes,
    MaxInput        \* bound: runes of a query

ASSUME SanitizeAssumption ==
    MaxQueryRunes \in Nat \ {0} /\ MaxInput \in Nat

Class == {"word", "space", "control", "format", "invalid"}

VARIABLES
    q,          \* the query
    i,          \* the rune to decode next
    b,          \* the positions written so far
    prevSpace,
    pass,       \* 1, or 2 when the result is sanitised again
    pc          \* "scan", "trim" or "done"

vars == <<q, i, b, prevSpace, pass, pc>>

\* mutant: invalid bytes are dropped without a trace
OnlySpace(c) == c = "space"

\* Both become one space, unless one precedes.
Blank(c)   == c \in {"space", "invalid"}
Dropped(c) == ~Blank(c) /\ c # "word"

Init ==
    /\ q \in BoundedSeq(Class, MaxInput)
    /\ i = 1 /\ b = <<>> /\ prevSpace = TRUE
    /\ pass = 1 /\ pc = "scan"

\* mutant: a dropped rune ends a run of blanks
DropAndReset ==
    /\ pc = "scan" /\ i <= Len(q) /\ Dropped(q[i])
    /\ i' = i + 1 /\ prevSpace' = (b = <<>>)
    /\ UNCHANGED <<q, b, pass, pc>>

DropRune ==
    /\ pc = "scan" /\ i <= Len(q) /\ Dropped(q[i])
    /\ i' = i + 1
    /\ UNCHANGED <<q, b, prevSpace, pass, pc>>

\* The runes counter is Len(b); this write does not test it.
WriteBlank ==
    /\ pc = "scan" /\ i <= Len(q) /\ Blank(q[i])
    /\ i' = i + 1
    /\ IF prevSpace THEN UNCHANGED <<b, prevSpace>>
                    ELSE b' = Append(b, i) /\ prevSpace' = TRUE
    /\ UNCHANGED <<q, pass, pc>>

CapReached(n) == n >= MaxQueryRunes

WriteRune ==
    /\ pc = "scan" /\ i <= Len(q) /\ q[i] = "word"
    /\ i' = i + 1
    /\ b' = Append(b, i) /\ prevSpace' = FALSE
    /\ pc' = IF CapReached(Len(b) + 1) THEN "trim" ELSE "scan"
    /\ UNCHANGED <<q, pass>>

EndOfQuery ==
    /\ pc = "scan" /\ i > Len(q)
    /\ pc' = "trim"
    /\ UNCHANGED <<q, i, b, prevSpace, pass>>

\* mutant: the result is not trimmed
NoTrim ==
    /\ pc = "trim" /\ pc' = "done"
    /\ UNCHANGED <<q, i, b, prevSpace, pass>>

\* strings.TrimRight: all trailing blanks go.
Trim ==
    /\ pc = "trim"
    /\ \E n \in 0..Len(b) :
          /\ n > 0 => q[b[n]] = "word"
          /\ \A p \in (n + 1)..Len(b) : Blank(q[b[p]])
          /\ b' = SubSeq(b, 1, n)
    /\ pc' = "done"
    /\ UNCHANGED <<q, i, prevSpace, pass>>

\* The result is sanitised again.
SecondPass ==
    /\ pc = "done" /\ pass = 1
    /\ q' = [p \in DOMAIN b |-> IF q[b[p]] = "word" THEN "word" ELSE "space"]
    /\ i' = 1 /\ b' = <<>> /\ prevSpace' = TRUE
    /\ pass' = 2 /\ pc' = "scan"

Next == DropRune \/ WriteBlank \/ WriteRune \/ EndOfQuery \/ Trim \/ SecondPass
Spec == Init /\ [][Next]_vars
-----------------------------------------------------------------------------
TypeOK ==
    /\ q \in Seq(Class) /\ i \in 1..(Len(q) + 1)
    /\ b \in Seq(1..Len(q))
    /\ prevSpace \in BOOLEAN /\ pass \in {1, 2}
    /\ pc \in {"scan", "trim", "done"}

\* No result starts with a blank or has two in a row, and none ends with one.
SingleBlanks ==
    /\ b # <<>> => q[b[1]] = "word"
    /\ \A p \in 1..(Len(b) - 1) : q[b[p]] = "word" \/ q[b[p + 1]] = "word"
    /\ pc = "done" /\ b # <<>> => q[b[Len(b)]] = "word"

\* What the code does about the cap: a blank is written without testing it, so
\* one word more may follow.
CappedButOne ==
    /\ Len(b) <= MaxQueryRunes + 1
    /\ Len(b) = MaxQueryRunes + 1 => ~(q[b[MaxQueryRunes]] = "word")

\* No word read is lost, the order is kept, and two words are apart in the
\* result exactly when white space or garbage keeps them apart in the query:
\* the ts parser sees the token boundaries of the client.
BoundariesKept ==
  /\ \A r \in 1..(i - 1) : q[r] = "word" => Contains(b, r)
  /\ \A p \in 1..(Len(b) - 1) :
        /\ b[p] < b[p + 1]
        /\ q[b[p]] = "word" /\ q[b[p + 1]] = "word" =>
              \A r \in (b[p] + 1)..(b[p + 1] - 1) : q[r] \notin {"space", "invalid"}

\* What a comment and two tests say, and the code does not do: aa b against a
\* cap of three gives four runes.
\* sanitize.go: "truncate to MaxQueryRunes runes".
Truncated == pc = "done" => Len(b) <= MaxQueryRunes

\* Sanitising a result changes nothing, cut or not.
FixedPoint == pass = 2 /\ pc = "done" => b = [p \in 1..Len(q) |-> p]
-----------------------------------------------------------------------------
(* What the loop maintains, from which the bounds follow.                  *)
LoopOK ==
    /\ \A p \in 1..Len(b) : b[p] < i /\ (q[b[p]] = "word" \/ Blank(q[b[p]]))
    /\ pc = "scan" => (prevSpace <=> (b = <<>> \/ Blank(q[b[Len(b)]])))
    /\ pc = "scan" => Len(b) <= MaxQueryRunes
    /\ pc = "scan" /\ Len(b) = MaxQueryRunes => Blank(q[b[Len(b)]])

SanitizeInv == TypeOK /\ LoopOK /\ SingleBlanks /\ CappedButOne
=============================================================================
