----------------------------- MODULE ListPages -----------------------------
(***************************************************************************)
(* GET /v1/docs: a client walks the list of live documents page by page    *)
(* (handleListDocs, Cursor, ListDocs) while documents come and go.         *)
(*                                                                         *)
(* docs.created_at is the start of the indexing transaction, which commits *)
(* later: a document can become visible with a date older than documents   *)
(* already listed, and two documents can have the same date.               *)
(***************************************************************************)
EXTENDS Integers, Sequences, FiniteSets, SequencesExt

CONSTANTS
    Doc,        \* ids: numbers, for the order of the uuids
    Limit,      \* page size, 1..200 in handleListDocs
    MaxTime     \* bound: instants at which transactions start

ASSUME ListAssumption ==
    /\ Doc \subseteq Nat \ {0} /\ IsFiniteSet(Doc)
    /\ Limit \in Nat \ {0} /\ MaxTime \in Nat \ {0}

VARIABLES
    now,
    createdAt,  \* created_at of each document, 0 before its transaction starts
    live,       \* committed and not deleted
    gone,       \* deleted, or never to be committed
    cursor,     \* next_cursor: <<created_at, id>>, FirstPage or NoCursor
    listed,     \* history: the items of all pages so far
    stable      \* history: documents live since the walk began

lvars == <<now, createdAt, live, gone, cursor, listed, stable>>

\* An absent cursor decodes to the zero Cursor, whose id is not a uuid: the
\* first page.  NoCursor is a page without next_cursor: the walk is over.
FirstPage == <<0, 0>>
NoCursor  == <<-1, 0>>
Key(d)    == <<createdAt[d], d>>

\* ORDER BY created_at DESC, id DESC
Newer(a, b) == a[1] > b[1] \/ (a[1] = b[1] /\ a[2] > b[2])

Descending(rows) == \A i, j \in DOMAIN rows : i < j => Newer(rows[i], rows[j])

LTypeOK ==
    /\ now \in 1..MaxTime
    /\ createdAt \in [Doc -> 0..MaxTime]
    /\ live \subseteq {d \in Doc : createdAt[d] > 0} \ gone
    /\ gone \subseteq Doc
    /\ cursor \in ((1..MaxTime) \X Doc) \union {FirstPage, NoCursor}
    /\ listed \in Seq((1..MaxTime) \X Doc)
    /\ stable \subseteq live

LInit ==
    /\ now = 1
    /\ createdAt = [d \in Doc |-> 0]
    /\ live = {} /\ gone = {}
    /\ cursor = NoCursor
    /\ listed = <<>> /\ stable = {}

Tick ==
    /\ now < MaxTime /\ now' = now + 1
    /\ UNCHANGED <<createdAt, live, gone, cursor, listed, stable>>

BeginIndex(d) ==
    /\ createdAt[d] = 0
    /\ createdAt' = [createdAt EXCEPT ![d] = now]
    /\ UNCHANGED <<now, live, gone, cursor, listed, stable>>

CommitIndex(d) ==
    /\ createdAt[d] > 0 /\ d \notin live \union gone
    /\ live' = live \union {d}
    /\ UNCHANGED <<now, createdAt, gone, cursor, listed, stable>>

\* A DELETE, or a rollback of the indexing transaction.
Disappear(d) ==
    /\ createdAt[d] > 0 /\ d \notin gone
    /\ gone' = gone \union {d}
    /\ live' = live \ {d}
    /\ stable' = stable \ {d}
    /\ UNCHANGED <<now, createdAt, cursor, listed>>

\* The client asks for the first page.
StartWalk ==
    /\ cursor = NoCursor
    /\ cursor' = FirstPage
    /\ listed' = <<>>
    /\ stable' = live
    /\ UNCHANGED <<now, createdAt, live, gone>>

\* mutants: the last row is listed again; rows of the cursor's instant are lost
NotAfter(d)      == cursor = FirstPage \/ ~Newer(Key(d), cursor)
StrictlyOlder(d) == cursor = FirstPage \/ createdAt[d] < cursor[1]

\* WHERE (created_at, id) < ($1, $2), unless the id is uuid.Nil.
AfterCursor(d) == cursor = FirstPage \/ Newer(cursor, Key(d))

Matching == {Key(d) : d \in {e \in live : AfterCursor(e)}}

\* The rows in order, and the first Limit of them.
Ordered    == {rows \in SetToSeqs(Matching) : Descending(rows)}
Page(rows) == SubSeq(rows, 1, IF Len(rows) < Limit THEN Len(rows) ELSE Limit)

\* mutant: an empty page still carries the cursor of the previous one
CursorKept(page) == IF page # <<>> THEN page[Len(page)] ELSE cursor

\* next_cursor is the last row of a full page.
NextCursor(page) == IF Len(page) = Limit THEN page[Len(page)] ELSE NoCursor

FetchPage ==
    /\ cursor # NoCursor
    /\ \E rows \in Ordered :
          /\ listed' = listed \o Page(rows)
          /\ cursor' = NextCursor(Page(rows))
    /\ UNCHANGED <<now, createdAt, live, gone, stable>>

LNext ==
    \/ Tick \/ StartWalk \/ FetchPage
    \/ \E d \in Doc : BeginIndex(d) \/ CommitIndex(d) \/ Disappear(d)

LSpec == LInit /\ [][LNext]_lvars
LFairSpec == LSpec /\ WF_lvars(FetchPage)
-----------------------------------------------------------------------------
\* A walk never lists a document twice and never goes back to a newer one,
\* whatever is indexed and deleted between its pages.
StrictlyDescending == Descending(listed)

\* When the last page has been answered, every document that was live all
\* along has been listed: deletions do not shift rows across a page boundary,
\* and late commits do not hide others.
NoneSkipped ==
    cursor = NoCursor => \A d \in stable : Contains(listed, Key(d))

\* Every walk ends, although documents are indexed meanwhile.
WalkEnds == cursor # NoCursor ~> cursor = NoCursor
=============================================================================
