----------------------------- MODULE PagedLists -----------------------------
(***************************************************************************)
(* A client that walks a list page by page while the rows of the list      *)
(* change.  Each list of the program is a record: what its rows are        *)
(* ordered by, in which directions, how its cursor is checked, from how    *)
(* many tables it is read, and how its rows may change meanwhile.          *)
(*                                                                         *)
(* Times are kept by the database in microseconds; a cursor names the last *)
(* row of a page with its time in milliseconds.  Checking a cursor and     *)
(* reading each table are statements of their own, outside a transaction.  *)
(***************************************************************************)
EXTENDS Integers, Sequences, FiniteSets, FiniteSetsExt, SequencesExt

CONSTANTS
    Rows,             \* ids of rows, as numbers in the order of the database; 0 is none
    MaxPlace,         \* bound: times are 0..MaxPlace, in microseconds
    MicrosPerMilli,   \* microseconds the cursor cannot tell apart
    MaxLimit,         \* bound: rows a page is asked to hold
    MaxChanges        \* bound: changes of rows during a walk

ASSUME PagingAssumptions ==
    /\ Rows \subseteq Nat \ {0} /\ IsFiniteSet(Rows)
    /\ MaxPlace \in Nat /\ MicrosPerMilli \in Nat \ {0}
    /\ MaxLimit \in Nat \ {0} /\ MaxChanges \in Nat

-----------------------------------------------------------------------------
(* The lists. *)

Newest == {"NEWEST"}
Oldest == {"OLDEST"}
EitherWay == Newest \union Oldest

\* by: CREATED (set once), SEQUENCE (given out in order), NAME, START (a Quest's
\* start, which an edit moves; whole milliseconds) or ACTIVITY (the latest
\* visible message).  check: what the cursor must find, a row of the TABLE, a
\* row that is still LISTED, or nothing, its VALUE being the boundary.
List(by, sorts, check, sources, changes) ==
    [by |-> by, sorts |-> sorts, check |-> check, sources |-> sources, changes |-> changes]
Fixed == {"INSERT"}                          \* rows are added and stay
Filtered == Fixed \union {"LEAVE", "ENTER"}  \* a row may stop matching the filter

AdminActivity       == List("CREATED", EitherWay, "TABLE", 1, Fixed)
LedgerTransactions  == List("CREATED", Newest, "TABLE", 1, Fixed)
WorkExperiences     == List("CREATED", Newest, "TABLE", 1, Fixed \union {"DELETE"})
Certificates        == List("CREATED", Newest, "TABLE", 1, Fixed \union {"DELETE"})
PenaltyHistory      == List("CREATED", Newest, "TABLE", 1, Fixed)
AdminMembers        == List("CREATED", Newest, "TABLE", 1, Filtered)
MemberHistory       == List("CREATED", Newest, "LISTED", 2, Filtered)
MemberReviews       == List("CREATED", Newest, "LISTED", 1, Filtered)
ProfileReviews      == List("CREATED", Newest, "TABLE", 1, Filtered)
AdminReports        == List("CREATED", EitherWay, "TABLE", 2, Filtered)
OwnMessageReports   == List("CREATED", Newest, "TABLE", 1, Fixed)
AdminDisputeCases   == List("CREATED", EitherWay, "TABLE", 1, Filtered)
AdminQuests         == List("CREATED", EitherWay, "TABLE", 1, Filtered)
AdminWallets        == List("CREATED", Newest, "TABLE", 1, Filtered)
AdminTopUps         == List("CREATED", Newest, "TABLE", 1, Filtered)
AdminPayouts        == List("CREATED", EitherWay, "TABLE", 1, Filtered)
ConductEvidence     == List("SEQUENCE", Oldest, "TABLE", 1, Fixed)
WorkMessages        == List("SEQUENCE", EitherWay, "LISTED", 1, Filtered)
InquiryMessages     == List("SEQUENCE", EitherWay, "LISTED", 1, Filtered)
QuestBoard          == List("START", Oldest, "VALUE", 1, Filtered \union {"MOVE"})
OwnQuests           == List("START", Oldest, "VALUE", 1, Fixed \union {"MOVE"})
QuestBoardV2        == List("START", Oldest, "VALUE", 1, Filtered \union {"MOVE"})
OwnQuestsV2         == List("START", Oldest, "VALUE", 1, Fixed \union {"MOVE"})
Tags                == List("NAME", Oldest, "VALUE", 1, Fixed \union {"DELETE"})
WorkConversations   == List("ACTIVITY", Newest, "MEMBER", 1, Filtered \union {"BUMP", "FALL"})
CandidateInquiries  == List("ACTIVITY", Newest, "MEMBER", 1, Filtered \union {"BUMP", "FALL"})

Lists ==
    {AdminActivity, LedgerTransactions, WorkExperiences, Certificates, PenaltyHistory,
     AdminMembers, MemberHistory, MemberReviews, ProfileReviews, AdminReports,
     OwnMessageReports, AdminDisputeCases, AdminQuests, AdminWallets, AdminTopUps,
     AdminPayouts, ConductEvidence, WorkMessages, InquiryMessages, QuestBoard, OwnQuests,
     QuestBoardV2, OwnQuestsV2, Tags, WorkConversations, CandidateInquiries}

-----------------------------------------------------------------------------
VARIABLES
    list,     \* the list that is walked, and in which direction
    sort,
    limit,    \* rows the client asks a page to hold
    row,      \* row[r]: its place in the order, and whether the list has it
    walk,     \* the client's walk: see Walk
    steady,   \* rows listed since the walk began and not changed
    shown,    \* rows shown to the client, and those shown more than once
    again,
    astray,   \* the row the cursor names was lost while it was in use
    changes

pagingVars == <<list, sort, limit, row, walk, steady, shown, again, astray, changes>>

Row == [at : 0..MaxPlace, state : {"ABSENT", "LISTED", "UNLISTED", "DELETED"}]
Stored == {"LISTED", "UNLISTED"}
Listed == {r \in Rows : row[r].state = "LISTED"}
SourceOf(r) == 1 + (r % list.sources)

\* A row's key: its place, and its id where places are equal.
KeyOf(r) == <<row[r].at, r>>
PlaceKeys == (0..MaxPlace) \X Rows
Smaller(k, l) == k[1] < l[1] \/ (k[1] = l[1] /\ k[2] < l[2])
After(k, l) == IF sort = "NEWEST" THEN Smaller(k, l) ELSE Smaller(l, k)

\* What a cursor keeps of a place.
Milli(at) == IF list.by \in {"CREATED", "ACTIVITY"} THEN at \div MicrosPerMilli ELSE at

NoCursor == [at |-> 0, id |-> 0]
Walk ==
    [state : {"READING", "SUMMARIES", "ENDED", "REJECTED"},
     cursor : [at : 0..MaxPlace, id : Rows \union {0}],
     checked : SUBSET {1, 2},   \* sources whose cursor check passed
     left : SUBSET {1, 2},      \* sources still to be read
     found : SUBSET PlaceKeys,       \* keys of the rows read for this page
     more : BOOLEAN]            \* a source holds more than a page

PagingTypeOK ==
    /\ list \in Lists /\ sort \in list.sorts /\ limit \in 1..MaxLimit
    /\ row \in [Rows -> Row] /\ walk \in Walk
    /\ steady \subseteq Rows /\ shown \subseteq Rows /\ again \subseteq Rows
    /\ astray \in BOOLEAN /\ changes \in 0..MaxChanges

Sources(l) == 1..l.sources
NewPage(cursor) ==
    [state |-> "READING", cursor |-> cursor,
     checked |-> IF cursor = NoCursor THEN Sources(list) ELSE {},
     left |-> Sources(list), found |-> {}, more |-> FALSE]

\* Messages are numbered one by one.
WellOrdered(rs) ==
    list.by = "SEQUENCE" =>
        \A r, s \in Rows : r # s /\ rs[r].state \in Stored /\ rs[s].state \in Stored => rs[r].at # rs[s].at

PagingInit ==
    /\ list \in Lists /\ sort \in list.sorts /\ limit \in 1..MaxLimit
    /\ row \in [Rows -> [at : 0..MaxPlace, state : {"LISTED"}] \union [at : {0}, state : {"ABSENT"}]]
    /\ WellOrdered(row)
    /\ walk = NewPage(NoCursor)
    /\ steady = Listed
    /\ shown = {} /\ again = {} /\ astray = FALSE /\ changes = 0

-----------------------------------------------------------------------------
(* Rows change while the client walks. *)

Walking == walk.state \in {"READING", "SUMMARIES"}
Change(kind, r, new) ==
    /\ Walking /\ kind \in list.changes
    /\ changes < MaxChanges /\ changes' = changes + 1
    /\ row' = [row EXCEPT ![r] = new] /\ WellOrdered(row')
    /\ steady' = steady \ {r}
    /\ UNCHANGED <<list, sort, limit, walk, shown, again>>

\* A row is added.  Its time is that of its transaction's start, so it may be
\* older than rows that are already there; a message gets the next number.
InsertRow(r, at) ==
    /\ row[r].state = "ABSENT"
    /\ list.by = "SEQUENCE" => \A s \in Rows : row[s].state # "ABSENT" => row[s].at < at
    /\ Change("INSERT", r, [at |-> at, state |-> "LISTED"])
    /\ UNCHANGED astray

\* A row stops matching the list's filter, or comes to match it.
Leave(r) ==
    /\ row[r].state = "LISTED"
    /\ Change("LEAVE", r, [row[r] EXCEPT !.state = "UNLISTED"]) /\ UNCHANGED astray
Enter(r) ==
    /\ row[r].state = "UNLISTED"
    /\ Change("ENTER", r, [row[r] EXCEPT !.state = "LISTED"]) /\ UNCHANGED astray

\* An edit moves a Quest's start.
Move(r, at) ==
    /\ row[r].state \in Stored
    /\ Change("MOVE", r, [row[r] EXCEPT !.at = at]) /\ UNCHANGED astray

\* A row is deleted; a cursor that must find it no longer does.
Delete(r) ==
    /\ row[r].state \in Stored /\ Change("DELETE", r, [row[r] EXCEPT !.state = "DELETED"])
    /\ astray' = (astray \/ (list.check = "TABLE" /\ walk.cursor.id = r))

\* A message arrives in a conversation, or its last visible one is hidden.
Bump(r, at) ==
    /\ row[r].state \in Stored
    /\ \A s \in Rows : row[s].state \in Stored => row[s].at <= at
    /\ Change("BUMP", r, [row[r] EXCEPT !.at = at]) /\ UNCHANGED astray
Fall(r, at) ==
    /\ row[r].state \in Stored /\ at < row[r].at
    /\ Change("FALL", r, [row[r] EXCEPT !.at = at])
    /\ astray' = (astray \/ walk.cursor.id = r \/ \E k \in walk.found : k[2] = r)

-----------------------------------------------------------------------------
(* The reader. *)

rowSide == <<list, sort, limit, row, steady, changes>>

\* The cursor's row as the check wants it.
CursorHolds(cursor) ==
    CASE list.check = "VALUE"  -> TRUE
      [] list.check = "MEMBER" -> row[cursor.id].state \in Stored
      [] list.check = "TABLE"  -> row[cursor.id].state \in Stored /\ Milli(row[cursor.id].at) = cursor.at
      [] list.check = "LISTED" -> row[cursor.id].state = "LISTED" /\ Milli(row[cursor.id].at) = cursor.at

CheckCursor(s) ==
    /\ walk.state = "READING" /\ s \in walk.left \ walk.checked
    /\ walk' = IF CursorHolds(walk.cursor) THEN [walk EXCEPT !.checked = @ \union {s}]
               ELSE [walk EXCEPT !.state = "REJECTED"]
    /\ UNCHANGED <<rowSide, shown, again, astray>>

\* Mutant: the boundary is the cursor's millisecond.
PastItsMilli(rs) ==
    LET cursor == walk.cursor
        exact == list.check = "VALUE" \/ list.by = "SEQUENCE"
    IN  {r \in rs : cursor = NoCursor \/
            After(KeyOf(r), <<IF exact THEN cursor.at ELSE cursor.at * MicrosPerMilli, cursor.id>>)}

\* The rows past the cursor: past its value, or past the row it names as that
\* row is when the list is read.
PastCursor(rs) ==
    LET cursor == walk.cursor IN
    CASE cursor = NoCursor -> rs
      [] cursor # NoCursor /\ list.check = "VALUE" ->
             {r \in rs : After(KeyOf(r), <<cursor.at, cursor.id>>)}
      [] cursor # NoCursor /\ list.check # "VALUE" ->
             {r \in rs : row[cursor.id].state \in Stored /\ After(KeyOf(r), KeyOf(cursor.id))}

\* The first n of a set of keys, in the order of the list.
FirstOf(keys, n) == {k \in keys : Cardinality({l \in keys : After(k, l)}) < n}

\* Each source is read with one row more than the page may hold.
Probe(s) ==
    /\ walk.state = "READING" /\ s \in walk.left \intersect walk.checked
    /\ LET probe == FirstOf({KeyOf(r) : r \in PastCursor({q \in Listed : SourceOf(q) = s})}, limit + 1)
       IN walk' = [walk EXCEPT !.left = @ \ {s},
                               !.found = @ \union FirstOf(probe, limit),
                               !.more = @ \/ Cardinality(probe) > limit,
                               !.state = IF list.by = "ACTIVITY" THEN "SUMMARIES" ELSE @]
    /\ UNCHANGED <<rowSide, shown, again, astray>>

\* The page is shown; its last row is the cursor of the next, if there is one.
Show(page, last, hasNext) ==
    LET rs == {k[2] : k \in page} IN
    /\ shown' = shown \union rs
    /\ again' = again \union (shown \intersect rs)
    /\ walk' = IF page # {} /\ hasNext THEN NewPage([at |-> Milli(last[1]), id |-> last[2]])
               ELSE [walk EXCEPT !.state = "ENDED"]
    /\ UNCHANGED rowSide

LastOf(page) == CHOOSE k \in page : \A l \in page \ {k} : After(k, l)

\* The rows of all sources are merged and cut to a page.
MergePage ==
    /\ walk.state = "READING" /\ walk.left = {}
    /\ LET page == FirstOf(walk.found, limit)
       IN Show(page, IF page = {} THEN <<0, 0>> ELSE LastOf(page),
               walk.more \/ Cardinality(walk.found) > limit)
    /\ UNCHANGED astray

\* A list of conversations reads each of its page once more: one the caller is
\* no longer in is dropped, and the page is put in order again by milliseconds.
\* A page of which none is left ends the walk.
LastByMilli(page) ==
    CHOOSE k \in page : \A l \in page \ {k} : Smaller(<<Milli(k[1]), k[2]>>, <<Milli(l[1]), l[2]>>)

\* loadConversationSummary: nothing for a conversation the caller is out of.
Summarised(found) == {KeyOf(k[2]) : k \in {l \in found : l[2] \in Listed}}

Summaries ==
    /\ walk.state = "SUMMARIES"
    /\ LET page == Summarised(walk.found) IN
       /\ Show(page, IF page = {} THEN <<0, 0>> ELSE LastByMilli(page),
               walk.more \/ Cardinality(walk.found) > Cardinality(page))
       /\ astray' = (astray \/ (page = {} /\ walk.found # {}))

PagingNext ==
    \/ \E r \in Rows, at \in 0..MaxPlace : InsertRow(r, at) \/ Move(r, at) \/ Bump(r, at) \/ Fall(r, at)
    \/ \E r \in Rows : Leave(r) \/ Enter(r) \/ Delete(r)
    \/ \E s \in 1..2 : CheckCursor(s) \/ Probe(s)
    \/ MergePage \/ Summaries

PagingSpec == PagingInit /\ [][PagingNext]_pagingVars

-----------------------------------------------------------------------------
\* A walk that came to its end has shown every row that stayed as it was in the
\* list since the walk began, also where many rows share a millisecond, and,
\* but for lists of conversations, has shown none of them twice; unless the row
\* its cursor named was lost in use, as with a conversation whose last message
\* was hidden, or the whole page had left before it was summarised.
WalkComplete ==
    /\ walk.state = "ENDED" /\ ~astray => steady \subseteq shown
    /\ list.by # "ACTIVITY" => steady \intersect again = {}
=============================================================================
