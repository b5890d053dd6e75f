----------------------------- MODULE HistoryPaging ------------------------------
(***************************************************************************)
(* GET /history (handler/history.go, db ListRequests) and the history      *)
(* screen of the app that pages through it (mobile history_screen.dart),   *)
(* while requests are created and decided.  Answers arrive in any order or *)
(* not at all.                                                             *)
(***************************************************************************)
EXTENDS Integers, Sequences, FiniteSets

CONSTANTS
  MaxRows,        \* bound: request rows, 1 .. MaxRows, in the order of their ids
  MaxTime,        \* bound: created_at instants, 1 .. MaxTime
  MaxLoads,       \* bound: first-page loads of the screen
  PageSize,       \* the limit the app asks for
  MaxLimit        \* historyMaxLimit

ASSUME HistoryAssumption ==
  /\ {MaxRows, MaxTime, MaxLoads} \subseteq Nat
  /\ {PageSize, MaxLimit} \subseteq Nat \ {0}

VARIABLES
  created, status,        \* the requests table; created is 0 while there is no row
  filter, items, nextBefore, loading, loadingMore, loadSeq,       \* _HistoryScreenState
  call,           \* calls of the API under way, by load and kind
  base            \* history: rows that the current list's first page could have had

table  == <<created, status>>
screen == <<filter, items, nextBefore, loading, loadingMore, loadSeq>>
vars == <<table, screen, call, base>>

-----------------------------------------------------------------------------
Rows == 1 .. MaxRows
Statuses == {"pending", "closed"}
Filters == Statuses \cup {"any"}
None == 0         \* no cursor
Loads == 1 .. MaxLoads
NoCall == [at |-> "none", filter |-> "any", before |-> None, page |-> <<>>, next |-> None]

-----------------------------------------------------------------------------
(* The backend *)

\* A row, with the created_at its handler read before its lookups.
Create(r, t) ==
  /\ created[r] = 0
  /\ created' = [created EXCEPT ![r] = t]
  /\ UNCHANGED <<status, screen, call, base>>

Decide(r) ==
  /\ created[r] # 0
  /\ status[r] = "pending"
  /\ status' = [status EXCEPT ![r] = "closed"]
  /\ UNCHANGED <<created, screen, call, base>>

Matches(r, f) == created[r] # 0 /\ f \in {"any", status[r]}

\* ORDER BY created_at DESC, id DESC
Newer(r, s) == created[r] > created[s] \/ (created[r] = created[s] /\ r > s)

BeforeInclusive(r, before) == before = None \/ created[r] <= before
Before(r, before) == before = None \/ created[r] < before

ListRequests(f, before) ==
  LET found == {r \in Rows : Matches(r, f) /\ Before(r, before)} IN
  CHOOSE rows \in [1 .. Cardinality(found) -> found] :
    \A i, j \in 1 .. Cardinality(found) : i < j => Newer(rows[i], rows[j])

\* A larger limit is cut to the cap.
Limit == IF PageSize < MaxLimit THEN PageSize ELSE MaxLimit

\* One row more than the page is read to see whether there is another page.
Page(rows) == IF Len(rows) > Limit THEN SubSeq(rows, 1, Limit) ELSE rows

CursorOfExtra(rows) == IF Len(rows) > Limit THEN created[rows[Limit + 1]] ELSE None
Cursor(rows) == IF Len(rows) > Limit THEN created[rows[Limit]] ELSE None

Serve(c) ==
  /\ call[c].at = "sent"
  /\ LET rows == ListRequests(call[c].filter, call[c].before) IN
     call' = [call EXCEPT ![c].at = "served", ![c].page = Page(rows), ![c].next = Cursor(rows)]
  /\ base' = IF c = <<loadSeq, "first">>
             THEN {r \in Rows : Matches(r, call[c].filter)} ELSE base
  /\ UNCHANGED <<table, screen>>

-----------------------------------------------------------------------------
(* The screen *)

Send(c, f, before) ==
  call' = [call EXCEPT ![c] = [NoCall EXCEPT !.at = "sent", !.filter = f, !.before = before]]

LoadFirstPageOnly(f) ==
  /\ loadSeq < MaxLoads
  /\ loadSeq' = loadSeq + 1
  /\ filter' = f
  /\ loading' = TRUE
  /\ Send(<<loadSeq + 1, "first">>, f, None)
  /\ UNCHANGED <<table, items, nextBefore, loadingMore, base>>

\* _loadFirstPage: on start, refresh, Retry and every change of the filters
LoadFirstPage(f) ==
  /\ loadSeq < MaxLoads
  /\ loadSeq' = loadSeq + 1
  /\ filter' = f
  /\ loading' = TRUE
  /\ loadingMore' = FALSE
  /\ Send(<<loadSeq + 1, "first">>, f, None)
  /\ UNCHANGED <<table, items, nextBefore, base>>

\* _loadMore
LoadMore ==
  /\ nextBefore # None
  /\ ~ loadingMore
  /\ ~ loading
  /\ loadingMore' = TRUE
  /\ Send(<<loadSeq, "more">>, filter, nextBefore)
  /\ UNCHANGED <<table, filter, items, nextBefore, loading, loadSeq, base>>

CurrentAlways(c) == TRUE
\* A reply to a load that is no longer the last one is dropped.
Current(c) == c[1] = loadSeq

Answered(c) ==
  /\ call[c].at = "served"
  /\ call' = [call EXCEPT ![c] = NoCall]
  /\ IF ~ Current(c) THEN UNCHANGED screen
     ELSE /\ items' = IF c[2] = "first" THEN call[c].page ELSE items \o call[c].page
          /\ nextBefore' = call[c].next
          /\ loading' = (loading /\ c[2] = "more")
          /\ loadingMore' = (loadingMore /\ c[2] = "first")
          /\ UNCHANGED <<filter, loadSeq>>
  /\ UNCHANGED <<table, base>>

\* No answer, or an error: the first page leaves an empty list and the error,
\* a next page what is there.
CallFails(c) ==
  /\ call[c].at # "none"
  /\ call' = [call EXCEPT ![c] = NoCall]
  /\ IF ~ Current(c) THEN UNCHANGED screen
     ELSE /\ items' = IF c[2] = "first" THEN <<>> ELSE items
          /\ nextBefore' = IF c[2] = "first" THEN None ELSE nextBefore
          /\ loading' = (loading /\ c[2] = "more")
          /\ loadingMore' = (loadingMore /\ c[2] = "first")
          /\ UNCHANGED <<filter, loadSeq>>
  /\ base' = IF c = <<loadSeq, "first">> THEN {} ELSE base
  /\ UNCHANGED table

-----------------------------------------------------------------------------
Init ==
  /\ created \in [Rows -> 0 .. MaxTime]
  /\ status = [r \in Rows |-> "pending"]
  /\ filter = "any"
  /\ items = <<>>
  /\ nextBefore = None
  /\ loading = FALSE
  /\ loadingMore = FALSE
  /\ loadSeq = 0
  /\ call = [c \in Loads \X {"first", "more"} |-> NoCall]
  /\ base = {}

CallStep(c) == Serve(c) \/ Answered(c) \/ CallFails(c)

\* The screen rests on its last load.
Rest ==
  /\ loadSeq = MaxLoads
  /\ UNCHANGED vars

Next ==
  \/ \E r \in Rows : Decide(r) \/ \E t \in 1 .. MaxTime : Create(r, t)
  \/ \E f \in Filters : LoadFirstPage(f)
  \/ LoadMore
  \/ \E c \in DOMAIN call : CallStep(c)
  \/ Rest

Spec == Init /\ [][Next]_vars

\* A call ends, with an answer or with the HTTP client's timeout.
FairSpec == Spec /\ \A c \in Loads \X {"first", "more"} : WF_vars(CallStep(c))

-----------------------------------------------------------------------------
(* Properties *)

\* The list shows each request once, newest first, whatever is created between
\* two pages, with a created_at on either side of the cursor
\* (history.go history).
ListSorted ==
  \A i, j \in 1 .. Len(items) : i < j => Newer(items[i], items[j])

\* A slow answer to an old filter never replaces or joins the list of a newer
\* one: the list of closed requests never shows a pending one, which earlier
\* answers to other filters may hold (history_screen.dart _loadSeq).
OneFilter ==
  ~ loading => \A i \in 1 .. Len(items) : filter = "closed" => status[items[i]] = "closed"

\* Nothing is lost between two pages: when the list is at its end, a row that
\* matched at the first page and still does is shown, unless it shares its
\* created_at with one that is (history.go, the next_before cursor).
NoRowSkipped ==
  (~ loading /\ nextBefore = None) =>
    \A r \in base : Matches(r, filter) =>
      \E i \in 1 .. Len(items) : created[items[i]] = created[r]

\* The spinner of the next page never stays: a change of filter while a page is
\* under way leaves its answer without effect, and further pages can be asked for
\* (history_screen.dart _loadFirstPage, _loadMore).
MoreEnds == loadingMore ~> ~ loadingMore
===============================================================================
