-------------------------- MODULE OrderedListProofs ----------------------------
(***************************************************************************)
(* Theorems about the two components that keep an ordered list: the        *)
(* history screen (HistoryPaging) and the trail of the event watcher       *)
(* (Watcher).  They share no state; both rest on one fact, that a finite   *)
(* set can be listed along a strict order.                                 *)
(***************************************************************************)
EXTENDS HistoryPaging, Watcher, FiniteSetTheorems, SequenceTheorems, TLAPS

-----------------------------------------------------------------------------
(* Listing a finite set in order *)

\* A strict total order, as a set of pairs.
Orders(R, S) ==
  /\ \A x \in S : <<x, x>> \notin R
  /\ \A x, y, z \in S : <<x, y>> \in R /\ <<y, z>> \in R => <<x, z>> \in R
  /\ \A x, y \in S : x = y \/ <<x, y>> \in R \/ <<y, x>> \in R

\* The element with k others below it goes to place k + 1.
LEMMA OrderedListExists ==
  ASSUME NEW S, IsFiniteSet(S), NEW R, Orders(R, S)
  PROVE  \E s \in [1 .. Cardinality(S) -> S] :
           \A i, j \in 1 .. Cardinality(S) : i < j => <<s[i], s[j]>> \in R
<1> DEFINE below(x) == {y \in S : <<y, x>> \in R}
           n == Cardinality(S)
           place == [x \in S |-> Cardinality(below(x)) + 1]
<1>1. n \in Nat
  BY FS_CardinalityType
<1>2. ASSUME NEW x \in S
      PROVE  /\ IsFiniteSet(below(x)) /\ Cardinality(below(x)) \in Nat
             /\ Cardinality(below(x)) < n
  <2>1. IsFiniteSet(S \ {x}) /\ Cardinality(S \ {x}) = n - 1
    BY FS_RemoveElement
  <2>2. below(x) \in SUBSET (S \ {x})
    BY DEF Orders
  <2> HIDE DEF below
  <2>3. IsFiniteSet(below(x)) /\ Cardinality(below(x)) <= n - 1
    BY <2>1, <2>2, FS_Subset
  <2>4. Cardinality(below(x)) \in Nat
    BY <2>3, FS_CardinalityType
  <2>5. QED
    BY <1>1, <2>3, <2>4
<1>3. ASSUME NEW x \in S, NEW y \in S, <<x, y>> \in R
      PROVE  Cardinality(below(x)) < Cardinality(below(y))
  <2>1. below(x) \in SUBSET below(y)
    BY <1>3 DEF Orders
  <2>2. x \in below(y) /\ x \notin below(x)
    BY <1>3 DEF Orders
  <2>3. /\ Cardinality(below(x)) <= Cardinality(below(y))
        /\ Cardinality(below(y)) = Cardinality(below(x)) => below(y) = below(x)
    BY <1>2, <2>1, FS_Subset
  <2> HIDE DEF below
  <2>4. QED
    BY <1>2, <2>2, <2>3
<1> HIDE DEF below
<1>4. place \in [S -> 1 .. n]
  BY <1>1, <1>2
<1>5. ASSUME NEW x \in S, NEW y \in S, place[x] = place[y]
      PROVE  x = y
  <2>1. Cardinality(below(x)) = Cardinality(below(y))
    BY <1>2, <1>5
  <2>2. <<x, y>> \notin R /\ <<y, x>> \notin R
    BY <1>2, <1>3, <2>1
  <2>3. QED
    BY <2>2 DEF Orders
<1>6. place \in Injection(S, 1 .. n)
  BY <1>4, <1>5 DEF Injection, IsInjective
<1>7. IsFiniteSet(1 .. n) /\ Cardinality(1 .. n) = n
  BY <1>1, FS_Interval
<1>8. place \in Surjection(S, 1 .. n)
  BY <1>6, <1>7, FS_Injection
<1>9. \A i \in 1 .. n : \E x \in S : place[x] = i
  BY <1>8 DEF Surjection
<1> DEFINE s == [i \in 1 .. n |-> CHOOSE x \in S : place[x] = i]
<1>10. \A i \in 1 .. n : s[i] \in S /\ place[s[i]] = i
  BY <1>9
<1>11. s \in [1 .. n -> S]
  BY <1>10
<1> HIDE DEF s
<1>12. ASSUME NEW i \in 1 .. n, NEW j \in 1 .. n, i < j
       PROVE  <<s[i], s[j]>> \in R
  <2>1. s[i] \in S /\ s[j] \in S /\ place[s[i]] < place[s[j]]
    BY <1>1, <1>10, <1>12
  <2>2. Cardinality(below(s[i])) < Cardinality(below(s[j]))
    BY <1>2, <2>1
  <2>3. s[i] # s[j] /\ <<s[j], s[i]>> \notin R
    BY <1>2, <1>3, <2>1, <2>2
  <2>4. QED
    BY <2>1, <2>3 DEF Orders
<1>13. QED
  BY <1>11, <1>12

\* Such a list leaves nothing out.
LEMMA OrderedListComplete ==
  ASSUME NEW S, IsFiniteSet(S), NEW s \in [1 .. Cardinality(S) -> S],
         \A i, j \in 1 .. Cardinality(S) : i < j => s[i] # s[j]
  PROVE  \A x \in S : \E i \in 1 .. Cardinality(S) : s[i] = x
<1> DEFINE n == Cardinality(S)
<1>1. n \in Nat
  BY FS_CardinalityType
<1>2. \A i, j \in 1 .. n : s[i] = s[j] => i = j
  BY <1>1
<1>3. s \in Injection(1 .. n, S)
  BY <1>2 DEF Injection, IsInjective
<1>4. Cardinality(1 .. n) = n
  BY <1>1, FS_Interval
<1>5. s \in Surjection(1 .. n, S)
  BY <1>3, <1>4, FS_Injection
<1>6. QED
  BY <1>5 DEF Surjection

-----------------------------------------------------------------------------
(* The history screen *)

CallIds == Loads \X {"first", "more"}
CallType == [at : {"none", "sent", "served"}, filter : Filters, before : 0 .. MaxTime,
             page : Seq(Rows), next : 0 .. MaxTime]

ScreenTypes ==
  /\ created \in [Rows -> 0 .. MaxTime]
  /\ status \in [Rows -> Statuses]
  /\ filter \in Filters
  /\ items \in Seq(Rows)
  /\ nextBefore \in 0 .. MaxTime
  /\ loading \in BOOLEAN
  /\ loadingMore \in BOOLEAN
  /\ loadSeq \in 0 .. MaxLoads
  /\ call \in [CallIds -> CallType]
  /\ base \subseteq Rows

\* A list of rows that exist, each newer than the next.
NewestFirst(rows) ==
  /\ \A i \in 1 .. Len(rows) : created[rows[i]] # 0
  /\ \A i, j \in 1 .. Len(rows) : i < j => Newer(rows[i], rows[j])

\* The rows of a list are on this side of a cursor.
UpTo(rows, before) ==
  before # None => \A i \in 1 .. Len(rows) : created[rows[i]] >= before

\* The bounds are numbers.
LEMMA HistoryBounds ==
  /\ MaxRows \in Nat /\ MaxTime \in Nat /\ MaxLoads \in Nat
  /\ PageSize \in Nat /\ PageSize > 0 /\ MaxLimit \in Nat /\ MaxLimit > 0
BY HistoryAssumption

\* What the database returns: the matching rows, all of them, newest first.
LEMMA ListRequestsOrdered ==
  ASSUME created \in [Rows -> 0 .. MaxTime], NEW f, NEW before, NEW rows,
         rows = ListRequests(f, before)
  PROVE  /\ rows \in Seq(Rows)
         /\ \A i \in 1 .. Len(rows) : Matches(rows[i], f) /\ Before(rows[i], before)
         /\ \A i, j \in 1 .. Len(rows) : i < j => Newer(rows[i], rows[j])
         /\ \A r \in Rows : Matches(r, f) /\ Before(r, before)
              => \E i \in 1 .. Len(rows) : rows[i] = r
<1> DEFINE S == {r \in Rows : Matches(r, f) /\ Before(r, before)}
           R == {p \in S \X S : Newer(p[1], p[2])}
           n == Cardinality(S)
           sorted(s) == \A i, j \in 1 .. n : i < j => Newer(s[i], s[j])
<1>1. IsFiniteSet(S)
  <2>1. IsFiniteSet(Rows)
    BY HistoryAssumption, FS_Interval DEF Rows
  <2>2. QED
    BY <2>1, FS_Subset
<1>2. n \in Nat
  BY <1>1, FS_CardinalityType
<1>3. \A r \in Rows : created[r] \in Int /\ r \in Int
  BY HistoryAssumption DEF Rows
<1>4. Orders(R, S)
  <2>1. \A x, y \in S : <<x, y>> \in R <=> Newer(x, y)
    OBVIOUS
  <2>2. \A x \in S : x \in Rows
    OBVIOUS
  <2> HIDE DEF S, R
  <2>3. QED
    BY <1>3, <2>1, <2>2 DEF Orders, Newer
<1>5. \E s \in [1 .. n -> S] : sorted(s)
  <2>1. PICK s \in [1 .. n -> S] : \A i, j \in 1 .. n : i < j => <<s[i], s[j]>> \in R
    BY <1>1, <1>4, OrderedListExists
  <2>2. QED
    BY <2>1
<1>6. rows = CHOOSE s \in [1 .. n -> S] : sorted(s)
  BY DEF ListRequests
<1>7. rows \in [1 .. n -> S] /\ sorted(rows)
  BY <1>5, <1>6
<1>8. Len(rows) = n /\ rows \in Seq(Rows)
  BY <1>2, <1>7
<1>9. \A i, j \in 1 .. n : i < j => rows[i] # rows[j]
  BY <1>3, <1>7 DEF Newer
<1>10. \A r \in S : \E i \in 1 .. n : rows[i] = r
  BY <1>1, <1>7, <1>9, OrderedListComplete
<1>11. QED
  BY <1>7, <1>8, <1>10

\* A row is shown, or at least one of its created_at is, or it is still to come.
Covered(r, rows, before) ==
  \/ before # None /\ created[r] < before
  \/ \E i \in 1 .. Len(rows) : created[rows[i]] = created[r]

\* One page of them, and its cursor.
LEMMA PageOrdered ==
  ASSUME created \in [Rows -> 0 .. MaxTime], NEW f, NEW before,
         NEW rows, rows = ListRequests(f, before)
  PROVE  /\ Page(rows) \in Seq(Rows) /\ Cursor(rows) \in 0 .. MaxTime
         /\ NewestFirst(Page(rows))
         /\ \A i \in 1 .. Len(Page(rows)) :
              Matches(Page(rows)[i], f) /\ Before(Page(rows)[i], before)
         /\ UpTo(Page(rows), Cursor(rows))
         /\ None \in {before, Cursor(rows)} \/ Cursor(rows) < before
         /\ \A r \in Rows : Matches(r, f) /\ Before(r, before)
              => Covered(r, Page(rows), Cursor(rows))
<1>1. /\ rows \in Seq(Rows)
      /\ \A i \in 1 .. Len(rows) : Matches(rows[i], f) /\ Before(rows[i], before)
      /\ \A i, j \in 1 .. Len(rows) : i < j => Newer(rows[i], rows[j])
      /\ \A r \in Rows : Matches(r, f) /\ Before(r, before)
           => \E i \in 1 .. Len(rows) : rows[i] = r
  BY ListRequestsOrdered
<1>2. Limit \in Nat /\ Limit >= 1
  BY HistoryAssumption DEF Limit
<1>3. /\ Len(rows) \in Nat
      /\ \A i \in 1 .. Len(rows) : rows[i] \in Rows /\ created[rows[i]] \in 0 .. MaxTime
  BY <1>1
<1>4. \A i \in 1 .. Len(rows) : created[rows[i]] # 0
  BY <1>1 DEF Matches
<1>5. CASE Len(rows) <= Limit
  <2>1. Page(rows) = rows /\ Cursor(rows) = None
    BY <1>2, <1>3, <1>5 DEF Page, Cursor
  <2>2. \A r \in Rows : Matches(r, f) /\ Before(r, before) => Covered(r, rows, None)
    BY <1>1 DEF Covered
  <2>3. NewestFirst(rows) /\ UpTo(rows, None)
    BY <1>1, <1>4 DEF NewestFirst, UpTo
  <2>4. None \in 0 .. MaxTime
    BY HistoryAssumption DEF None
  <2>5. QED
    BY <1>1, <2>1, <2>2, <2>3, <2>4
<1>6. CASE Len(rows) > Limit
  <2> DEFINE p == SubSeq(rows, 1, Limit)
             next == created[rows[Limit]]
  <2>1. Page(rows) = p /\ Cursor(rows) = next
    BY <1>6 DEF Page, Cursor
  <2>2. /\ p \in Seq(Rows) /\ Len(p) = Limit
        /\ \A i \in 1 .. Limit : p[i] = rows[i] /\ i \in 1 .. Len(rows)
    BY <1>1, <1>2, <1>3, <1>6
  <2>3. Limit \in 1 .. Len(rows) /\ next \in 1 .. MaxTime /\ next # None
    BY <1>2, <1>3, <1>4, <1>6 DEF None
  <2> HIDE DEF p
  <2>4. NewestFirst(p)
    BY <1>1, <1>4, <2>2 DEF NewestFirst
  <2>5. \A i \in 1 .. Limit : created[rows[i]] >= next
    BY <1>1, <1>2, <1>3, <2>2, <2>3 DEF Newer
  <2>6. UpTo(p, next)
    BY <2>2, <2>5 DEF UpTo
  <2>7. ASSUME NEW r \in Rows, Matches(r, f), Before(r, before)
        PROVE  Covered(r, p, next)
    <3>1. PICK k \in 1 .. Len(rows) : rows[k] = r
      BY <1>1, <2>7
    <3>2. CASE k <= Limit
      BY <1>2, <2>2, <3>1, <3>2 DEF Covered
    <3>3. CASE k > Limit
      <4>1. Newer(rows[Limit], rows[k])
        BY <1>1, <2>3, <3>3
      <4>2. created[r] < next \/ created[r] = created[p[Limit]]
        BY <1>2, <1>3, <2>2, <2>3, <3>1, <4>1 DEF Newer
      <4>3. QED
        BY <1>2, <2>2, <2>3, <4>2 DEF Covered
    <3>4. QED
      BY <1>2, <1>3, <3>2, <3>3
  <2> HIDE DEF next
  <2>8. next \in 0 .. MaxTime
    BY <2>3
  <2>9. \A i \in 1 .. Len(p) : Matches(p[i], f) /\ Before(p[i], before)
    BY <1>1, <2>2
  <2>10. before = None \/ next < before
    BY <1>1, <2>3 DEF Before, next
  <2>11. QED
    BY <2>1, <2>2, <2>4, <2>6, <2>7, <2>8, <2>9, <2>10
<1>7. QED
  BY <1>2, <1>3, <1>5, <1>6

\* A page on its way to the app: newest first, beyond the cursor it was asked for
\* with and up to the one it comes with.
PageInv(c) ==
  call[c].at = "served" =>
    /\ NewestFirst(call[c].page)
    /\ \A i \in 1 .. Len(call[c].page) :
         /\ Before(call[c].page[i], call[c].before)
         /\ call[c].filter = "closed" => status[call[c].page[i]] = "closed"
    /\ UpTo(call[c].page, call[c].next)
    /\ None \in {call[c].before, call[c].next} \/ call[c].next < call[c].before

\* The calls of the last load: the first page while it is loading, then one next
\* page at a time, asked for with the cursor the list ends at.
CurrentInv(c) ==
  c[1] = loadSeq /\ call[c].at # "none" =>
    /\ call[c].filter = filter
    /\ c[2] = "first" => loading /\ ~ loadingMore /\ call[c].before = None
    /\ c[2] = "more" => /\ ~ loading /\ loadingMore
                        /\ call[c].before = nextBefore /\ nextBefore # None

CallsInv ==
  \A c \in CallIds :
    /\ c[1] > loadSeq => call[c].at = "none"
    /\ PageInv(c)
    /\ CurrentInv(c)

ItemsInv == NewestFirst(items) /\ UpTo(items, nextBefore)

ScreenInv == ScreenTypes /\ CallsInv /\ ItemsInv /\ OneFilter

\* The rows the current list stands for, once their first page was read: each
\* that matches still is covered by what is shown or under way.
BaseRead ==
  ~ loading \/ \E c \in CallIds : c = <<loadSeq, "first">> /\ call[c].at = "served"

BaseInv ==
  /\ \A r \in base : created[r] # 0
  /\ BaseRead => \A r \in base : filter = "closed" => status[r] = "closed"
  /\ \A c \in CallIds : c[1] = loadSeq /\ call[c].at = "served" =>
       \A r \in base : Matches(r, filter) /\ Before(r, call[c].before)
         => Covered(r, call[c].page, call[c].next)
  /\ ~ loading => \A r \in base : Matches(r, filter) => Covered(r, items, nextBefore)

\* The initial state satisfies the invariants.
LEMMA ScreenInit == Init => ScreenInv /\ BaseInv
<1> SUFFICES ASSUME Init PROVE ScreenInv /\ BaseInv
  OBVIOUS
<1> USE HistoryBounds DEF Init
<1>1. NoCall \in CallType
  BY DEF NoCall, CallType, Filters, None
<1>2. ScreenTypes
  <2>1. call \in [CallIds -> CallType]
    BY <1>1 DEF CallIds
  <2>2. created \in [Rows -> 0 .. MaxTime] /\ status \in [Rows -> Statuses]
    BY DEF Statuses
  <2>3. nextBefore \in 0 .. MaxTime /\ loadSeq \in 0 .. MaxLoads /\ filter \in Filters
    BY DEF None, Filters
  <2>4. items \in Seq(Rows) /\ base \subseteq Rows
    OBVIOUS
  <2>5. loading \in BOOLEAN /\ loadingMore \in BOOLEAN
    OBVIOUS
  <2>6. QED
    BY <2>1, <2>2, <2>3, <2>4, <2>5 DEF ScreenTypes
<1>3. \A c \in CallIds : call[c].at = "none"
  BY DEF CallIds, NoCall
<1>4. CallsInv /\ BaseInv
  BY <1>3 DEF CallsInv, PageInv, CurrentInv, BaseInv
<1>5. ItemsInv /\ OneFilter
  BY DEF ItemsInv, NewestFirst, UpTo, OneFilter
<1>6. QED
  BY <1>2, <1>4, <1>5 DEF ScreenInv

\* A new row changes nothing for the rows there are.
LEMMA ScreenCreate ==
  ASSUME ScreenInv, BaseInv, NEW r \in Rows, NEW t \in 1 .. MaxTime, Create(r, t)
  PROVE  ScreenInv' /\ BaseInv'
<1> USE DEF screen
<1>1. /\ ScreenTypes /\ CallsInv /\ ItemsInv /\ OneFilter
      /\ UNCHANGED <<status, filter, items, nextBefore, loading, loadingMore, loadSeq, call, base>>
      /\ created[r] = 0 /\ created' = [created EXCEPT ![r] = t]
  BY DEF ScreenInv, Create
<1>2. \A q \in Rows : created[q] # 0 => created'[q] = created[q]
  BY <1>1 DEF ScreenTypes
<1>3. ScreenTypes'
  BY <1>1, HistoryAssumption DEF ScreenTypes
<1>4. ASSUME NEW rows \in Seq(Rows), NewestFirst(rows)
      PROVE  /\ \A i \in 1 .. Len(rows) : rows[i] \in Rows /\ created'[rows[i]] = created[rows[i]]
             /\ NewestFirst(rows)'
  <2>1. \A i \in 1 .. Len(rows) : rows[i] \in Rows /\ created'[rows[i]] = created[rows[i]]
    BY <1>2, <1>4 DEF NewestFirst
  <2>2. QED
    BY <1>4, <2>1 DEF NewestFirst, Newer
<1>5. CallsInv'
  <2> SUFFICES ASSUME NEW c \in CallIds
               PROVE  PageInv(c)' /\ CurrentInv(c)' /\ (c[1] > loadSeq => call[c].at = "none")'
    BY DEF CallsInv
  <2>1. PageInv(c) /\ CurrentInv(c) /\ (c[1] > loadSeq => call[c].at = "none")
    BY <1>1 DEF CallsInv
  <2>2. call[c].page \in Seq(Rows)
    BY <1>1 DEF ScreenTypes, CallType
  <2>3. PageInv(c)'
    BY <1>1, <1>4, <2>1, <2>2 DEF PageInv, NewestFirst, Before, UpTo, Newer
  <2>4. QED
    BY <1>1, <2>1, <2>3 DEF CurrentInv
<1>6. ItemsInv' /\ OneFilter'
  <2>1. items \in Seq(Rows) /\ NewestFirst(items)
    BY <1>1 DEF ScreenTypes, ItemsInv
  <2>2. QED
    BY <1>1, <1>4, <2>1 DEF ItemsInv, NewestFirst, UpTo, OneFilter, Newer
<1>7. BaseInv'
  <2>1. \A q \in base : q \in Rows /\ created[q] # 0 /\ created'[q] = created[q]
    BY <1>1, <1>2 DEF BaseInv, ScreenTypes
  <2>2. ASSUME NEW q \in base, NEW rows \in Seq(Rows), NEW before, NewestFirst(rows),
               Covered(q, rows, before)
        PROVE  Covered(q, rows, before)'
    BY <1>4, <2>1, <2>2 DEF Covered
  <2>3. ASSUME NEW c \in CallIds, c[1] = loadSeq, call[c].at = "served", NEW q \in base,
               Matches(q, filter)', Before(q, call[c].before)'
        PROVE  Covered(q, call[c].page, call[c].next)'
    <3>1. Matches(q, filter) /\ Before(q, call[c].before)
      BY <1>1, <2>1, <2>3 DEF Matches, Before
    <3>2. Covered(q, call[c].page, call[c].next)
      BY <2>3, <3>1 DEF BaseInv
    <3>3. NewestFirst(call[c].page) /\ call[c].page \in Seq(Rows)
      BY <1>1, <2>3 DEF CallsInv, PageInv, ScreenTypes, CallType
    <3>4. QED
      BY <1>1, <1>4, <2>1, <3>2, <3>3 DEF Covered
  <2>4. ASSUME ~ loading, NEW q \in base, Matches(q, filter)'
        PROVE  Covered(q, items, nextBefore)'
    <3>1. Covered(q, items, nextBefore)
      BY <1>1, <2>1, <2>4 DEF BaseInv, Matches
    <3>2. NewestFirst(items) /\ items \in Seq(Rows)
      BY <1>1 DEF ItemsInv, ScreenTypes
    <3>3. QED
      BY <1>1, <1>4, <2>1, <3>1, <3>2 DEF Covered
  <2>5. QED
    BY <1>1, <2>1, <2>3, <2>4 DEF BaseInv, BaseRead
<1>8. QED
  BY <1>3, <1>5, <1>6, <1>7 DEF ScreenInv

\* A decision closes a row that may be in the list, and opens none.
LEMMA ScreenDecide ==
  ASSUME ScreenInv, BaseInv, NEW r \in Rows, Decide(r)
  PROVE  ScreenInv' /\ BaseInv'
<1> USE DEF screen
<1>1. /\ ScreenTypes /\ CallsInv /\ ItemsInv /\ OneFilter
      /\ UNCHANGED <<created, filter, items, nextBefore, loading, loadingMore, loadSeq, call, base>>
      /\ status[r] = "pending" /\ status' = [status EXCEPT ![r] = "closed"]
  BY DEF ScreenInv, Decide
<1>2. \A q \in Rows : status'[q] = status[q] \/ (status[q] = "pending" /\ status'[q] = "closed")
  BY <1>1 DEF ScreenTypes
<1>3. ScreenTypes'
  BY <1>1 DEF ScreenTypes, Statuses
<1>4. CallsInv'
  <2> SUFFICES ASSUME NEW c \in CallIds
               PROVE  PageInv(c)' /\ CurrentInv(c)' /\ (c[1] > loadSeq => call[c].at = "none")'
    BY DEF CallsInv
  <2>1. PageInv(c) /\ CurrentInv(c) /\ (c[1] > loadSeq => call[c].at = "none")
    BY <1>1 DEF CallsInv
  <2>2. call[c].page \in Seq(Rows)
    BY <1>1 DEF ScreenTypes, CallType
  <2>3. PageInv(c)'
    BY <1>1, <1>2, <2>1, <2>2, SMTT(40) DEF PageInv, NewestFirst, Before, UpTo, Newer
  <2>4. QED
    BY <1>1, <2>1, <2>3 DEF CurrentInv
<1>5. ItemsInv'
  BY <1>1 DEF ItemsInv, NewestFirst, UpTo, Newer
<1>6. OneFilter'
  BY <1>1, <1>2 DEF OneFilter, ScreenTypes
<1>7. BaseInv'
  <2>1. ASSUME BaseRead, NEW q \in base
        PROVE  /\ filter = "closed" => status[q] = "closed" /\ status'[q] = "closed"
               /\ Matches(q, filter)' => Matches(q, filter)
    <3>1. filter = "closed" => status[q] = "closed"
      BY <2>1 DEF BaseInv
    <3>2. q \in Rows
      BY <1>1 DEF ScreenTypes
    <3>3. QED
      BY <1>1, <1>2, <3>1, <3>2 DEF Matches, Filters, Statuses, ScreenTypes
  <2>2. ASSUME NEW c \in CallIds, c[1] = loadSeq, call[c].at = "served", NEW q \in base,
               Matches(q, filter)'
        PROVE  Matches(q, filter)
    <3>1. c = <<loadSeq, "first">> \/ c = <<loadSeq, "more">>
      BY <2>2 DEF CallIds
    <3>2. c = <<loadSeq, "more">> => ~ loading
      BY <1>1, <2>2 DEF CallsInv, CurrentInv
    <3>3. QED
      BY <2>1, <2>2, <3>1, <3>2 DEF BaseRead
  <2>3. BaseRead' => BaseRead
    BY <1>1 DEF BaseRead
  <2>4. ~ loading => BaseRead
    BY DEF BaseRead
  <2>5. QED
    BY <1>1, <2>1, <2>2, <2>3, <2>4 DEF BaseInv, Before, Covered
<1>8. QED
  BY <1>3, <1>4, <1>5, <1>6, <1>7 DEF ScreenInv

\* While the table is as it was, so are the pages under way and the list.
LEMMA SamePage ==
  ASSUME UNCHANGED <<created, status>>, NEW c \in CallIds, call'[c] = call[c], PageInv(c)
  PROVE  PageInv(c)'
BY DEF PageInv, NewestFirst, Newer, Before, UpTo

LEMMA SameItems ==
  ASSUME UNCHANGED <<created, items, nextBefore>>, ItemsInv
  PROVE  ItemsInv'
BY DEF ItemsInv, NewestFirst, Newer, UpTo

\* What a request to the backend holds.
Asked(f, before) == [NoCall EXCEPT !.at = "sent", !.filter = f, !.before = before]

LEMMA AskedType ==
  ASSUME NEW f \in Filters, NEW before \in 0 .. MaxTime
  PROVE  LET asked == Asked(f, before) IN
         /\ asked \in CallType
         /\ asked.at = "sent" /\ asked.filter = f /\ asked.before = before
<1>0. PICK asked : asked = Asked(f, before)
  OBVIOUS
<1>1. asked = [at |-> "sent", filter |-> f, before |-> before, page |-> <<>>, next |-> None]
  BY <1>0 DEF Asked, NoCall
<1>2. <<>> \in Seq(Rows) /\ None \in 0 .. MaxTime
  BY HistoryBounds DEF None
<1>3. /\ asked \in CallType
      /\ asked.at = "sent" /\ asked.filter = f /\ asked.before = before
  BY <1>1, <1>2 DEF CallType
<1>4. QED
  BY <1>0, <1>3

\* The backend's answer is a page of the table as it is at that moment.
LEMMA ScreenServe ==
  ASSUME ScreenInv, BaseInv, NEW c \in CallIds, Serve(c)
  PROVE  ScreenInv' /\ BaseInv'
<1> USE DEF screen, table
<1> DEFINE rows == ListRequests(call[c].filter, call[c].before)
<1>0. PICK p, n : p = Page(rows) /\ n = Cursor(rows)
  OBVIOUS
<1>1. /\ ScreenTypes /\ CallsInv /\ ItemsInv /\ OneFilter
      /\ UNCHANGED <<created, status, filter, items, nextBefore, loading, loadingMore, loadSeq>>
      /\ call[c].at = "sent"
      /\ call' = [call EXCEPT ![c].at = "served", ![c].page = p, ![c].next = n]
      /\ base' = IF c = <<loadSeq, "first">>
                 THEN {r \in Rows : Matches(r, call[c].filter)} ELSE base
  BY <1>0 DEF ScreenInv, Serve
<1>2. /\ p \in Seq(Rows) /\ n \in 0 .. MaxTime
      /\ NewestFirst(p)
      /\ \A i \in 1 .. Len(p) : Matches(p[i], call[c].filter) /\ Before(p[i], call[c].before)
      /\ UpTo(p, n)
      /\ None \in {call[c].before, n} \/ n < call[c].before
      /\ \A r \in Rows : Matches(r, call[c].filter) /\ Before(r, call[c].before)
           => Covered(r, p, n)
  BY <1>0, <1>1, PageOrdered DEF ScreenTypes
<1> HIDE DEF rows
<1>3. /\ call[c] \in CallType /\ call'[c] \in CallType
      /\ call'[c].at = "served" /\ call'[c].page = p /\ call'[c].next = n
      /\ call'[c].filter = call[c].filter /\ call'[c].before = call[c].before
      /\ \A d \in CallIds : d # c => call'[d] = call[d]
  BY <1>1, <1>2 DEF ScreenTypes, CallType
<1>4. ScreenTypes'
  <2>1. call' \in [CallIds -> CallType]
    BY <1>1, <1>3 DEF ScreenTypes
  <2>2. base' \subseteq Rows
    BY <1>1 DEF ScreenTypes
  <2>3. QED
    BY <1>1, <2>1, <2>2 DEF ScreenTypes
<1>5. CallsInv'
  <2> SUFFICES ASSUME NEW d \in CallIds
               PROVE  PageInv(d)' /\ CurrentInv(d)' /\ (d[1] > loadSeq => call[d].at = "none")'
    BY DEF CallsInv
  <2>1. PageInv(d) /\ CurrentInv(d) /\ (d[1] > loadSeq => call[d].at = "none")
    BY <1>1 DEF CallsInv
  <2>2. CASE d = c
    <3>1. PageInv(c)'
      <4>1. \A i \in 1 .. Len(p) : call[c].filter = "closed" => status[p[i]] = "closed"
        BY <1>2 DEF Matches
      <4>2. NewestFirst(call[c].page)'
        <5>1. created' = created /\ call'[c].page = p /\ NewestFirst(p)
          BY <1>1, <1>2, <1>3
        <5>2. QED
          BY <5>1 DEF NewestFirst, Newer
      <4>3. UpTo(call[c].page, call[c].next)'
        BY <1>1, <1>2, <1>3 DEF UpTo
      <4>4. \A i \in 1 .. Len(p) : Before(p[i], call[c].before)'
        BY <1>1, <1>2, <1>3 DEF Before
      <4>5. QED
        BY <1>1, <1>2, <1>3, <4>1, <4>2, <4>3, <4>4 DEF PageInv
    <3>2. QED
      BY <1>1, <1>3, <2>1, <2>2, <3>1 DEF CurrentInv
  <2>3. CASE d # c
    BY <1>1, <1>3, <2>1, <2>3, SamePage DEF CurrentInv
  <2>4. QED
    BY <2>2, <2>3
<1>6. ItemsInv' /\ OneFilter'
  BY <1>1, SameItems DEF OneFilter
<1>7. CurrentInv(c)
  BY <1>1 DEF CallsInv
<1>8. CASE c = <<loadSeq, "first">>
  <2>1. loading /\ call[c].filter = filter /\ call[c].before = None
    BY <1>1, <1>7, <1>8 DEF CurrentInv
  <2>2. base' = {r \in Rows : Matches(r, filter)}
    BY <1>1, <1>8, <2>1
  <2>3. \A d \in CallIds : d[1] = loadSeq /\ call'[d].at = "served" => d = c
    <3> SUFFICES ASSUME NEW d \in CallIds, d[1] = loadSeq, call'[d].at = "served", d # c
                 PROVE  FALSE
      OBVIOUS
    <3>1. d[2] = "more"
      BY <1>8 DEF CallIds
    <3>2. CurrentInv(d) /\ call[d].at = "served"
      BY <1>1, <1>3 DEF CallsInv
    <3>3. QED
      BY <2>1, <3>1, <3>2 DEF CurrentInv
  <2>4. \A r \in base' : Covered(r, p, n)'
    <3>1. \A r \in base' : r \in Rows /\ Matches(r, call[c].filter) /\ Before(r, call[c].before)
      BY <2>1, <2>2 DEF Before
    <3>2. QED
      BY <1>1, <1>2, <3>1 DEF Covered
  <2>5. \A r \in base' : created'[r] # 0 /\ (filter = "closed" => status'[r] = "closed")
    BY <1>1, <2>2 DEF Matches
  <2>6. ASSUME NEW d \in CallIds, d[1] = loadSeq, call'[d].at = "served", NEW r \in base'
        PROVE  Covered(r, call[d].page, call[d].next)'
    BY <1>3, <2>3, <2>4, <2>6 DEF Covered
  <2>7. BaseInv'
    BY <1>1, <2>1, <2>5, <2>6 DEF BaseInv
  <2>8. QED
    BY <1>4, <1>5, <1>6, <2>7 DEF ScreenInv
<1>9. CASE c # <<loadSeq, "first">>
  <2>1. base' = base
    BY <1>1, <1>9
  <2>2. BaseRead' => BaseRead
    BY <1>1, <1>3, <1>9 DEF BaseRead
  <2>3. ASSUME NEW d \in CallIds, d[1] = loadSeq, call'[d].at = "served",
               NEW r \in base, Matches(r, filter), Before(r, call'[d].before)
        PROVE  Covered(r, call'[d].page, call'[d].next)
    <3>1. CASE d = c
      BY <1>1, <1>2, <1>3, <1>7, <2>3, <3>1 DEF CurrentInv, ScreenTypes
    <3>2. CASE d # c
      BY <1>3, <2>3, <3>2 DEF BaseInv
    <3>3. QED
      BY <3>1, <3>2
  <2>4. BaseInv'
    <3>1. ASSUME NEW d \in CallIds, d[1] = loadSeq, call'[d].at = "served",
                 NEW r \in base, Matches(r, filter)', Before(r, call[d].before)'
          PROVE  Covered(r, call[d].page, call[d].next)'
      <4>1. Matches(r, filter) /\ Before(r, call'[d].before)
        BY <1>1, <3>1 DEF Matches, Before
      <4>2. Covered(r, call'[d].page, call'[d].next)
        BY <2>3, <3>1, <4>1
      <4>3. QED
        BY <1>1, <4>2 DEF Covered
    <3>2. ~ loading => \A r \in base : Matches(r, filter)' => Covered(r, items, nextBefore)'
      BY <1>1 DEF BaseInv, Matches, Covered
    <3>3. /\ (\A r \in base : created[r] # 0)'
          /\ (BaseRead => \A r \in base : filter = "closed" => status[r] = "closed")'
      BY <1>1, <2>1, <2>2 DEF BaseInv
    <3>4. QED
      BY <1>1, <2>1, <3>1, <3>2, <3>3 DEF BaseInv
  <2>5. QED
    BY <1>4, <1>5, <1>6, <2>4 DEF ScreenInv
<1>10. QED
  BY <1>8, <1>9

\* A load makes every call before it stale.
LEMMA ScreenLoadFirstPage ==
  ASSUME ScreenInv, BaseInv, NEW f \in Filters, LoadFirstPage(f)
  PROVE  ScreenInv' /\ BaseInv'
<1> USE DEF table
<1> DEFINE c == <<loadSeq + 1, "first">>
           asked == Asked(f, None)
<1>1. /\ ScreenTypes /\ CallsInv /\ ItemsInv
      /\ UNCHANGED <<created, status, items, nextBefore, base>>
      /\ loadSeq < MaxLoads /\ loadSeq' = loadSeq + 1
      /\ filter' = f /\ loading' = TRUE /\ loadingMore' = FALSE
      /\ call' = [call EXCEPT ![c] = asked]
  BY DEF ScreenInv, LoadFirstPage, Send, Asked
<1>2. /\ asked \in CallType /\ asked.at = "sent" /\ asked.filter = f /\ asked.before = None
  BY AskedType, HistoryBounds DEF None
<1>3. loadSeq \in Nat /\ c \in CallIds
  BY <1>1, HistoryBounds DEF ScreenTypes, CallIds, Loads
<1> HIDE DEF asked
<1>4. call'[c] = asked /\ \A d \in CallIds : d # c => call'[d] = call[d]
  BY <1>1, <1>3 DEF ScreenTypes
<1>5. ScreenTypes'
  <2>1. call' \in [CallIds -> CallType]
    BY <1>1, <1>2 DEF ScreenTypes
  <2>2. loadSeq' \in 0 .. MaxLoads
    BY <1>1, HistoryBounds DEF ScreenTypes
  <2>3. QED
    BY <1>1, <2>1, <2>2 DEF ScreenTypes
<1>6. \A d \in CallIds : d[1] = loadSeq' => d = c \/ call'[d].at = "none"
  <2> SUFFICES ASSUME NEW d \in CallIds, d[1] = loadSeq', d # c PROVE call'[d].at = "none"
    OBVIOUS
  <2>1. d[1] > loadSeq
    BY <1>1, <1>3
  <2>2. QED
    BY <1>1, <1>4, <2>1 DEF CallsInv
<1>7. CallsInv'
  <2> SUFFICES ASSUME NEW d \in CallIds
               PROVE  PageInv(d)' /\ CurrentInv(d)' /\ (d[1] > loadSeq => call[d].at = "none")'
    BY DEF CallsInv
  <2>1. PageInv(d) /\ (d[1] > loadSeq => call[d].at = "none")
    BY <1>1 DEF CallsInv
  <2>2. d[1] \in Int
    BY DEF CallIds, Loads
  <2>3. PageInv(d)'
    BY <1>1, <1>2, <1>4, <2>1 DEF PageInv, NewestFirst, Newer, Before, UpTo
  <2>4. CurrentInv(d)'
    BY <1>1, <1>2, <1>4, <1>6 DEF CurrentInv
  <2>5. (d[1] > loadSeq => call[d].at = "none")'
    BY <1>1, <1>3, <1>4, <2>1, <2>2
  <2>6. QED
    BY <2>3, <2>4, <2>5
<1>8. ItemsInv' /\ OneFilter'
  BY <1>1, SameItems DEF OneFilter
<1>9. \A d \in CallIds : d[1] = loadSeq' => call'[d].at # "served"
  BY <1>2, <1>4, <1>6
<1>10. ~ BaseRead'
  BY <1>1, <1>9 DEF BaseRead
<1>11. BaseInv'
  BY <1>1, <1>9, <1>10 DEF BaseInv
<1>12. QED
  BY <1>5, <1>7, <1>8, <1>11 DEF ScreenInv

\* The next page is asked for with the cursor and the filter of the list.
LEMMA ScreenLoadMore ==
  ASSUME ScreenInv, BaseInv, LoadMore
  PROVE  ScreenInv' /\ BaseInv'
<1> USE DEF table
<1> DEFINE c == <<loadSeq, "more">>
           asked == Asked(filter, nextBefore)
<1>1. /\ ScreenTypes /\ CallsInv /\ ItemsInv /\ OneFilter
      /\ UNCHANGED <<created, status, filter, items, nextBefore, loading, loadSeq, base>>
      /\ nextBefore # None /\ ~ loading /\ loadingMore' = TRUE
      /\ call' = [call EXCEPT ![c] = asked]
  BY DEF ScreenInv, LoadMore, Send, Asked
<1>2. /\ asked \in CallType /\ asked.at = "sent" /\ asked.filter = filter
      /\ asked.before = nextBefore
  BY <1>1, AskedType DEF ScreenTypes
<1> HIDE DEF asked
<1>3. \A d \in CallIds : call'[d] = IF d = c THEN asked ELSE call[d]
  BY <1>1 DEF ScreenTypes
<1>4. ScreenTypes'
  <2>1. call' \in [CallIds -> CallType]
    BY <1>1, <1>2 DEF ScreenTypes
  <2>2. QED
    BY <1>1, <2>1 DEF ScreenTypes
<1>5. CallsInv'
  <2> SUFFICES ASSUME NEW d \in CallIds
               PROVE  PageInv(d)' /\ CurrentInv(d)' /\ (d[1] > loadSeq => call[d].at = "none")'
    BY DEF CallsInv
  <2>1. PageInv(d) /\ CurrentInv(d) /\ (d[1] > loadSeq => call[d].at = "none")
    BY <1>1 DEF CallsInv
  <2>2. loadSeq \in Int
    BY <1>1 DEF ScreenTypes
  <2>3. CASE d = c
    BY <1>1, <1>2, <1>3, <2>2, <2>3 DEF PageInv, CurrentInv
  <2>4. CASE d # c
    <3>1. d[1] = loadSeq => d[2] = "first"
      BY <2>4 DEF CallIds
    <3>2. CurrentInv(d)'
      BY <1>1, <1>3, <2>1, <2>4, <3>1 DEF CurrentInv
    <3>3. QED
      BY <1>1, <1>3, <2>1, <2>4, <3>2, SamePage
  <2>5. QED
    BY <2>3, <2>4
<1>6. ItemsInv' /\ OneFilter'
  BY <1>1, SameItems DEF OneFilter
<1>7. BaseInv'
  <2>1. \A d \in CallIds : call'[d].at = "served" => call'[d] = call[d]
    BY <1>2, <1>3
  <2>2. BaseRead
    BY <1>1 DEF BaseRead
  <2>3. QED
    BY <1>1, <2>1, <2>2 DEF BaseInv, Matches, Before, Covered
<1>8. QED
  BY <1>4, <1>5, <1>6, <1>7 DEF ScreenInv

\* A call that is over is as if it had never been made.
LEMMA CallDropped ==
  ASSUME ScreenInv, NEW c \in CallIds, call' = [call EXCEPT ![c] = NoCall],
         UNCHANGED <<created, status>>
  PROVE  /\ call' \in [CallIds -> CallType]
         /\ \A d \in CallIds : call'[d].at # "none" => d # c /\ call'[d] = call[d]
         /\ \A d \in CallIds : PageInv(d)'
<1>1. NoCall \in CallType /\ NoCall.at = "none"
  <2>1. <<>> \in Seq(Rows) /\ None \in 0 .. MaxTime
    BY HistoryBounds DEF None
  <2>2. QED
    BY <2>1 DEF NoCall, CallType, Filters
<1>2. call \in [CallIds -> CallType]
  BY DEF ScreenInv, ScreenTypes
<1>3. call'[c].at = "none" /\ \A d \in CallIds : d # c => call'[d] = call[d]
  BY <1>1, <1>2
<1>4. ASSUME NEW d \in CallIds PROVE PageInv(d)'
  <2>1. CASE d = c
    BY <1>3, <2>1 DEF PageInv
  <2>2. CASE d # c
    BY <1>3, <2>2, SamePage DEF ScreenInv, CallsInv
  <2>3. QED
    BY <2>1, <2>2
<1>5. QED
  BY <1>1, <1>2, <1>3, <1>4

\* Of a load that is no longer the last one, the end of a call changes nothing.
LEMMA ScreenStale ==
  ASSUME ScreenInv, BaseInv, NEW c \in CallIds, call' = [call EXCEPT ![c] = NoCall],
         ~ Current(c), UNCHANGED <<table, screen, base>>
  PROVE  ScreenInv' /\ BaseInv'
<1> USE DEF table, screen
<1>1. ScreenTypes /\ CallsInv /\ ItemsInv /\ OneFilter
  BY DEF ScreenInv
<1>2. /\ call' \in [CallIds -> CallType]
      /\ \A d \in CallIds : call'[d].at # "none" => d # c /\ call'[d] = call[d]
      /\ \A d \in CallIds : PageInv(d)'
  BY CallDropped
<1>3. ScreenTypes'
  BY <1>1, <1>2 DEF ScreenTypes
<1>4. CallsInv'
  BY <1>1, <1>2 DEF CallsInv, CurrentInv
<1>5. ItemsInv' /\ OneFilter'
  BY <1>1, SameItems DEF OneFilter
<1>6. BaseRead' => BaseRead
  BY <1>2 DEF BaseRead
<1>7. BaseInv'
  BY <1>2, <1>6 DEF BaseInv, Matches, Before, Covered
<1>8. QED
  BY <1>3, <1>4, <1>5, <1>7 DEF ScreenInv

\* The first page becomes the list.
LEMMA ScreenFirstPage ==
  ASSUME ScreenInv, BaseInv, NEW c \in CallIds, Answered(c), Current(c), c[2] = "first"
  PROVE  ScreenInv' /\ BaseInv'
<1> USE DEF table
<1>1. ScreenTypes /\ CallsInv /\ PageInv(c) /\ CurrentInv(c)
  BY DEF ScreenInv, CallsInv
<1>2. /\ call[c].at = "served" /\ c[1] = loadSeq /\ c = <<loadSeq, "first">>
      /\ call' = [call EXCEPT ![c] = NoCall]
      /\ items' = call[c].page /\ nextBefore' = call[c].next
      /\ ~ loading' /\ loadingMore' = loadingMore
      /\ UNCHANGED <<created, status, filter, loadSeq, base>>
  BY <1>1 DEF Answered, Current, CurrentInv, CallIds, ScreenTypes
<1>3. loading /\ call[c].filter = filter /\ call[c].before = None
  BY <1>1, <1>2 DEF CurrentInv
<1>4. /\ call' \in [CallIds -> CallType]
      /\ \A d \in CallIds : call'[d].at # "none" => d # c /\ call'[d] = call[d]
      /\ \A d \in CallIds : PageInv(d)'
  BY <1>2, CallDropped
<1>5. \A d \in CallIds : d[1] = loadSeq => call'[d].at = "none"
  <2> SUFFICES ASSUME NEW d \in CallIds, d[1] = loadSeq, call'[d].at # "none" PROVE FALSE
    OBVIOUS
  <2>1. d[2] = "more" /\ call[d].at # "none"
    BY <1>2, <1>4 DEF CallIds
  <2>2. CurrentInv(d)
    BY <1>1 DEF CallsInv
  <2>3. QED
    BY <1>3, <2>1, <2>2 DEF CurrentInv
<1>6. ScreenTypes'
  <2>1. items' \in Seq(Rows) /\ nextBefore' \in 0 .. MaxTime
    BY <1>1, <1>2 DEF ScreenTypes, CallType
  <2>2. loading' \in BOOLEAN
    BY DEF Answered, Current
  <2>3. QED
    BY <1>1, <1>2, <1>4, <2>1, <2>2 DEF ScreenTypes
<1>7. CallsInv'
  BY <1>1, <1>2, <1>4, <1>5 DEF CallsInv, CurrentInv
<1>8. ItemsInv' /\ OneFilter'
  <2>1. NewestFirst(call[c].page) /\ UpTo(call[c].page, call[c].next)
    BY <1>1, <1>2 DEF PageInv
  <2>2. ItemsInv'
    BY <1>2, <2>1, SMTT(40) DEF ItemsInv, NewestFirst, UpTo, Newer
  <2>3. OneFilter'
    BY <1>1, <1>2, <1>3 DEF OneFilter, PageInv
  <2>4. QED
    BY <2>2, <2>3
<1>9. BaseInv'
  <2>1. BaseRead
    BY <1>2 DEF BaseRead
  <2>2. \A r \in base : Matches(r, filter) => Covered(r, call[c].page, call[c].next)
    BY <1>2, <1>3 DEF BaseInv, Before
  <2>3. \A r \in base : Matches(r, filter)' => Covered(r, items, nextBefore)'
    BY <1>2, <2>2 DEF Matches, Covered
  <2>4. QED
    BY <1>2, <1>5, <2>1, <2>3 DEF BaseInv
<1>10. QED
  BY <1>6, <1>7, <1>8, <1>9 DEF ScreenInv

\* A next page goes to the end of the list: its rows are all beyond the cursor.
LEMMA ScreenNextPage ==
  ASSUME ScreenInv, BaseInv, NEW c \in CallIds, Answered(c), Current(c), c[2] = "more"
  PROVE  ScreenInv' /\ BaseInv'
<1> USE DEF table
<1>1. ScreenTypes /\ CallsInv /\ ItemsInv /\ OneFilter /\ PageInv(c) /\ CurrentInv(c)
  BY DEF ScreenInv, CallsInv
<1>0. PICK page, next : page = call[c].page /\ next = call[c].next
  OBVIOUS
<1>2. /\ call[c].at = "served" /\ c[1] = loadSeq /\ c = <<loadSeq, "more">>
      /\ call' = [call EXCEPT ![c] = NoCall]
      /\ items' = items \o page /\ nextBefore' = next
      /\ loading' = loading /\ loadingMore' = FALSE
      /\ UNCHANGED <<created, status, filter, loadSeq, base>>
  BY <1>0, <1>1 DEF Answered, Current, CurrentInv, CallIds, ScreenTypes
<1>3. /\ ~ loading /\ call[c].filter = filter
      /\ call[c].before = nextBefore /\ nextBefore # None
  BY <1>1, <1>2 DEF CurrentInv
<1>4. /\ call' \in [CallIds -> CallType]
      /\ \A d \in CallIds : call'[d].at # "none" => d # c /\ call'[d] = call[d]
      /\ \A d \in CallIds : PageInv(d)'
  BY <1>2, CallDropped
<1>5. \A d \in CallIds : d[1] = loadSeq => call'[d].at = "none"
  <2> SUFFICES ASSUME NEW d \in CallIds, d[1] = loadSeq, call'[d].at # "none" PROVE FALSE
    OBVIOUS
  <2>1. d[2] = "first" /\ call[d].at # "none"
    BY <1>2, <1>4 DEF CallIds
  <2>2. CurrentInv(d)
    BY <1>1 DEF CallsInv
  <2>3. QED
    BY <1>3, <2>1, <2>2 DEF CurrentInv
<1>6. /\ page \in Seq(Rows) /\ next \in 0 .. MaxTime /\ items \in Seq(Rows)
      /\ nextBefore \in 0 .. MaxTime
      /\ \A r \in Rows : created[r] \in 0 .. MaxTime
  BY <1>0, <1>1 DEF ScreenTypes, CallType
<1>7. /\ items' \in Seq(Rows) /\ Len(items') = Len(items) + Len(page)
      /\ \A i \in 1 .. Len(items) : items'[i] = items[i]
      /\ \A i \in Len(items) + 1 .. Len(items') :
           items'[i] = page[i - Len(items)] /\ i - Len(items) \in 1 .. Len(page)
  BY <1>2, <1>6
<1>8. ScreenTypes'
  BY <1>1, <1>2, <1>4, <1>6, <1>7 DEF ScreenTypes
<1>9. CallsInv'
  BY <1>1, <1>2, <1>4, <1>5 DEF CallsInv, CurrentInv
<1>10. /\ NewestFirst(page) /\ UpTo(page, next)
       /\ \A i \in 1 .. Len(page) : created[page[i]] < nextBefore
       /\ next # None => next < nextBefore
       /\ filter = "closed" => \A i \in 1 .. Len(page) : status[page[i]] = "closed"
  BY <1>0, <1>1, <1>2, <1>3 DEF PageInv, Before
<1>11. NewestFirst(items) /\ \A i \in 1 .. Len(items) : created[items[i]] >= nextBefore
  BY <1>1, <1>3 DEF ItemsInv, UpTo
<1>12. ItemsInv'
  <2>1. \A i \in 1 .. Len(items') : i \in 1 .. Len(items) \/ i \in Len(items) + 1 .. Len(items')
    BY <1>6, <1>7
  <2>2. ASSUME NEW i \in 1 .. Len(items') PROVE created'[items'[i]] # 0
    BY <1>2, <1>7, <1>10, <1>11, <2>1 DEF NewestFirst
  <2>3. ASSUME NEW i \in 1 .. Len(items'), NEW j \in 1 .. Len(items'), i < j
        PROVE  Newer(items'[i], items'[j])
    <3>1. CASE j \in 1 .. Len(items)
      <4>1. i \in 1 .. Len(items)
        BY <2>3, <3>1
      <4>2. QED
        BY <1>7, <1>11, <2>3, <3>1, <4>1 DEF NewestFirst
    <3>2. CASE i \in Len(items) + 1 .. Len(items')
      <4>1. j \in Len(items) + 1 .. Len(items')
        BY <1>6, <2>3, <3>2
      <4>2. i - Len(items) < j - Len(items)
        BY <1>6, <2>3, <3>2, <4>1
      <4>3. QED
        BY <1>7, <1>10, <3>2, <4>1, <4>2 DEF NewestFirst
    <3>3. CASE i \in 1 .. Len(items) /\ j \in Len(items) + 1 .. Len(items')
      <4>1. created[items'[i]] >= nextBefore /\ created[items'[j]] < nextBefore
        BY <1>7, <1>10, <1>11, <3>3
      <4>2. created[items'[i]] \in Int /\ created[items'[j]] \in Int
        BY <1>6, <1>7
      <4>3. QED
        BY <1>6, <4>1, <4>2 DEF Newer
    <3>4. QED
      BY <2>1, <3>1, <3>2, <3>3
  <2>4. ASSUME next # None, NEW i \in 1 .. Len(items') PROVE created[items'[i]] >= next
    <3>1. CASE i \in 1 .. Len(items)
      <4>1. created[items[i]] >= nextBefore /\ created[items[i]] \in 0 .. MaxTime
        BY <1>6, <1>11, <3>1
      <4>2. QED
        BY <1>6, <1>7, <1>10, <2>4, <3>1, <4>1
    <3>2. CASE i \in Len(items) + 1 .. Len(items')
      BY <1>7, <1>10, <2>4, <3>2, SMTT(40) DEF UpTo
    <3>3. QED
      BY <2>1, <3>1, <3>2
  <2>5. NewestFirst(items)'
    <3>1. created' = created
      BY <1>2
    <3>2. QED
      BY <2>2, <2>3, <3>1, SMTT(40) DEF NewestFirst, Newer
  <2>6. UpTo(items, nextBefore)'
    BY <1>2, <2>4 DEF UpTo
  <2>7. QED
    BY <2>5, <2>6 DEF ItemsInv
<1>13. OneFilter'
  <2> SUFFICES ASSUME filter' = "closed", NEW i \in 1 .. Len(items')
               PROVE  status'[items'[i]] = "closed"
    BY DEF OneFilter
  <2>1. CASE i \in 1 .. Len(items)
    BY <1>1, <1>2, <1>3, <1>7, <2>1 DEF OneFilter
  <2>2. CASE i \in Len(items) + 1 .. Len(items')
    BY <1>2, <1>7, <1>10, <2>2
  <2>3. QED
    BY <1>6, <1>7, <2>1, <2>2
<1>14. BaseInv'
  <2>1. BaseRead
    BY <1>3 DEF BaseRead
  <2>2. ASSUME NEW r \in base, Matches(r, filter)
        PROVE  \/ next # None /\ created[r] < next
               \/ \E i \in 1 .. Len(items') : created[items'[i]] = created[r]
    <3>1. Covered(r, items, nextBefore)
      BY <1>3, <2>2 DEF BaseInv
    <3>2. CASE \E i \in 1 .. Len(items) : created[items[i]] = created[r]
      <4>1. PICK i \in 1 .. Len(items) : created[items[i]] = created[r]
        BY <3>2
      <4>2. i \in 1 .. Len(items') /\ created[items'[i]] = created[r]
        BY <1>6, <1>7, <4>1
      <4>3. QED
        BY <4>2
    <3>3. CASE created[r] < nextBefore
      <4>1. Covered(r, page, next)
        BY <1>0, <1>2, <1>3, <2>2, <3>3 DEF BaseInv, Before
      <4>2. CASE \E i \in 1 .. Len(page) : created[page[i]] = created[r]
        <5>1. PICK i \in 1 .. Len(page) : created[page[i]] = created[r]
          BY <4>2
        <5>2. Len(items) + i \in Len(items) + 1 .. Len(items')
          BY <1>6, <1>7
        <5>3. items'[Len(items) + i] = page[i]
          BY <1>2, <1>6
        <5>4. Len(items) + i \in 1 .. Len(items')
          BY <1>6, <5>2
        <5>5. QED
          BY <5>1, <5>3, <5>4
      <4>3. QED
        BY <4>1, <4>2 DEF Covered
    <3>4. QED
      BY <3>1, <3>2, <3>3 DEF Covered
  <2>3. \A r \in base : Matches(r, filter)' => Covered(r, items, nextBefore)'
    BY <1>2, <2>2 DEF Matches, Covered
  <2>4. QED
    BY <1>2, <1>5, <2>1, <2>3 DEF BaseInv
<1>15. QED
  BY <1>8, <1>9, <1>12, <1>13, <1>14 DEF ScreenInv

\* An error empties the list of a first page and leaves that of a next one.
LEMMA ScreenCallFails ==
  ASSUME ScreenInv, BaseInv, NEW c \in CallIds, CallFails(c), Current(c)
  PROVE  ScreenInv' /\ BaseInv'
<1> USE DEF table
<1>1. ScreenTypes /\ CallsInv /\ ItemsInv /\ OneFilter /\ CurrentInv(c)
  BY DEF ScreenInv, CallsInv
<1>2. /\ call[c].at # "none" /\ c[1] = loadSeq
      /\ call' = [call EXCEPT ![c] = NoCall]
      /\ UNCHANGED <<created, status, filter, loadSeq>>
  BY DEF CallFails, Current
<1>3. /\ call' \in [CallIds -> CallType]
      /\ \A d \in CallIds : call'[d].at # "none" => d # c /\ call'[d] = call[d]
      /\ \A d \in CallIds : PageInv(d)'
  BY <1>2, CallDropped
<1>4. \A d \in CallIds : d[1] = loadSeq => call'[d].at = "none"
  <2> SUFFICES ASSUME NEW d \in CallIds, d[1] = loadSeq, call'[d].at # "none" PROVE FALSE
    OBVIOUS
  <2>1. d[2] # c[2] /\ call[d].at # "none"
    BY <1>2, <1>3 DEF CallIds
  <2>2. CurrentInv(d)
    BY <1>1 DEF CallsInv
  <2>3. QED
    BY <1>1, <1>2, <2>1, <2>2 DEF CurrentInv, CallIds
<1>5. CASE c[2] = "first"
  <2>1. c = <<loadSeq, "first">>
    BY <1>2, <1>5 DEF CallIds
  <2>2. /\ items' = <<>> /\ nextBefore' = None /\ base' = {}
        /\ loading' = FALSE /\ loadingMore' = loadingMore
    BY <1>1, <1>5, <2>1 DEF CallFails, Current, ScreenTypes
  <2>3. ScreenTypes'
    <3>1. items' \in Seq(Rows) /\ nextBefore' \in 0 .. MaxTime /\ base' \subseteq Rows
      BY <2>2, HistoryBounds DEF None
    <3>2. loading' \in BOOLEAN /\ loadingMore' \in BOOLEAN
      BY <1>1, <2>2 DEF ScreenTypes
    <3>3. QED
      BY <1>1, <1>2, <1>3, <3>1, <3>2 DEF ScreenTypes
  <2>4. CallsInv'
    BY <1>1, <1>2, <1>3, <1>4 DEF CallsInv, CurrentInv
  <2>5. ItemsInv' /\ OneFilter' /\ BaseInv'
    BY <1>2, <1>4, <2>2 DEF ItemsInv, NewestFirst, UpTo, OneFilter, BaseInv
  <2>6. QED
    BY <2>3, <2>4, <2>5 DEF ScreenInv
<1>6. CASE c[2] = "more"
  <2>1. c # <<loadSeq, "first">> /\ ~ loading
    BY <1>1, <1>2, <1>6 DEF CurrentInv
  <2>2. UNCHANGED <<items, nextBefore, base>> /\ loading' = loading /\ loadingMore' = FALSE
    BY <1>1, <1>6, <2>1 DEF CallFails, Current, ScreenTypes
  <2>3. ScreenTypes'
    BY <1>1, <1>2, <1>3, <2>2 DEF ScreenTypes
  <2>4. CallsInv'
    BY <1>1, <1>2, <1>3, <1>4 DEF CallsInv, CurrentInv
  <2>5. ItemsInv' /\ OneFilter'
    BY <1>1, <1>2, <2>2, SameItems DEF OneFilter
  <2>6. BaseInv'
    BY <1>2, <1>4, <2>1, <2>2 DEF BaseInv, BaseRead, Matches, Covered
  <2>7. QED
    BY <2>3, <2>4, <2>5, <2>6 DEF ScreenInv
<1>7. QED
  BY <1>5, <1>6 DEF CallIds

\* Every step keeps the invariants.
LEMMA ScreenStep == ScreenInv /\ BaseInv /\ [Next]_vars => ScreenInv' /\ BaseInv'
<1> SUFFICES ASSUME ScreenInv, BaseInv, [Next]_vars PROVE ScreenInv' /\ BaseInv'
  OBVIOUS
<1>1. CASE UNCHANGED vars
  <2>1. /\ UNCHANGED <<created, status, filter, items, nextBefore, loading, loadingMore>>
        /\ UNCHANGED <<loadSeq, call, base>>
    BY <1>1 DEF vars, table, screen
  <2>2. ScreenTypes' /\ ItemsInv' /\ OneFilter'
    BY <2>1, SameItems DEF ScreenInv, ScreenTypes, OneFilter
  <2>3. CallsInv'
    BY <2>1, SamePage DEF ScreenInv, CallsInv, CurrentInv
  <2>4. BaseInv'
    BY <2>1 DEF BaseInv, BaseRead, Matches, Before, Covered
  <2>5. QED
    BY <2>2, <2>3, <2>4 DEF ScreenInv
<1>2. ASSUME NEW c \in CallIds, Answered(c) \/ CallFails(c) PROVE ScreenInv' /\ BaseInv'
  <2>1. CASE ~ Current(c)
    <3>1. c # <<loadSeq, "first">>
      BY <2>1 DEF Current
    <3>2. call' = [call EXCEPT ![c] = NoCall] /\ UNCHANGED <<table, screen, base>>
      BY <1>2, <2>1, <3>1 DEF Answered, CallFails
    <3>3. QED
      BY <2>1, <3>2, ScreenStale
  <2>2. CASE Current(c)
    BY <1>2, <2>2, ScreenFirstPage, ScreenNextPage, ScreenCallFails DEF CallIds
  <2>3. QED
    BY <2>1, <2>2
<1>3. DOMAIN call = CallIds
  BY DEF ScreenInv, ScreenTypes
<1>4. QED
  BY <1>1, <1>2, <1>3, ScreenCreate, ScreenDecide, ScreenServe, ScreenLoadFirstPage,
     ScreenLoadMore
     DEF Next, CallStep, Rest

\* For any number of rows, created_at values, loads and pages of any size: the
\* list is newest first and shows no request twice (ListSorted).
THEOREM HistorySorted == Spec => []ListSorted
<1>1. ScreenInv /\ BaseInv => ListSorted
  BY DEF ScreenInv, ItemsInv, NewestFirst, ListSorted
<1>2. QED
  BY <1>1, ScreenInit, ScreenStep, PTL DEF Spec

\* A late answer to an old filter never shows (OneFilter).
THEOREM HistoryOneFilter == Spec => []OneFilter
<1>1. ScreenInv /\ BaseInv => OneFilter
  BY DEF ScreenInv
<1>2. QED
  BY <1>1, ScreenInit, ScreenStep, PTL DEF Spec

\* Paging to the end leaves out no row but those that share the created_at of
\* one it shows (NoRowSkipped).
THEOREM HistoryComplete == Spec => []NoRowSkipped
<1>1. ScreenInv /\ BaseInv => NoRowSkipped
  BY DEF BaseInv, Covered, NoRowSkipped
<1>2. QED
  BY <1>1, ScreenInit, ScreenStep, PTL DEF Spec

-----------------------------------------------------------------------------
(* The event watcher *)

Points == {"off", "poll", "prime", "read", "report"}

WatcherTypes ==
  /\ log \in Seq(Kinds)
  /\ pc \in [Processes -> Points]
  /\ last \in [Processes -> Nat]
  /\ primed \in [Processes -> BOOLEAN]
  /\ raw \in [Processes -> SUBSET Nat]
  /\ batch \in [Processes -> Seq(Nat)]
  /\ trail \in [Processes -> Seq(Nat)]
  /\ start \in [Processes -> Nat]
  /\ blind \in [Processes -> BOOLEAN]

\* What a run has reported and has still to report.
Seen(w) == trail[w] \o batch[w]

\* That is an increasing list of accepted logins up to last, without a gap.
SeenInv(w) ==
  /\ \A i \in 1 .. Len(Seen(w)) :
       /\ Seen(w)[i] \in Ids /\ Seen(w)[i] <= last[w]
       /\ log[Seen(w)[i]] = "accepted"
       /\ (w \in Daemons /\ Seen(w)[i] <= start[w]) => blind[w]
  /\ \A i, j \in 1 .. Len(Seen(w)) : i < j => Seen(w)[i] < Seen(w)[j]
  /\ pc[w] # "off" =>
       \A i \in 1 .. Len(Seen(w)) : \A n \in Seen(w)[i] .. last[w] :
         log[n] = "accepted" => \E j \in 1 .. Len(Seen(w)) : Seen(w)[j] = n

\* A daemon whose first query did not fail is past the records it found.
CursorInv(w) ==
  /\ last[w] \in 0 .. Len(log) /\ start[w] \in 0 .. Len(log)
  /\ ~ primed[w] => last[w] = 0 /\ Seen(w) = <<>> /\ pc[w] \in {"off", "poll"}
  /\ (w \in Daemons /\ pc[w] \in {"poll", "read", "report"} /\ primed[w] /\ ~ blind[w])
       => last[w] >= start[w]
  /\ pc[w] \in {"poll", "prime", "read"} => batch[w] = <<>>

\* What a query returned is past last, and without a gap after its first record
\* or, once something was reported, after last.
RawInv(w) ==
  /\ pc[w] \in {"prime", "read"} => \A r \in raw[w] : r > last[w] /\ r <= Len(log)
  /\ pc[w] = "prime" => /\ Seen(w) = <<>>
                        /\ start[w] = 0 \/ \E r \in raw[w] : r >= start[w]
  /\ pc[w] = "read" => \A r \in raw[w] : \A n \in last[w] + 1 .. r :
       (trail[w] # <<>> \/ \E q \in raw[w] : q <= n) => n \in raw[w]

RunInv(w) == SeenInv(w) /\ CursorInv(w) /\ RawInv(w)
WatcherInv == WatcherTypes /\ \A w \in Processes : RunInv(w)

\* No run has started.
LEMMA WatcherInit == WatchInit => WatcherInv
<1> SUFFICES ASSUME WatchInit PROVE WatcherInv
  OBVIOUS
<1>1. log \in Seq(Kinds)
  <2>1. PICK n \in 0 .. MaxLog : log \in [1 .. n -> Kinds]
    BY DEF WatchInit
  <2>2. QED
    BY <2>1
<1>2. Len(log) \in Nat
  BY <1>1
<1>3. WatcherTypes
  BY <1>1 DEF WatchInit, WatcherTypes, Points
<1>4. ASSUME NEW w \in Processes PROVE RunInv(w)
  <2>1. /\ pc[w] = "off" /\ last[w] = 0 /\ raw[w] = {} /\ batch[w] = <<>>
        /\ trail[w] = <<>> /\ start[w] = 0 /\ primed[w] = FALSE
    BY DEF WatchInit
  <2>2. Seen(w) = <<>>
    BY <2>1 DEF Seen
  <2>3. SeenInv(w)
    BY <2>2 DEF SeenInv
  <2>4. CursorInv(w) /\ RawInv(w)
    BY <1>2, <2>1, <2>2 DEF CursorInv, RawInv
  <2>5. QED
    BY <2>3, <2>4 DEF RunInv
<1>5. QED
  BY <1>3, <1>4 DEF WatcherInv

\* The log only grows: what holds of a run holds after a step that leaves it alone.
LEMMA OtherRun ==
  ASSUME WatcherTypes, NEW w \in Processes, RunInv(w),
         log' = log \/ \E kind \in Kinds : log' = Append(log, kind),
         pc'[w] = pc[w], last'[w] = last[w], primed'[w] = primed[w], raw'[w] = raw[w],
         batch'[w] = batch[w], trail'[w] = trail[w], start'[w] = start[w],
         blind'[w] = blind[w]
  PROVE  RunInv(w)'
<1>1. /\ Len(log) \in Nat /\ Len(log') \in Nat /\ Len(log) <= Len(log')
      /\ \A n \in 1 .. Len(log) : log'[n] = log[n]
  BY DEF WatcherTypes
<1>2. Seen(w)' = Seen(w) /\ Seen(w) \in Seq(Nat)
  BY DEF Seen, WatcherTypes
<1>3. last[w] \in 0 .. Len(log) /\ start[w] \in 0 .. Len(log)
  BY DEF RunInv, CursorInv
<1>4. SeenInv(w)'
  <2>1. \A i \in 1 .. Len(Seen(w)) : Seen(w)[i] \in 1 .. Len(log)
    BY DEF RunInv, SeenInv, Ids
  <2> SUFFICES
        /\ \A i \in 1 .. Len(Seen(w)) :
             /\ Seen(w)[i] \in 1 .. Len(log') /\ Seen(w)[i] <= last[w]
             /\ log'[Seen(w)[i]] = "accepted"
             /\ (w \in Daemons /\ Seen(w)[i] <= start[w]) => blind[w]
        /\ \A i, j \in 1 .. Len(Seen(w)) : i < j => Seen(w)[i] < Seen(w)[j]
        /\ pc[w] # "off" =>
             \A i \in 1 .. Len(Seen(w)) : \A n \in Seen(w)[i] .. last[w] :
               log'[n] = "accepted" => \E j \in 1 .. Len(Seen(w)) : Seen(w)[j] = n
    BY <1>2 DEF SeenInv, Ids
  <2>2. \A i \in 1 .. Len(Seen(w)) :
             /\ Seen(w)[i] \in 1 .. Len(log') /\ Seen(w)[i] <= last[w]
             /\ log'[Seen(w)[i]] = "accepted"
             /\ (w \in Daemons /\ Seen(w)[i] <= start[w]) => blind[w]
    BY <1>1, <2>1 DEF RunInv, SeenInv
  <2>3. \A i, j \in 1 .. Len(Seen(w)) : i < j => Seen(w)[i] < Seen(w)[j]
    BY DEF RunInv, SeenInv
  <2>4. ASSUME pc[w] # "off", NEW i \in 1 .. Len(Seen(w)), NEW n \in Seen(w)[i] .. last[w],
               log'[n] = "accepted"
        PROVE  \E j \in 1 .. Len(Seen(w)) : Seen(w)[j] = n
    <3>1. n \in 1 .. Len(log)
      BY <1>1, <1>3, <2>1
    <3>2. log[n] = "accepted"
      BY <1>1, <2>4, <3>1
    <3>3. QED
      BY <2>4, <3>2 DEF RunInv, SeenInv
  <2>5. QED
    BY <2>2, <2>3, <2>4
<1>5. CursorInv(w)'
  BY <1>1, <1>2 DEF RunInv, CursorInv
<1>6. RawInv(w)'
  <2>1. raw[w] \subseteq Nat
    BY DEF WatcherTypes
  <2>2. pc[w] \in {"prime", "read"} => \A r \in raw[w] : r > last[w] /\ r <= Len(log')
    BY <1>1, <2>1 DEF RunInv, RawInv
  <2>3. QED
    BY <1>2, <2>2 DEF RunInv, RawInv
<1>7. QED
  BY <1>4, <1>5, <1>6 DEF RunInv

\* Moving the head of one list to the end of the other keeps them together.
LEMMA HeadMoves ==
  ASSUME NEW s \in Seq(Nat), NEW t \in Seq(Nat), t # <<>>
  PROVE  Append(s, Head(t)) \o Tail(t) = s \o t
<1>1. Head(t) \in Nat /\ Tail(t) \in Seq(Nat) /\ <<Head(t)>> \in Seq(Nat)
  BY HeadTailProperties
<1>2. <<Head(t)>> \o Tail(t) = t
  <2>1. /\ Len(<<Head(t)>> \o Tail(t)) = Len(t)
        /\ \A i \in 1 .. Len(t) :
             (<<Head(t)>> \o Tail(t))[i] = IF i = 1 THEN t[1] ELSE Tail(t)[i - 1]
    BY <1>1, ConcatProperties
  <2>2. \A i \in 1 .. Len(t) : (<<Head(t)>> \o Tail(t))[i] = t[i]
    BY <2>1, HeadTailProperties
  <2>3. <<Head(t)>> \o Tail(t) \in Seq(Nat)
    BY <1>1, ConcatProperties
  <2>4. QED
    BY <2>1, <2>2, <2>3, SeqEqual
<1>3. Append(s, Head(t)) = s \o <<Head(t)>>
  BY <1>1, AppendIsConcat
<1>4. (s \o <<Head(t)>>) \o Tail(t) = s \o (<<Head(t)>> \o Tail(t))
  BY <1>1, ConcatAssociative
<1>5. QED
  BY <1>2, <1>3, <1>4

\* A step of one run leaves the others alone.
LEMMA OneRun ==
  ASSUME WatcherInv, NEW w \in Processes, log' = log, WatcherTypes', RunInv(w)',
         \A v \in Processes \ {w} :
           /\ pc'[v] = pc[v] /\ last'[v] = last[v] /\ primed'[v] = primed[v]
           /\ raw'[v] = raw[v] /\ batch'[v] = batch[v] /\ trail'[v] = trail[v]
           /\ start'[v] = start[v] /\ blind'[v] = blind[v]
  PROVE  WatcherInv'
<1>1. ASSUME NEW v \in Processes, v # w PROVE RunInv(v)'
  <2>1. WatcherTypes /\ RunInv(v)
    BY DEF WatcherInv
  <2>2. QED
    BY <1>1, <2>1, OtherRun
<1>2. \A v \in Processes : RunInv(v)'
  BY <1>1
<1>3. QED
  BY <1>2 DEF WatcherInv, Processes

\* A new record is past every cursor.
LEMMA WatcherWrite ==
  ASSUME WatcherInv, NEW kind \in Kinds, Write(kind)
  PROVE  WatcherInv'
<1>1. WatcherTypes'
  BY DEF WatcherInv, WatcherTypes, Write, Processes
<1>2. ASSUME NEW w \in Processes PROVE RunInv(w)'
  <2>1. WatcherTypes /\ RunInv(w)
    BY DEF WatcherInv
  <2>2. QED
    BY <2>1, OtherRun DEF Write
<1>3. QED
  BY <1>1, <1>2 DEF WatcherInv, Processes

\* A new run has seen nothing.
LEMMA WatcherLaunch ==
  ASSUME WatcherInv, NEW w \in Processes, Launch(w)
  PROVE  WatcherInv'
<1>1. WatcherTypes /\ Len(log) \in Nat
  BY DEF WatcherInv, WatcherTypes
<1>2. WatcherTypes'
  BY <1>1 DEF WatcherTypes, Launch, Goto, Points, Processes
<1>3. /\ pc'[w] = "poll" /\ last'[w] = 0 /\ primed'[w] = FALSE /\ batch'[w] = <<>>
      /\ trail'[w] = <<>> /\ start'[w] = Len(log) /\ log' = log
  BY <1>1 DEF WatcherTypes, Launch, Goto
<1>4. Seen(w)' = <<>>
  BY <1>3 DEF Seen
<1>5. SeenInv(w)'
  BY <1>4 DEF SeenInv
<1>6. CursorInv(w)' /\ RawInv(w)'
  BY <1>1, <1>3, <1>4 DEF CursorInv, RawInv
<1>7. RunInv(w)'
  BY <1>5, <1>6 DEF RunInv
<1>8. QED
  BY <1>1, <1>2, <1>7, OneRun DEF WatcherTypes, Launch, Goto

\* A step that keeps what a run has seen, and does not start it, keeps SeenInv.
LEMMA SameSeen ==
  ASSUME NEW w, SeenInv(w), log' = log, last'[w] = last[w], start'[w] = start[w],
         blind[w] => blind'[w], Seen(w)' = Seen(w), pc[w] = "off" => pc'[w] = "off"
  PROVE  SeenInv(w)'
BY DEF SeenInv, Ids

\* The records a query may return.
LEMMA Found ==
  ASSUME WatcherInv, NEW w \in Processes, NEW found, pc[w] = "poll",
         found \in IF primed[w] THEN {NewRecords(w)} ELSE FirstQuery(w)
  PROVE  /\ found \subseteq Nat
         /\ \A r \in found : r > last[w] /\ r <= Len(log)
         /\ primed[w] \/ w \in Onces => \A r \in found : \A n \in last[w] + 1 .. r :
              (trail[w] # <<>> \/ \E q \in found : q <= n) => n \in found
         /\ ~ (primed[w] \/ w \in Onces) => start[w] = 0 \/ \E r \in found : r >= start[w]
<1>1. /\ Len(log) \in Nat /\ last[w] \in 0 .. Len(log) /\ start[w] \in 0 .. Len(log)
      /\ ~ primed[w] => last[w] = 0 /\ trail[w] = <<>>
  <2>1. /\ WatcherTypes /\ last[w] \in 0 .. Len(log) /\ start[w] \in 0 .. Len(log)
        /\ ~ primed[w] => last[w] = 0 /\ Seen(w) = <<>>
    BY DEF WatcherInv, RunInv, CursorInv
  <2>2. trail[w] \in Seq(Nat) /\ batch[w] \in Seq(Nat) /\ Len(log) \in Nat
    BY <2>1 DEF WatcherTypes
  <2>3. ~ primed[w] => trail[w] = <<>>
    BY <2>1, <2>2, ConcatSimplifications DEF Seen
  <2>4. QED
    BY <2>1, <2>2, <2>3
<1>2. CASE primed[w]
  <2>1. found = {i \in 1 .. Len(log) : i > last[w]}
    BY <1>2 DEF NewRecords, Ids
  <2>2. QED
    BY <1>1, <1>2, <2>1
<1>3. CASE ~ primed[w] /\ w \in Onces
  <2>1. PICK n \in 0 .. Len(log) : found = {i \in 1 .. Len(log) : i > n}
    BY <1>3 DEF FirstQuery, Ids
  <2>2. QED
    BY <1>1, <1>3, <2>1
<1>4. CASE ~ primed[w] /\ w \notin Onces
  <2>1. found = {i \in 1 .. Len(log) : i = Len(log)}
    BY <1>4 DEF FirstQuery, Ids
  <2>2. QED
    BY <1>1, <1>4, <2>1
<1>5. QED
  BY <1>2, <1>3, <1>4

\* The query moves no cursor: what it found is between last and the end of the log.
LEMMA WatcherQuery ==
  ASSUME WatcherInv, NEW w \in Processes, Query(w)
  PROVE  WatcherInv'
<1>1. WatcherTypes /\ SeenInv(w) /\ CursorInv(w)
  BY DEF WatcherInv, RunInv
<1>2. PICK found \in IF primed[w] THEN {NewRecords(w)} ELSE FirstQuery(w) :
        raw' = [raw EXCEPT ![w] = found]
  BY DEF Query
<1>3. /\ pc[w] = "poll" /\ UNCHANGED <<log, last, batch, trail, start, blind>>
      /\ pc' = [pc EXCEPT ![w] = IF primed[w] \/ w \in Onces THEN "read" ELSE "prime"]
      /\ primed' = [primed EXCEPT ![w] = TRUE]
  BY DEF Query, Goto
<1>4. /\ found \subseteq Nat
      /\ \A r \in found : r > last[w] /\ r <= Len(log)
      /\ primed[w] \/ w \in Onces => \A r \in found : \A n \in last[w] + 1 .. r :
              (trail[w] # <<>> \/ \E q \in found : q <= n) => n \in found
      /\ ~ (primed[w] \/ w \in Onces) => start[w] = 0 \/ \E r \in found : r >= start[w]
  BY <1>3, Found
<1>5. WatcherTypes'
  BY <1>1, <1>2, <1>3, <1>4 DEF WatcherTypes, Points, Processes
<1>6. /\ raw'[w] = found /\ primed'[w] = TRUE
      /\ pc'[w] = IF primed[w] \/ w \in Onces THEN "read" ELSE "prime"
  BY <1>1, <1>2, <1>3 DEF WatcherTypes
<1>7. Seen(w)' = Seen(w)
  BY <1>3 DEF Seen
<1>8. SeenInv(w)'
  BY <1>1, <1>3, <1>7, SameSeen
<1>9. CursorInv(w)'
  <2>1. w \in Daemons => w \notin Onces
    BY WatcherAssumption
  <2>2. QED
    BY <1>1, <1>3, <1>6, <2>1 DEF CursorInv
<1>10. RawInv(w)'
  <2>1. CASE primed[w] \/ w \in Onces
    <3>1. pc'[w] = "read"
      BY <1>6, <2>1
    <3>2. \A r \in raw'[w] : \A n \in last'[w] + 1 .. r :
            (trail'[w] # <<>> \/ \E q \in raw'[w] : q <= n) => n \in raw'[w]
      BY <1>3, <1>4, <1>6, <2>1
    <3>3. QED
      BY <1>3, <1>4, <1>6, <3>1, <3>2 DEF RawInv
  <2>2. CASE ~ (primed[w] \/ w \in Onces)
    <3>1. pc'[w] = "prime" /\ Seen(w)' = <<>>
      BY <1>1, <1>6, <1>7, <2>2 DEF CursorInv
    <3>2. start'[w] = 0 \/ \E r \in raw'[w] : r >= start'[w]
      BY <1>3, <1>4, <1>6, <2>2
    <3>3. QED
      BY <1>3, <1>4, <1>6, <3>1, <3>2 DEF RawInv
  <2>3. QED
    BY <2>1, <2>2
<1>11. RunInv(w)'
  BY <1>8, <1>9, <1>10 DEF RunInv
<1>12. \A v \in Processes \ {w} : /\ pc'[v] = pc[v] /\ primed'[v] = primed[v]
                                    /\ raw'[v] = raw[v]
  BY <1>1, <1>2, <1>3 DEF WatcherTypes
<1>13. QED
  BY <1>3, <1>5, <1>11, <1>12, OneRun

\* A failed query moves nothing; the first one makes the run blind.
LEMMA WatcherQueryFails ==
  ASSUME WatcherInv, NEW w \in Processes, QueryFails(w)
  PROVE  WatcherInv'
<1>1. WatcherTypes /\ SeenInv(w) /\ CursorInv(w)
  BY DEF WatcherInv, RunInv
<1>2. /\ pc[w] = "poll" /\ UNCHANGED <<log, last, raw, batch, trail, start>>
      /\ pc' = [pc EXCEPT ![w] = IF w \in Onces THEN "off" ELSE "poll"]
      /\ primed' = [primed EXCEPT ![w] = TRUE]
      /\ blind' = [blind EXCEPT ![w] = blind[w] \/ ~ primed[w]]
  BY DEF QueryFails, Goto
<1>3. /\ primed'[w] = TRUE /\ pc'[w] \in {"off", "poll"}
      /\ blind'[w] = (blind[w] \/ ~ primed[w])
  BY <1>1, <1>2 DEF WatcherTypes
<1>4. WatcherTypes'
  <2>1. (blind[w] \/ ~ primed[w]) \in BOOLEAN
    OBVIOUS
  <2>2. blind' \in [Processes -> BOOLEAN]
    BY <1>1, <1>2, <2>1 DEF WatcherTypes
  <2>3. QED
    BY <1>1, <1>2, <2>2 DEF WatcherTypes, Points, Processes
<1>5. Seen(w)' = Seen(w)
  BY <1>2 DEF Seen
<1>6. SeenInv(w)'
  BY <1>1, <1>2, <1>3, <1>5, SameSeen
<1>7. CursorInv(w)'
  BY <1>1, <1>2, <1>3, <1>5 DEF CursorInv
<1>8. RawInv(w)'
  BY <1>3 DEF RawInv
<1>9. RunInv(w)'
  BY <1>6, <1>7, <1>8 DEF RunInv
<1>10. \A v \in Processes \ {w} : /\ pc'[v] = pc[v] /\ primed'[v] = primed[v]
                                    /\ blind'[v] = blind[v]
  BY <1>1, <1>2 DEF WatcherTypes
<1>11. QED
  BY <1>2, <1>4, <1>9, <1>10, OneRun

\* An event goes from the batch to the trail.
LEMMA WatcherReport ==
  ASSUME WatcherInv, NEW w \in Processes, Report(w)
  PROVE  WatcherInv'
<1>1. WatcherTypes /\ SeenInv(w) /\ CursorInv(w)
  BY DEF WatcherInv, RunInv
<1>2. trail[w] \in Seq(Nat) /\ batch[w] \in Seq(Nat)
  BY <1>1 DEF WatcherTypes
<1>3. /\ pc[w] = "report" /\ batch[w] # <<>>
      /\ UNCHANGED <<log, pc, last, primed, raw, start, blind>>
      /\ trail' = [trail EXCEPT ![w] = Append(trail[w], Head(batch[w]))]
      /\ batch' = [batch EXCEPT ![w] = Tail(batch[w])]
  BY DEF Report
<1>4. /\ trail'[w] = Append(trail[w], Head(batch[w])) /\ batch'[w] = Tail(batch[w])
      /\ \A v \in Processes \ {w} : trail'[v] = trail[v] /\ batch'[v] = batch[v]
  BY <1>1, <1>3 DEF WatcherTypes
<1>5. Append(trail[w], Head(batch[w])) \o Tail(batch[w]) = trail[w] \o batch[w]
  BY <1>2, <1>3, HeadMoves
<1>6. Seen(w)' = Seen(w)
  BY <1>4, <1>5 DEF Seen
<1>7. WatcherTypes'
  <2>1. Append(trail[w], Head(batch[w])) \in Seq(Nat) /\ Tail(batch[w]) \in Seq(Nat)
    BY <1>2, <1>3
  <2>2. QED
    BY <1>1, <1>3, <2>1 DEF WatcherTypes, Processes
<1>8. SeenInv(w)'
  BY <1>1, <1>3, <1>6, SameSeen
<1>9. CursorInv(w)' /\ RawInv(w)'
  BY <1>1, <1>3, <1>6 DEF CursorInv, RawInv
<1>10. RunInv(w)'
  BY <1>8, <1>9 DEF RunInv
<1>11. QED
  BY <1>3, <1>4, <1>7, <1>10, OneRun

\* The batch is done, or the process ends.
LEMMA WatcherGoto ==
  ASSUME WatcherInv, NEW w \in Processes, EndBatch(w) \/ Stop(w)
  PROVE  WatcherInv'
<1>1. WatcherTypes /\ SeenInv(w) /\ CursorInv(w)
  BY DEF WatcherInv, RunInv
<1>2. PICK point \in {"off", "poll"} :
        /\ pc' = [pc EXCEPT ![w] = point] /\ pc[w] # "off"
        /\ UNCHANGED <<log, last, primed, raw, batch, trail, start, blind>>
        /\ point = "poll" => batch[w] = <<>> /\ pc[w] = "report"
  BY DEF EndBatch, Stop, Goto
<1>3. pc'[w] = point /\ \A v \in Processes \ {w} : pc'[v] = pc[v]
  BY <1>1, <1>2 DEF WatcherTypes
<1>4. WatcherTypes'
  BY <1>1, <1>2 DEF WatcherTypes, Points, Processes
<1>5. Seen(w)' = Seen(w)
  BY <1>2 DEF Seen
<1>6. SeenInv(w)'
  BY <1>1, <1>2, <1>5, SameSeen
<1>7. CursorInv(w)' /\ RawInv(w)'
  BY <1>1, <1>2, <1>3, <1>5 DEF CursorInv, RawInv
<1>8. RunInv(w)'
  BY <1>6, <1>7 DEF RunInv
<1>9. QED
  BY <1>2, <1>3, <1>4, <1>8, OneRun

\* Finitely many numbers are listed by size.
LEMMA ListedBySize ==
  ASSUME NEW S, S \subseteq Nat, IsFiniteSet(S)
  PROVE  \E s \in [1 .. Cardinality(S) -> S] :
           /\ \A i, j \in 1 .. Cardinality(S) : i < j => s[i] < s[j]
           /\ \A x \in S : \E i \in 1 .. Cardinality(S) : s[i] = x
<1> DEFINE R == {p \in S \X S : p[1] < p[2]}
<1>1. Orders(R, S)
  BY DEF Orders
<1> HIDE DEF R
<1>2. PICK s \in [1 .. Cardinality(S) -> S] :
        \A i, j \in 1 .. Cardinality(S) : i < j => <<s[i], s[j]>> \in R
  BY <1>1, OrderedListExists
<1>3. \A i, j \in 1 .. Cardinality(S) : i < j => s[i] < s[j]
  BY <1>2 DEF R
<1>4. Cardinality(S) \in Nat
  BY FS_CardinalityType
<1>5. \A i, j \in 1 .. Cardinality(S) : i < j => s[i] # s[j]
  <2>1. \A i \in 1 .. Cardinality(S) : s[i] \in Nat
    OBVIOUS
  <2>2. QED
    BY <1>3, <2>1
<1>6. \A x \in S : \E i \in 1 .. Cardinality(S) : s[i] = x
  BY <1>5, OrderedListComplete
<1>7. QED
  BY <1>3, <1>6

\* The cursor has a value to advance to.
LEMMA LargestNumber ==
  ASSUME NEW S, S \subseteq Nat, IsFiniteSet(S), S # {}
  PROVE  Max(S) \in S /\ \A x \in S : x <= Max(S)
<1>1. PICK s \in [1 .. Cardinality(S) -> S] :
           /\ \A i, j \in 1 .. Cardinality(S) : i < j => s[i] < s[j]
           /\ \A x \in S : \E i \in 1 .. Cardinality(S) : s[i] = x
  BY ListedBySize
<1> DEFINE n == Cardinality(S)
<1>2. n \in Nat /\ n # 0
  BY FS_CardinalityType, FS_EmptySet
<1>3. s[n] \in S
  BY <1>2
<1>4. ASSUME NEW x \in S PROVE s[n] >= x
  <2>1. PICK i \in 1 .. n : s[i] = x
    BY <1>1
  <2>2. CASE i = n
    BY <1>3, <2>1, <2>2
  <2>3. CASE i < n
    <3>1. n \in 1 .. n
      BY <1>2
    <3>2. s[i] < s[n]
      BY <1>1, <2>3, <3>1
    <3>3. s[n] \in Nat /\ x \in Nat
      BY <1>3
    <3>4. QED
      BY <2>1, <3>2, <3>3
  <2>4. QED
    BY <1>2, <2>2, <2>3
<1>5. \E m \in S : \A x \in S : m >= x
  BY <1>3, <1>4
<1>6. Max(S) \in S /\ \A x \in S : Max(S) >= x
  BY <1>5 DEF Max
<1>7. QED
  BY <1>6

\* The first of two lists put together is what they begin with.
LEMMA ConcatPrefix ==
  ASSUME NEW s \in Seq(Nat), NEW t \in Seq(Nat)
  PROVE  /\ Len(s \o t) = Len(s) + Len(t)
         /\ \A j \in 1 .. Len(s) : j \in 1 .. Len(s \o t) /\ (s \o t)[j] = s[j]
<1>1. Len(s) \in Nat /\ Len(t) \in Nat /\ Len(s \o t) = Len(s) + Len(t)
  BY ConcatProperties
<1>2. ASSUME NEW j \in 1 .. Len(s)
      PROVE  j \in 1 .. Len(s) + Len(t) /\ (s \o t)[j] = s[j]
  <2>1. j \in 1 .. Len(s) + Len(t) /\ j <= Len(s)
    BY <1>1
  <2>2. QED
    BY <2>1, ConcatProperties
<1>3. QED
  BY <1>1, <1>2

\* toEvents lists the accepted logins of what was read, in order.
LEMMA EventsOrdered ==
  ASSUME NEW w, raw[w] \subseteq Nat, IsFiniteSet(raw[w])
  PROVE  /\ ToEvents(w) \in Seq(Nat)
         /\ \A i \in 1 .. Len(ToEvents(w)) :
              ToEvents(w)[i] \in raw[w] /\ log[ToEvents(w)[i]] = "accepted"
         /\ \A i, j \in 1 .. Len(ToEvents(w)) : i < j => ToEvents(w)[i] < ToEvents(w)[j]
         /\ \A n \in raw[w] : log[n] = "accepted" =>
              \E i \in 1 .. Len(ToEvents(w)) : ToEvents(w)[i] = n
<1> DEFINE logins == {i \in raw[w] : log[i] = "accepted"}
           k == Cardinality(logins)
           events == ToEvents(w)
<1>1. logins \subseteq Nat /\ IsFiniteSet(logins)
  BY FS_Subset
<1>2. k \in Nat
  BY <1>1, FS_CardinalityType
<1>3. events = CHOOSE e \in [1 .. k -> logins] : \A i, j \in 1 .. k : i < j => e[i] < e[j]
  BY DEF ToEvents
<1>4. \E e \in [1 .. k -> logins] : \A i, j \in 1 .. k : i < j => e[i] < e[j]
  <2> HIDE DEF logins
  <2>1. QED
    BY <1>1, ListedBySize
<1> HIDE DEF events
<1>5. events \in [1 .. k -> logins] /\ \A i, j \in 1 .. k : i < j => events[i] < events[j]
  BY <1>3, <1>4
<1>6. \A x \in logins : \E i \in 1 .. k : events[i] = x
  <2> HIDE DEF logins
  <2>1. \A i, j \in 1 .. k : i < j => events[i] # events[j]
    <3>1. \A i \in 1 .. k : events[i] \in Nat
      BY <1>1, <1>5
    <3>2. QED
      BY <1>5, <3>1
  <2>2. QED
    BY <1>1, <1>5, <2>1, OrderedListComplete
<1> HIDE DEF k
<1>7. events \in Seq(Nat) /\ Len(events) = k
  BY <1>1, <1>2, <1>5
<1>8. \A i \in 1 .. k : events[i] \in raw[w] /\ log[events[i]] = "accepted"
  BY <1>5
<1>9. QED
  BY <1>5, <1>6, <1>7, <1>8 DEF events

\* The new events are past last, and leave no gap up to the newest of them.
LEMMA WatcherRead ==
  ASSUME WatcherInv, NEW w \in Processes, Read(w)
  PROVE  WatcherInv'
<1>1. WatcherTypes /\ SeenInv(w) /\ CursorInv(w) /\ RawInv(w)
  BY DEF WatcherInv, RunInv
<1>2. /\ trail[w] \in Seq(Nat) /\ Len(log) \in Nat /\ raw[w] \subseteq Nat
      /\ last[w] \in 0 .. Len(log) /\ start[w] \in 0 .. Len(log) /\ batch[w] = <<>>
      /\ pc[w] \in {"prime", "read"} /\ primed[w]
      /\ \A r \in raw[w] : r > last[w] /\ r <= Len(log)
  BY <1>1 DEF WatcherTypes, CursorInv, RawInv, Read
<1>3. IsFiniteSet(raw[w])
  <2>1. IsFiniteSet(0 .. Len(log))
    BY <1>2, FS_Interval
  <2>2. ASSUME NEW r \in raw[w] PROVE r \in 0 .. Len(log)
    BY <1>2
  <2>3. QED
    BY <2>1, <2>2, FS_Subset
<1>4. PICK events \in Seq(Nat) :
        /\ batch' = [batch EXCEPT ![w] = events]
        /\ \A i \in 1 .. Len(events) : events[i] \in raw[w] /\ log[events[i]] = "accepted"
        /\ \A i, j \in 1 .. Len(events) : i < j => events[i] < events[j]
        /\ pc[w] = "read" => \A n \in raw[w] : log[n] = "accepted" =>
             \E i \in 1 .. Len(events) : events[i] = n
        /\ pc[w] = "prime" => events = <<>>
  <2>1. CASE pc[w] = "prime"
    <3>1. batch' = [batch EXCEPT ![w] = <<>>]
      BY <2>1 DEF Read
    <3>2. <<>> \in Seq(Nat) /\ 1 .. Len(<<>>) = {}
      BY EmptySeq
    <3> WITNESS <<>> \in Seq(Nat)
    <3>3. QED
      BY <2>1, <3>1, <3>2
  <2>2. CASE pc[w] = "read"
    <3>1. batch' = [batch EXCEPT ![w] = ToEvents(w)]
      BY <2>2 DEF Read
    <3>2. QED
      BY <1>2, <1>3, <2>2, <3>1, EventsOrdered
  <2>3. QED
    BY <1>2, <2>1, <2>2
<1>5. PICK newest \in Nat :
        /\ last' = [last EXCEPT ![w] = newest]
        /\ newest \in raw[w] \cup {last[w]} /\ newest >= last[w]
        /\ \A r \in raw[w] : r <= newest
  <2>1. raw[w] \cup {last[w]} \subseteq Nat
    BY <1>2
  <2>2. IsFiniteSet(raw[w] \cup {last[w]})
    BY <1>3, FS_AddElement
  <2>3. /\ Advance(w) \in raw[w] \cup {last[w]}
        /\ \A x \in raw[w] \cup {last[w]} : x <= Advance(w)
    BY <2>1, <2>2, LargestNumber DEF Advance
  <2>4. QED
    BY <1>2, <2>1, <2>3 DEF Read
<1>6. /\ pc' = [pc EXCEPT ![w] = "report"] /\ raw' = [raw EXCEPT ![w] = {}]
      /\ UNCHANGED <<log, primed, trail, start, blind>>
  BY DEF Read, Goto
<1>7. /\ pc'[w] = "report" /\ last'[w] = newest /\ batch'[w] = events
      /\ \A v \in Processes \ {w} :
           pc'[v] = pc[v] /\ last'[v] = last[v] /\ raw'[v] = raw[v] /\ batch'[v] = batch[v]
  BY <1>1, <1>4, <1>5, <1>6 DEF WatcherTypes
<1>8. WatcherTypes'
  BY <1>1, <1>4, <1>5, <1>6 DEF WatcherTypes, Points, Processes
<1>9. Seen(w) = trail[w] /\ Seen(w)' = trail[w] \o events
  BY <1>2, <1>6, <1>7, ConcatEmptySeq DEF Seen
<1>10. SeenInv(w)'
  <2> DEFINE t == trail[w]
             s == t \o events
  <2>1. /\ Len(s) = Len(t) + Len(events) /\ Len(t) \in Nat /\ Len(events) \in Nat
        /\ \A i \in 1 .. Len(t) : s[i] = t[i]
        /\ \A i \in 1 .. Len(s) : i - Len(t) \in 1 .. Len(events) =>
                                     s[i] = events[i - Len(t)]
        /\ \A i \in 1 .. Len(s) : i \in 1 .. Len(t) \/ i - Len(t) \in 1 .. Len(events)
    BY <1>2, ConcatProperties
  <2>2. /\ \A i \in 1 .. Len(t) : /\ t[i] \in 1 .. Len(log) /\ t[i] <= last[w]
                                  /\ log[t[i]] = "accepted"
                                  /\ (w \in Daemons /\ t[i] <= start[w]) => blind[w]
        /\ \A i, j \in 1 .. Len(t) : i < j => t[i] < t[j]
        /\ \A i \in 1 .. Len(t) : \A n \in t[i] .. last[w] :
             log[n] = "accepted" => \E j \in 1 .. Len(t) : t[j] = n
    BY <1>1, <1>2, <1>9 DEF SeenInv, Ids
  <2>3. \A i \in 1 .. Len(events) :
          /\ events[i] \in raw[w] /\ events[i] \in 1 .. Len(log)
          /\ last[w] < events[i] /\ events[i] <= newest
          /\ (w \in Daemons /\ events[i] <= start[w]) => blind[w]
    <3> SUFFICES ASSUME NEW i \in 1 .. Len(events)
                 PROVE  /\ events[i] \in raw[w] /\ events[i] \in 1 .. Len(log)
                        /\ last[w] < events[i] /\ events[i] <= newest
                        /\ (w \in Daemons /\ events[i] <= start[w]) => blind[w]
      OBVIOUS
    <3>1. events[i] \in raw[w] /\ events[i] \in Nat
      BY <1>2, <1>4
    <3>2. events[i] \in 1 .. Len(log) /\ last[w] < events[i] /\ events[i] <= newest
      BY <1>2, <1>5, <3>1
    <3>3. pc[w] = "read"
      BY <1>2, <1>4, <2>1
    <3>4. w \in Daemons /\ ~ blind[w] => last[w] >= start[w]
      BY <1>1, <1>2, <3>3 DEF CursorInv
    <3>5. QED
      BY <1>2, <3>1, <3>2, <3>4
  <2> HIDE DEF s
  <2>4. ASSUME NEW i \in 1 .. Len(s)
        PROVE  /\ s[i] \in 1 .. Len(log) /\ s[i] <= newest
               /\ log[s[i]] = "accepted"
               /\ (w \in Daemons /\ s[i] <= start[w]) => blind[w]
    <3>1. CASE i \in 1 .. Len(t)
      <4>1. s[i] = t[i]
        BY <2>1, <3>1
      <4>2. t[i] \in 1 .. Len(log) /\ t[i] <= last[w] /\ log[t[i]] = "accepted"
        BY <2>2, <3>1
      <4>3. t[i] <= newest
        BY <1>2, <1>5, <4>2
      <4>4. (w \in Daemons /\ t[i] <= start[w]) => blind[w]
        BY <2>2, <3>1
      <4>5. QED
        BY <4>1, <4>2, <4>3, <4>4
    <3>2. CASE i - Len(t) \in 1 .. Len(events)
      <4>1. s[i] = events[i - Len(t)]
        BY <2>1, <3>2
      <4>2. QED
        BY <1>4, <2>3, <3>2, <4>1
    <3>3. QED
      BY <2>1, <3>1, <3>2
  <2>5. ASSUME NEW i \in 1 .. Len(s), NEW j \in 1 .. Len(s), i < j
        PROVE  s[i] < s[j]
    <3>1. CASE j \in 1 .. Len(t)
      <4>1. i \in 1 .. Len(t)
        BY <2>5, <3>1
      <4>2. s[i] = t[i] /\ s[j] = t[j] /\ t[i] < t[j]
        BY <2>1, <2>2, <2>5, <3>1, <4>1
      <4>3. QED
        BY <4>2
    <3>2. CASE i \in 1 .. Len(t) /\ j - Len(t) \in 1 .. Len(events)
      <4>1. s[i] = t[i] /\ s[j] = events[j - Len(t)]
        BY <2>1, <3>2
      <4>2. t[i] \in 1 .. Len(log) /\ t[i] <= last[w]
        BY <2>2, <3>2
      <4>3. last[w] < events[j - Len(t)] /\ events[j - Len(t)] \in 1 .. Len(log)
        BY <2>3, <3>2
      <4>4. last[w] \in Nat /\ Len(log) \in Nat
        BY <1>2
      <4>5. QED
        BY <4>1, <4>2, <4>3, <4>4
    <3>3. CASE i - Len(t) \in 1 .. Len(events) /\ j - Len(t) \in 1 .. Len(events)
      <4>1. s[i] = events[i - Len(t)] /\ s[j] = events[j - Len(t)]
        BY <2>1, <3>3
      <4>2. i - Len(t) < j - Len(t)
        BY <2>1, <2>5
      <4>3. QED
        BY <1>4, <3>3, <4>1, <4>2
    <3>4. QED
      BY <2>1, <2>5, <3>1, <3>2, <3>3
  <2>6. ASSUME NEW i \in 1 .. Len(s), NEW n \in s[i] .. newest, log[n] = "accepted"
        PROVE  \E j \in 1 .. Len(s) : s[j] = n
    <3>1. s[i] \in Nat /\ n \in Nat
      BY <2>4
    <3>2. ASSUME n \in raw[w], pc[w] = "read" PROVE \E j \in 1 .. Len(s) : s[j] = n
      <4>1. PICK j \in 1 .. Len(events) : events[j] = n
        BY <1>4, <2>6, <3>2
      <4>2. Len(t) + j \in 1 .. Len(s) /\ (Len(t) + j) - Len(t) = j
        <5>1. Len(t) \in Nat /\ Len(events) \in Nat /\ Len(s) = Len(t) + Len(events)
          BY <2>1
        <5>2. j \in Nat /\ 1 <= j /\ j <= Len(events)
          BY <5>1
        <5>3. QED
          BY <5>1, <5>2
      <4>3. s[Len(t) + j] = n
        BY <2>1, <4>1, <4>2
      <4>4. QED
        BY <4>2, <4>3
    <3>3. CASE n <= last[w]
      <4>1. i \in 1 .. Len(t)
        <5>1. SUFFICES ASSUME i - Len(t) \in 1 .. Len(events) PROVE FALSE
          BY <2>1
        <5>2. s[i] = events[i - Len(t)]
          BY <2>1, <5>1
        <5>3. last[w] < s[i]
          BY <2>3, <5>1, <5>2
        <5>4. QED
          BY <1>2, <3>1, <3>3, <5>3
      <4>2. n \in t[i] .. last[w]
        BY <1>2, <2>1, <3>1, <3>3, <4>1
      <4>3. PICK j \in 1 .. Len(t) : t[j] = n
        BY <2>2, <2>6, <4>1, <4>2
      <4>4. s[j] = n /\ j \in 1 .. Len(s)
        BY <2>1, <4>3
      <4>5. QED
        BY <4>4
    <3>4. CASE n > last[w]
      <4>1. newest \in raw[w] /\ n \in last[w] + 1 .. newest
        BY <1>2, <1>5, <3>1, <3>4
      <4>2. trail[w] # <<>> \/ \E q \in raw[w] : q <= n
        <5>1. CASE i \in 1 .. Len(t)
          BY <2>1, <5>1
        <5>2. CASE i - Len(t) \in 1 .. Len(events)
          <6>1. s[i] = events[i - Len(t)] /\ events[i - Len(t)] \in raw[w]
            BY <2>1, <2>3, <5>2
          <6>2. QED
            BY <3>1, <6>1
        <5>3. QED
          BY <2>1, <5>1, <5>2
      <4>3. pc[w] = "read"
        <5>1. SUFFICES ASSUME pc[w] = "prime" PROVE FALSE
          BY <1>2
        <5>2. trail[w] = <<>> /\ events = <<>>
          BY <1>1, <1>4, <1>9, <5>1 DEF RawInv
        <5>3. QED
          BY <2>1, <5>2
      <4>4. n \in raw[w]
        BY <1>1, <4>1, <4>2, <4>3 DEF RawInv
      <4>5. QED
        BY <3>2, <4>3, <4>4
    <3>5. QED
      BY <1>2, <3>1, <3>3, <3>4
  <2>7. Seen(w)' = s
    BY <1>9 DEF s
  <2>8. QED
    BY <1>6, <1>7, <2>4, <2>5, <2>6, <2>7 DEF SeenInv, Ids
<1>11. CursorInv(w)'
  <2>1. newest \in 0 .. Len(log)
    BY <1>2, <1>5
  <2>2. ASSUME w \in Daemons, ~ blind[w] PROVE newest >= start[w]
    <3>1. CASE pc[w] = "read"
      <4>1. last[w] >= start[w]
        BY <1>1, <1>2, <2>2, <3>1 DEF CursorInv
      <4>2. QED
        BY <1>2, <1>5, <4>1
    <3>2. CASE pc[w] = "prime"
      <4>1. start[w] = 0 \/ \E r \in raw[w] : r >= start[w]
        BY <1>1, <3>2 DEF RawInv
      <4>2. QED
        BY <1>2, <1>5, <4>1
    <3>3. QED
      BY <1>2, <3>1, <3>2
  <2>3. QED
    BY <1>2, <1>6, <1>7, <2>1, <2>2 DEF CursorInv
<1>12. RawInv(w)'
  BY <1>7 DEF RawInv
<1>13. RunInv(w)'
  BY <1>10, <1>11, <1>12 DEF RunInv
<1>14. QED
  BY <1>6, <1>7, <1>8, <1>13, OneRun

\* Every step keeps the invariant.
LEMMA WatcherStep == WatcherInv /\ [WatchNext]_watchVars => WatcherInv'
<1> SUFFICES ASSUME WatcherInv, [WatchNext]_watchVars PROVE WatcherInv'
  OBVIOUS
<1>1. CASE UNCHANGED watchVars
  <2>1. UNCHANGED <<log, pc, last, primed, raw, batch, trail, start, blind>>
    BY <1>1 DEF watchVars
  <2>2. WatcherTypes'
    BY <2>1 DEF WatcherInv, WatcherTypes, Processes
  <2>3. ASSUME NEW w \in Processes PROVE RunInv(w)'
    <3>1. WatcherTypes /\ RunInv(w)
      BY DEF WatcherInv
    <3>2. QED
      BY <2>1, <3>1, OtherRun
  <2>4. QED
    BY <2>2, <2>3 DEF WatcherInv, Processes
<1>2. CASE WatchNext
  <2>1. CASE \E kind \in Kinds : Write(kind)
    BY <2>1, WatcherWrite
  <2>2. ASSUME NEW w \in Processes,
               \/ Launch(w) \/ Query(w) \/ QueryFails(w) \/ Read(w)
               \/ Report(w) \/ EndBatch(w) \/ Stop(w)
        PROVE  WatcherInv'
    BY <2>2, WatcherLaunch, WatcherQuery, WatcherQueryFails, WatcherRead, WatcherReport,
       WatcherGoto
  <2>3. QED
    BY <1>2, <2>1, <2>2 DEF WatchNext
<1>3. QED
  BY <1>1, <1>2

\* What the watcher reports is a part of the log, in order, without repetition
\* and without a gap, and nothing from before its start unless the first query
\* failed (TrailFollowsLog).
THEOREM WatcherFollowsLog == WatchSpec => []TrailFollowsLog
<1>1. WatcherInv => TrailFollowsLog
  <2> SUFFICES ASSUME WatcherInv, NEW w \in Processes, NEW i \in 1 .. Len(trail[w])
               PROVE  /\ \A j \in 1 .. i - 1 : trail[w][j] < trail[w][i]
                      /\ log[trail[w][i]] = "accepted"
                      /\ (w \in Daemons /\ trail[w][i] <= start[w]) => blind[w]
                      /\ pc[w] # "off" => \A n \in trail[w][i] .. last[w] :
                           log[n] = "accepted" =>
                             \E j \in 1 .. Len(trail[w] \o batch[w]) :
                               (trail[w] \o batch[w])[j] = n
    BY DEF TrailFollowsLog
  <2>1. trail[w] \in Seq(Nat) /\ batch[w] \in Seq(Nat) /\ SeenInv(w)
    BY DEF WatcherInv, WatcherTypes, RunInv
  <2>2. /\ Len(Seen(w)) = Len(trail[w]) + Len(batch[w])
        /\ \A j \in 1 .. Len(trail[w]) : j \in 1 .. Len(Seen(w)) /\ Seen(w)[j] = trail[w][j]
    BY <2>1, ConcatPrefix DEF Seen
  <2>3. \A j \in 1 .. i - 1 : j \in 1 .. Len(trail[w]) /\ j < i
    BY <2>1
  <2>4. /\ \A j \in 1 .. i - 1 : trail[w][j] < trail[w][i]
        /\ log[trail[w][i]] = "accepted"
        /\ (w \in Daemons /\ trail[w][i] <= start[w]) => blind[w]
    BY <2>1, <2>2, <2>3 DEF SeenInv
  <2>5. pc[w] # "off" => \A n \in trail[w][i] .. last[w] :
          log[n] = "accepted" => \E j \in 1 .. Len(Seen(w)) : Seen(w)[j] = n
    BY <2>1, <2>2 DEF SeenInv
  <2>6. QED
    BY <2>4, <2>5 DEF Seen
<1>2. QED
  BY <1>1, WatcherInit, WatcherStep, PTL DEF WatchSpec
===============================================================================
