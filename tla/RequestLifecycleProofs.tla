------------------------ MODULE RequestLifecycleProofs ------------------------
(***************************************************************************)
(* Theorems about RequestLifecycle, for every set of requests and calls,   *)
(* every configuration of the waits and every choice of faults.            *)
(***************************************************************************)
EXTENDS RequestLifecycle, TLAPS

\* Past DecideRequest a call is about a row that exists: an unknown id ended
\* in 404.
CallsOnKnownIDs ==
  \A c \in Calls :
    vpc[c] \in {"readback", "bookkeep", "conflict", "conflict_mark"} => call[c].req \in Reqs

TypeInv == TypeOK /\ CallsOnKnownIDs

\* VerdictFor gives every status a verdict and a reason of the contract.
LEMMA AnswerForType ==
  ASSUME NEW status, NEW at \in Time \cup {NoTime}
  PROVE  AnswerFor(status, at) \in Answer
BY DEF AnswerFor, VerdictFor, Answer

\* A row a rule decides, or leaves pending, is a row.
LEMMA NewRowType ==
  ASSUME NEW outcome \in RuleOutcomes, NEW at \in Time \cup {NoTime}
  PROVE  NewRow(outcome, at) \in Row
BY ConfigAssumption, MaxTimeAssumption
   DEF NewRow, RuleDecidedBy, Row, Statuses, RuleOutcomes, Time, NoTime

\* MarkTimeout keeps the table's type.
LEMMA TimedOutType ==
  ASSUME TypeOK, NEW r \in Reqs
  PROVE  TimedOut(r) \in [Reqs -> Row]
BY DEF TypeOK, TimedOut, Row, Statuses

\* DecideRequest keeps the table's type.
LEMMA DecidedType ==
  ASSUME TypeOK, NEW r \in Reqs, NEW c \in Calls, NEW at \in Time \cup {NoTime},
         NEW verdict
  PROVE  Decided(r, c, StatusOf(verdict), at) \in [Reqs -> Row]
BY DEF TypeOK, Decided, StatusOf, Row, Statuses

\* The initial state satisfies the type invariant.
LEMMA TypeInvInit == Init => TypeInv
BY MaxTimeAssumption
   DEF Init, TypeInv, TypeOK, CallsOnKnownIDs, Time, NoRow, Row, NoAnswer, Answer,
       NoCall, NoReply, NoTime, Statuses, UnknownID, HandlerRunning, CallRunning

\* Every step of an access-request handler preserves the type invariant.
LEMMA TypeInvHandler ==
  ASSUME TypeInv, NEW r \in Reqs,
         ReceiveRequest(r) \/ HandlerStep(r) \/ HandlerFault(r)
  PROVE  TypeInv'
<1> USE DEF TypeInv, handlerVars, callVars
<1> now \in Time /\ createdAt[r] \in Time \cup {NoTime} /\ rows[r].decidedAt \in Time \cup {NoTime}
  BY DEF TypeOK, Row
<1>1. CASE ReceiveRequest(r)
  BY <1>1 DEF ReceiveRequest, TypeOK, CallsOnKnownIDs, HandlerRunning
<1>2. CASE CreateRequest(r)
  BY <1>2, NewRowType DEF CreateRequest, TypeOK, CallsOnKnownIDs, HandlerRunning
<1>3. CASE AnswerDecidedByRule(r)
  <2>1. pushes' \subseteq Push
    BY <1>3 DEF AnswerDecidedByRule, PushAll, Push, TypeOK, Statuses, RuleOutcomes
  <2>2. QED
    BY <1>3, <2>1, AnswerForType
       DEF AnswerDecidedByRule, TypeOK, CallsOnKnownIDs, HandlerRunning
<1>4. CASE PushRequest(r)
  <2>1. pushes' \subseteq Push
    BY <1>4 DEF PushRequest, PushAll, Push, TypeOK, Statuses, RuleOutcomes
  <2>2. wake' \in [Reqs -> Int]
    BY <1>4, ConfigAssumption, MaxTimeAssumption
       DEF PushRequest, Sleep, Deadline, TypeOK, Time, NoTime
  <2>3. QED
    BY <1>4, <2>1, <2>2 DEF PushRequest, Sleep, TypeOK, CallsOnKnownIDs, HandlerRunning
<1>5. CASE Wake(r)
  BY <1>5 DEF Wake, TypeOK, CallsOnKnownIDs, HandlerRunning
<1>6. CASE Poll(r)
  <2>1. wake' \in [Reqs -> Int]
    BY <1>6, ConfigAssumption, MaxTimeAssumption
       DEF Poll, Sleep, Deadline, TypeOK, Time, NoTime
  <2>2. answer' \in [Reqs -> Answer]
    BY <1>6, AnswerForType DEF Poll, TypeOK
  <2>3. QED
    BY <1>6, <2>1, <2>2 DEF Poll, Sleep, TypeOK, CallsOnKnownIDs, HandlerRunning
<1>7. CASE MarkTimeout(r)
  BY <1>7, TimedOutType DEF MarkTimeout, TypeOK, CallsOnKnownIDs, HandlerRunning
<1>8. CASE AnswerTimeout(r)
  BY <1>8, AnswerForType DEF AnswerTimeout, TypeOK, CallsOnKnownIDs, HandlerRunning
<1>9. CASE AnswerAfterRace(r)
  BY <1>9, AnswerForType DEF AnswerAfterRace, TypeOK, CallsOnKnownIDs, HandlerRunning
<1>10. CASE HangUp(r)
  BY <1>10 DEF HangUp, TypeOK, CallsOnKnownIDs, HandlerRunning
<1>11. CASE HandlerStoreFails(r)
  BY <1>11, TimedOutType DEF HandlerStoreFails, TypeOK, CallsOnKnownIDs, HandlerRunning
<1>12. CASE HandlerCrash(r)
  BY <1>12 DEF HandlerCrash, TypeOK, CallsOnKnownIDs, HandlerRunning
<1>13. QED
  BY <1>1, <1>2, <1>3, <1>4, <1>5, <1>6, <1>7, <1>8, <1>9, <1>10, <1>11, <1>12
     DEF HandlerStep, HandlerFault

\* A call that breaks off leaves the types as they are.
LEMMA BrokenOffType ==
  ASSUME TypeOK, CallsOnKnownIDs, NEW c \in Calls, BrokenOff(c)
  PROVE  /\ rows' \in [Reqs -> Row]
         /\ whitelisted' \subseteq Reqs /\ counted' \subseteq Reqs
<1>1. rows' \in [Reqs -> Row]
  BY TimedOutType DEF BrokenOff, CallsOnKnownIDs, TypeOK
<1>2. whitelisted' \subseteq Reqs
  BY DEF BrokenOff, WhitelistAfter, CallsOnKnownIDs, TypeOK
<1>3. counted' \subseteq Reqs
  BY DEF BrokenOff, CountedAfter, TypeOK, CallsOnKnownIDs
<1>4. QED
  BY <1>1, <1>2, <1>3

\* Every step of a verdict call preserves the type invariant.
LEMMA TypeInvCall ==
  ASSUME TypeInv, NEW c \in Calls,
         ReceiveVerdict(c) \/ CallStep(c) \/ CallFault(c)
  PROVE  TypeInv'
<1> USE DEF TypeInv, handlerVars, callVars
<1> DEFINE r == call[c].req
<1> /\ now \in Time
    /\ call[c].at \in Time \cup {NoTime}
    /\ r \in Reqs \cup {UnknownID}
  BY DEF TypeOK
<1>1. CASE ReceiveVerdict(c)
  BY <1>1 DEF ReceiveVerdict, TypeOK, CallsOnKnownIDs, CallRunning
<1>2. CASE DecideRequest(c)
  <2>1. CASE r = UnknownID /\ Finish(c, 404, "absent") /\ UNCHANGED rows
    BY <1>2, <2>1 DEF DecideRequest, Finish, TypeOK, CallsOnKnownIDs
  <2>2. CASE /\ r # UnknownID
             /\ rows' = Decided(r, c, StatusOf(call[c].verdict), call[c].at)
             /\ vpc' = [vpc EXCEPT ![c] = "readback"]
             /\ UNCHANGED reply
    <3> HIDE DEF r
    <3>1. rows' \in [Reqs -> Row]
      BY <2>2, DecidedType
    <3>2. vpc' \in [Calls -> CallRunning \cup {"idle", "done", "lost"}]
      BY <2>2 DEF TypeOK, CallRunning
    <3>3. CallsOnKnownIDs'
      BY <1>2, <2>2 DEF DecideRequest, TypeOK, CallsOnKnownIDs, r
    <3>4. QED
      BY <1>2, <2>2, <3>1, <3>2, <3>3 DEF DecideRequest, TypeOK
  <2>3. CASE /\ r # UnknownID
             /\ vpc' = [vpc EXCEPT ![c] = "conflict"]
             /\ UNCHANGED <<rows, reply>>
    BY <1>2, <2>3 DEF DecideRequest, TypeOK, CallsOnKnownIDs, CallRunning
  <2>4. QED
    BY <1>2, <2>1, <2>2, <2>3 DEF DecideRequest
<1>3. CASE TellPhones(c)
  <2>1. r \in Reqs
    BY <1>3 DEF TellPhones, CallsOnKnownIDs
  <2>2. rows[r].status \in Statuses \cup {"absent"}
    BY <2>1 DEF TypeOK, Row
  <2>3. pushes' \subseteq Push
    BY <1>3, <2>1, <2>2 DEF TellPhones, PushAll, Push, TypeOK
  <2>4. call' \in [Calls -> [req : Reqs \cup {UnknownID}, verdict : Verdicts \cup {"none"},
                            at : Time \cup {NoTime}, seen : Statuses \cup {"absent"}]]
    <3> DEFINE told == [call[c] EXCEPT !.seen = rows[r].status]
    <3>1. call[c] \in [req : Reqs \cup {UnknownID}, verdict : Verdicts \cup {"none"},
                      at : Time \cup {NoTime}, seen : Statuses \cup {"absent"}]
      BY DEF TypeOK
    <3>2. told \in [req : Reqs \cup {UnknownID}, verdict : Verdicts \cup {"none"},
                   at : Time \cup {NoTime}, seen : Statuses \cup {"absent"}]
      BY <2>2, <3>1
    <3>3. call' = [call EXCEPT ![c] = told]
      BY <1>3 DEF TellPhones
    <3>4. call \in [Calls -> [req : Reqs \cup {UnknownID}, verdict : Verdicts \cup {"none"},
                             at : Time \cup {NoTime}, seen : Statuses \cup {"absent"}]]
      BY DEF TypeOK
    <3> HIDE DEF told
    <3>5. QED
      BY <3>2, <3>3, <3>4
  <2>5. vpc' \in [Calls -> CallRunning \cup {"idle", "done", "lost"}]
    BY <1>3 DEF TellPhones, TypeOK, CallRunning
  <2>6. CallsOnKnownIDs'
    BY <1>3, <2>1 DEF TellPhones, TypeOK, CallsOnKnownIDs
  <2>7. QED
    BY <1>3, <2>3, <2>4, <2>5, <2>6 DEF TellPhones, TypeOK
<1>4. CASE Bookkeep(c)
  <2>1. r \in Reqs
    BY <1>4 DEF Bookkeep, CallsOnKnownIDs
  <2>2. QED
    BY <1>4, <2>1
       DEF Bookkeep, WhitelistAfter, CountedAfter, Finish, TypeOK, CallsOnKnownIDs
<1>5. CASE ConflictRead(c)
  <2>1. rows[r].status \in Statuses \cup {"absent"}
    BY <1>5 DEF ConflictRead, CallsOnKnownIDs, TypeOK, Row
  <2>2. vpc' \in [Calls -> CallRunning \cup {"idle", "done", "lost"}]
    BY <1>5 DEF ConflictRead, Finish, TypeOK, CallRunning
  <2>3. reply' \in [Calls -> [code : {0, 200, 404, 409, 500}, status : Statuses \cup {"absent"}]]
    BY <1>5, <2>1 DEF ConflictRead, Finish, TypeOK
  <2>4. CallsOnKnownIDs'
    BY <1>5 DEF ConflictRead, Finish, TypeOK, CallsOnKnownIDs
  <2>5. QED
    BY <1>5, <2>2, <2>3, <2>4 DEF ConflictRead, TypeOK
<1>6. CASE ConflictMark(c)
  <2>1. r \in Reqs
    BY <1>6 DEF ConflictMark, CallsOnKnownIDs
  <2>2. rows' \in [Reqs -> Row]
    BY <1>6, <2>1, TimedOutType DEF ConflictMark
  <2>3. QED
    BY <1>6, <2>2 DEF ConflictMark, Finish, TypeOK, CallsOnKnownIDs, Statuses
<1>7. CASE CallStoreFails(c)
  <2>1. rows' \in [Reqs -> Row]
    BY <1>7, BrokenOffType DEF CallStoreFails
  <2>2. whitelisted' \subseteq Reqs /\ counted' \subseteq Reqs
    BY <1>7, BrokenOffType DEF CallStoreFails
  <2>3. QED
    BY <1>7, <2>1, <2>2 DEF CallStoreFails, Finish, TypeOK, CallsOnKnownIDs
<1>8. CASE CallCrash(c)
  <2>1. rows' \in [Reqs -> Row]
    BY <1>8, BrokenOffType DEF CallCrash
  <2>2. whitelisted' \subseteq Reqs /\ counted' \subseteq Reqs
    BY <1>8, BrokenOffType DEF CallCrash
  <2>3. QED
    BY <1>8, <2>1, <2>2 DEF CallCrash, TypeOK, CallsOnKnownIDs
<1>9. QED
  BY <1>1, <1>2, <1>3, <1>4, <1>5, <1>6, <1>7, <1>8 DEF CallStep, CallFault

\* The type invariant is inductive.
LEMMA TypeInvNext == TypeInv /\ [Next]_vars => TypeInv'
<1> SUFFICES ASSUME TypeInv, [Next]_vars PROVE TypeInv'
  OBVIOUS
<1>1. CASE Tick
  BY <1>1, MaxTimeAssumption
     DEF Tick, TypeInv, TypeOK, CallsOnKnownIDs, Time, handlerVars, callVars
<1>2. CASE UNCHANGED vars
  BY <1>2 DEF TypeInv, TypeOK, CallsOnKnownIDs, vars
<1>3. QED
  BY <1>1, <1>2, TypeInvHandler, TypeInvCall DEF Next, Quiescent

\* Spec keeps every variable in its type: the rows hold statuses of the schema
\* and the agents get verdicts and reasons of the contract.
THEOREM TypeCorrect == Spec => []TypeOK
<1>1. Init => TypeInv
  BY TypeInvInit
<1>2. TypeInv /\ [Next]_vars => TypeInv'
  BY TypeInvNext
<1>3. TypeInv => TypeOK
  BY DEF TypeInv
<1>4. QED
  BY <1>1, <1>2, <1>3, PTL DEF Spec

-----------------------------------------------------------------------------
(* The safety invariant: what each control point knows about its row. *)

Closed(r) == rows[r].status \notin {"absent", "pending"}

\* The row carries the verdict of call c.
Decides(c) ==
  /\ rows[call[c].req].decidedBy = c
  /\ rows[call[c].req].status = StatusOf(call[c].verdict)

\* An access-request handler inserts only where there is no row, answers only
\* from a closed row, and answers once.
HandlerKnows(r) ==
  /\ hpc[r] \in {"idle", "evaluate"} => rows[r].status = "absent"
  /\ hpc[r] \in {"push", "sleep", "poll", "mark"} => rows[r].status # "absent"
  /\ hpc[r] \in {"answer", "reread"} => Closed(r)
  /\ hpc[r] = "expired" => rows[r].status = "timeout" /\ rows[r].decidedAt = NoTime
  /\ hpc[r] # "answered" => answer[r] = NoAnswer
  /\ hpc[r] = "answered" =>
       Closed(r) /\ answer[r] = AnswerFor(rows[r].status, rows[r].decidedAt)

\* A verdict call past its UPDATE owns the row; what it answered stays true.
CallKnows(c) ==
  /\ vpc[c] # "done" => reply[c].code = 0
  /\ vpc[c] = "decide" /\ call[c].req \in Reqs => rows[call[c].req].status # "absent"
  /\ vpc[c] \in {"conflict", "conflict_mark"} => rows[call[c].req].status # "absent"
  /\ vpc[c] \in {"readback", "bookkeep"} => Decides(c)
  /\ vpc[c] = "bookkeep" => call[c].seen = StatusOf(call[c].verdict)
  /\ reply[c].code = 200 =>
       /\ call[c].req \in Reqs
       /\ Decides(c)
       /\ reply[c].status = StatusOf(call[c].verdict)
  /\ reply[c].code = 409 =>
       /\ call[c].req \in Reqs
       /\ Closed(call[c].req)
       /\ reply[c].status # "timeout" => reply[c].status = rows[call[c].req].status

HandlerInv == \A r \in Reqs : HandlerKnows(r)
CallInv == \A c \in Calls : CallKnows(c)
EffectInv == PushTellsOutcome /\ BookkeepingFollowsDecision
SafetyInv == TypeInv /\ HandlerInv /\ CallInv /\ EffectInv

\* How a step may change row q: not at all, or it closes a pending row.
KeptOrCloses(q) ==
  \/ rows'[q] = rows[q]
  \/ rows[q].status = "pending" /\ rows'[q].status \in {"approved", "denied", "timeout"}

\* Weaker, for the step that inserts q: a closed row is kept, a row stays.
ClosedKept(q) ==
  /\ Closed(q) => rows'[q] = rows[q]
  /\ rows[q].status # "absent" => rows'[q].status # "absent"

\* MarkTimeout closes the pending row it is given and changes nothing else.
LEMMA TimedOutRows ==
  ASSUME TypeOK, NEW r \in Reqs, rows' = TimedOut(r)
  PROVE  /\ \A q \in Reqs : KeptOrCloses(q)
         /\ MayMarkTimeout(r) =>
              rows'[r].status = "timeout" /\ rows'[r].decidedAt = NoTime
         /\ rows[r].status # "absent" => rows'[r].status \notin {"absent", "pending"}
BY DEF TypeOK, TimedOut, MayMarkTimeout, KeptOrCloses

\* A verdict call changes at most one pending row, which it closes.
LEMMA CallRows ==
  ASSUME TypeInv, NEW c \in Calls,
         ReceiveVerdict(c) \/ CallStep(c) \/ CallFault(c)
  PROVE  \A q \in Reqs : KeptOrCloses(q)
<1>1. CASE DecideRequest(c)
  BY <1>1 DEF DecideRequest, TypeInv, TypeOK, Decided, MayDecide, StatusOf, KeptOrCloses
<1>2. CASE ConflictMark(c)
  BY <1>2, TimedOutRows DEF ConflictMark, TypeInv, CallsOnKnownIDs
<1>3. CASE BrokenOff(c)
  BY <1>3, TimedOutRows DEF BrokenOff, TypeInv, CallsOnKnownIDs, KeptOrCloses
<1>4. CASE UNCHANGED rows
  BY <1>4 DEF KeptOrCloses
<1>5. QED
  BY <1>1, <1>2, <1>3, <1>4
     DEF CallStep, CallFault, ReceiveVerdict, TellPhones, Bookkeep, ConflictRead,
         CallStoreFails, CallCrash

\* A handler never changes a closed row: it inserts where there is none, and
\* its MarkTimeout closes a pending one.
LEMMA HandlerRows ==
  ASSUME TypeInv, HandlerInv, NEW r \in Reqs,
         ReceiveRequest(r) \/ HandlerStep(r) \/ HandlerFault(r)
  PROVE  /\ \A q \in Reqs : ClosedKept(q)
         /\ \A q \in Reqs \ {r} : rows'[q] = rows[q]
<1>1. CASE CreateRequest(r)
  BY <1>1 DEF CreateRequest, TypeInv, TypeOK, HandlerInv, HandlerKnows, ClosedKept, Closed
<1>2. CASE rows' = TimedOut(r)
  <2>1. \A q \in Reqs : KeptOrCloses(q)
    BY <1>2, TimedOutRows DEF TypeInv
  <2>2. \A q \in Reqs : ClosedKept(q)
    BY <2>1 DEF ClosedKept, Closed, KeptOrCloses
  <2>3. \A q \in Reqs \ {r} : rows'[q] = rows[q]
    BY <1>2 DEF TypeInv, TypeOK, TimedOut
  <2>4. QED
    BY <2>2, <2>3
<1>3. CASE UNCHANGED rows
  BY <1>3 DEF ClosedKept
<1>4. QED
  BY <1>1, <1>2, <1>3
     DEF HandlerStep, HandlerFault, ReceiveRequest, AnswerDecidedByRule, PushRequest, Wake,
         HangUp, Poll, MarkTimeout, AnswerTimeout, AnswerAfterRace, HandlerStoreFails,
         HandlerCrash

\* What a handler knows survives any step that leaves it alone.
LEMMA HandlerFrame ==
  ASSUME HandlerInv, UNCHANGED <<hpc, answer>>, \A q \in Reqs : KeptOrCloses(q)
  PROVE  HandlerInv'
<1> SUFFICES ASSUME NEW q \in Reqs PROVE HandlerKnows(q)'
  BY DEF HandlerInv
<1>1. HandlerKnows(q) /\ KeptOrCloses(q)
  BY DEF HandlerInv
<1>2. QED
  BY <1>1 DEF HandlerKnows, KeptOrCloses, Closed

\* What a call knows survives any step that leaves it alone.
LEMMA CallFrame ==
  ASSUME TypeInv, NEW c \in Calls, CallKnows(c),
         vpc'[c] = vpc[c], call'[c] = call[c], reply'[c] = reply[c],
         \A q \in Reqs : ClosedKept(q)
  PROVE  CallKnows(c)'
<1> DEFINE r == call[c].req
<1>1. CASE r \in Reqs
  <2>1. ClosedKept(r)
    BY <1>1
  <2>2. Decides(c) => Closed(r)
    BY DEF Decides, Closed, StatusOf
  <2>3. Decides(c) => Decides(c)'
    BY <2>1, <2>2 DEF Decides, ClosedKept
  <2>4. Closed(r) => Closed(r)'
    BY <2>1 DEF Closed, ClosedKept
  <2>5. QED
    BY <2>1, <2>2, <2>3, <2>4 DEF CallKnows, ClosedKept, Closed
<1>2. CASE r \notin Reqs
  BY <1>2 DEF CallKnows, TypeInv, CallsOnKnownIDs
<1>3. QED
  BY <1>1, <1>2

\* Pushes sent and bookkeeping done survive any step that adds none.
LEMMA EffectFrame ==
  ASSUME TypeInv, EffectInv, UNCHANGED <<pushes, whitelisted, counted>>,
         \A q \in Reqs : ClosedKept(q)
  PROVE  EffectInv'
<1>1. PushTellsOutcome'
  <2> SUFFICES ASSUME NEW p \in pushes, p.type = "request_decided"
               PROVE  p.status \in {"approved", "denied"} /\ p.status = rows'[p.req].status
    BY DEF PushTellsOutcome
  <2>1. p.req \in Reqs
    BY DEF TypeInv, TypeOK, Push
  <2>2. QED
    BY <2>1 DEF EffectInv, PushTellsOutcome, ClosedKept, Closed
<1>2. BookkeepingFollowsDecision'
  BY DEF EffectInv, BookkeepingFollowsDecision, TypeInv, TypeOK, ClosedKept, Closed
<1>3. QED
  BY <1>1, <1>2 DEF EffectInv

\* The initial state satisfies the safety invariant.
LEMMA SafetyInit == Init => SafetyInv
<1> SUFFICES ASSUME Init PROVE SafetyInv
  OBVIOUS
<1>1. HandlerInv
  BY DEF Init, HandlerInv, HandlerKnows, NoRow
<1>2. CallInv
  BY DEF Init, CallInv, CallKnows, NoReply
<1>3. EffectInv
  BY DEF Init, EffectInv, PushTellsOutcome, BookkeepingFollowsDecision
<1>4. QED
  BY <1>1, <1>2, <1>3, TypeInvInit DEF SafetyInv

\* A step of handler r preserves what r knows.
LEMMA HandlerSelf ==
  ASSUME SafetyInv, NEW r \in Reqs,
         ReceiveRequest(r) \/ HandlerStep(r) \/ HandlerFault(r)
  PROVE  HandlerKnows(r)'
<1> USE DEF HandlerKnows
<1> /\ HandlerKnows(r)
    /\ TypeOK
    /\ hpc \in [Reqs -> HandlerRunning \cup {"idle", "answered", "gone", "failed"}]
    /\ answer \in [Reqs -> Answer]
    /\ rows \in [Reqs -> Row]
  BY DEF SafetyInv, HandlerInv, TypeInv, TypeOK
<1>1. CASE ReceiveRequest(r)
  BY <1>1 DEF ReceiveRequest
<1>2. CASE CreateRequest(r)
  BY <1>2 DEF CreateRequest, NewRow, RuleOutcomes, Closed
<1>3. CASE AnswerDecidedByRule(r)
  BY <1>3 DEF AnswerDecidedByRule, Closed
<1>4. CASE PushRequest(r)
  BY <1>4 DEF PushRequest, Sleep
<1>5. CASE Wake(r)
  BY <1>5 DEF Wake
<1>6. CASE Poll(r)
  BY <1>6 DEF Poll, Sleep, Closed
<1>7. CASE MarkTimeout(r)
  <2>1. /\ MayMarkTimeout(r) =>
             rows'[r].status = "timeout" /\ rows'[r].decidedAt = NoTime
        /\ rows'[r].status \notin {"absent", "pending"}
    BY <1>7, TimedOutRows DEF MarkTimeout
  <2>2. QED
    BY <1>7, <2>1 DEF MarkTimeout, Closed
<1>8. CASE AnswerTimeout(r)
  BY <1>8 DEF AnswerTimeout, Closed
<1>9. CASE AnswerAfterRace(r)
  BY <1>9 DEF AnswerAfterRace, Closed
<1>10. CASE HangUp(r)
  BY <1>10 DEF HangUp
<1>11. CASE HandlerStoreFails(r)
  BY <1>11 DEF HandlerStoreFails
<1>12. CASE HandlerCrash(r)
  BY <1>12 DEF HandlerCrash, HandlerRunning
<1>13. QED
  BY <1>1, <1>2, <1>3, <1>4, <1>5, <1>6, <1>7, <1>8, <1>9, <1>10, <1>11, <1>12
     DEF HandlerStep, HandlerFault

\* A handler's own variables are not touched by another handler's step, and a
\* handler's pushes never announce a decision.
LEMMA HandlerOthers ==
  ASSUME TypeOK, NEW r \in Reqs,
         ReceiveRequest(r) \/ HandlerStep(r) \/ HandlerFault(r)
  PROVE  /\ \A q \in Reqs \ {r} : hpc'[q] = hpc[q] /\ answer'[q] = answer[q]
         /\ UNCHANGED callVars
         /\ \A p \in pushes' : p.type = "request_decided" => p \in pushes
<1>1. /\ UNCHANGED callVars
      /\ \A q \in Reqs \ {r} : hpc'[q] = hpc[q] /\ answer'[q] = answer[q]
  BY DEF TypeOK, HandlerStep, HandlerFault, ReceiveRequest, CreateRequest,
         AnswerDecidedByRule,
         PushRequest, Sleep, Wake, HangUp, Poll, MarkTimeout, AnswerTimeout,
         AnswerAfterRace, HandlerStoreFails, HandlerCrash
<1>2. CASE AnswerDecidedByRule(r)
  BY <1>1, <1>2 DEF AnswerDecidedByRule, PushAll
<1>3. CASE PushRequest(r)
  BY <1>1, <1>3 DEF PushRequest, PushAll
<1>4. CASE UNCHANGED pushes
  BY <1>1, <1>4
<1>5. QED
  BY <1>2, <1>3, <1>4
     DEF HandlerStep, HandlerFault, ReceiveRequest, CreateRequest, Wake, HangUp, Poll,
         MarkTimeout, AnswerTimeout, AnswerAfterRace, HandlerStoreFails, HandlerCrash

\* Every step of a handler preserves the safety invariant.
LEMMA SafetyHandler ==
  ASSUME SafetyInv, NEW r \in Reqs,
         ReceiveRequest(r) \/ HandlerStep(r) \/ HandlerFault(r)
  PROVE  SafetyInv'
<1>0. TypeInv /\ HandlerInv /\ CallInv /\ EffectInv /\ TypeOK
  BY DEF SafetyInv, TypeInv
<1>1. \A q \in Reqs : ClosedKept(q)
  BY <1>0, HandlerRows
<1>2. HandlerInv'
  <2> SUFFICES ASSUME NEW q \in Reqs PROVE HandlerKnows(q)'
    BY DEF HandlerInv
  <2>1. CASE q = r
    BY <2>1, HandlerSelf
  <2>2. CASE q # r
    <3>1. rows'[q] = rows[q] /\ hpc'[q] = hpc[q] /\ answer'[q] = answer[q]
      BY <1>0, <2>2, HandlerRows, HandlerOthers
    <3>2. QED
      BY <1>0, <3>1 DEF HandlerInv, HandlerKnows, Closed
  <2>3. QED
    BY <2>1, <2>2
<1>3. CallInv'
  BY <1>0, <1>1, HandlerOthers, CallFrame DEF CallInv, callVars
<1>4. EffectInv'
  <2>1. PushTellsOutcome'
    <3> SUFFICES ASSUME NEW p \in pushes', p.type = "request_decided"
                 PROVE  p.status \in {"approved", "denied"} /\ p.status = rows'[p.req].status
      BY DEF PushTellsOutcome
    <3>1. p \in pushes /\ p.req \in Reqs
      BY <1>0, HandlerOthers DEF TypeOK, Push
    <3>2. QED
      BY <1>0, <1>1, <3>1 DEF EffectInv, PushTellsOutcome, ClosedKept, Closed
  <2>2. BookkeepingFollowsDecision'
    BY <1>0, <1>1, HandlerOthers
       DEF EffectInv, BookkeepingFollowsDecision, TypeOK, ClosedKept, Closed, callVars
  <2>3. QED
    BY <2>1, <2>2 DEF EffectInv
<1>5. QED
  BY <1>0, <1>2, <1>3, <1>4, TypeInvHandler DEF SafetyInv

\* A step of call c preserves what c knows.
LEMMA CallSelf ==
  ASSUME SafetyInv, NEW c \in Calls,
         ReceiveVerdict(c) \/ CallStep(c) \/ CallFault(c)
  PROVE  CallKnows(c)'
<1> DEFINE r == call[c].req
<1> /\ CallKnows(c)
    /\ TypeOK
    /\ CallsOnKnownIDs
    /\ vpc \in [Calls -> CallRunning \cup {"idle", "done", "lost"}]
    /\ reply \in [Calls -> [code : {0, 200, 404, 409, 500}, status : Statuses \cup {"absent"}]]
    /\ rows \in [Reqs -> Row]
    /\ r \in Reqs \cup {UnknownID}
  BY DEF SafetyInv, CallInv, TypeInv, TypeOK
<1> DOMAIN call = Calls
  BY DEF TypeOK
<1>1. CASE ReceiveVerdict(c)
  BY <1>1, RequestsAssumption DEF ReceiveVerdict, CallKnows, UnknownID
<1>2. CASE DecideRequest(c)
  <2>1. CASE r = UnknownID /\ Finish(c, 404, "absent")
    BY <1>2, <2>1, RequestsAssumption DEF DecideRequest, Finish, CallKnows, UnknownID
  <2>2. CASE /\ r \in Reqs
             /\ rows' = Decided(r, c, StatusOf(call[c].verdict), call[c].at)
             /\ vpc' = [vpc EXCEPT ![c] = "readback"]
             /\ UNCHANGED <<reply, call>>
    <3>1. Decides(c)'
      BY <2>2 DEF Decided, Decides
    <3>2. reply[c].code = 0
      BY <1>2 DEF DecideRequest, CallKnows
    <3>3. QED
      BY <2>2, <3>1, <3>2 DEF CallKnows
  <2>3. CASE /\ r \in Reqs
             /\ vpc' = [vpc EXCEPT ![c] = "conflict"]
             /\ UNCHANGED <<rows, reply, call>>
    BY <1>2, <2>3 DEF DecideRequest, CallKnows
  <2>4. QED
    BY <1>2, <2>1, <2>2, <2>3 DEF DecideRequest
<1>3. CASE TellPhones(c)
  <2>1. /\ call'[c].req = r /\ call'[c].verdict = call[c].verdict
        /\ call'[c].seen = rows[r].status
        /\ vpc'[c] = "bookkeep" /\ reply'[c] = reply[c] /\ rows' = rows
    BY <1>3 DEF TellPhones, TypeOK
  <2>2. vpc[c] = "readback"
    BY <1>3 DEF TellPhones
  <2>3. QED
    BY <2>1, <2>2 DEF CallKnows, Decides
<1>4. CASE Bookkeep(c)
  <2>1. r \in Reqs
    BY <1>4 DEF Bookkeep, CallsOnKnownIDs
  <2>2. QED
    BY <1>4, <2>1 DEF Bookkeep, Finish, CallKnows, Decides
<1>5. CASE ConflictRead(c)
  <2>1. r \in Reqs /\ rows[r].status # "absent" /\ reply[c].code = 0
    BY <1>5 DEF ConflictRead, CallsOnKnownIDs, CallKnows
  <2>2. CASE rows[r].status # "pending" /\ Finish(c, 409, rows[r].status)
    BY <1>5, <2>1, <2>2 DEF ConflictRead, Finish, CallKnows, Closed
  <2>3. CASE vpc' = [vpc EXCEPT ![c] = "conflict_mark"] /\ UNCHANGED reply
    BY <1>5, <2>1, <2>3 DEF ConflictRead, CallKnows
  <2>4. QED
    BY <1>5, <2>2, <2>3 DEF ConflictRead
<1>6. CASE ConflictMark(c)
  <2>1. r \in Reqs /\ rows[r].status # "absent"
    BY <1>6 DEF ConflictMark, CallsOnKnownIDs, CallKnows
  <2>2. rows'[r].status \notin {"absent", "pending"}
    BY <1>6, <2>1, TimedOutRows DEF ConflictMark
  <2>3. QED
    BY <1>6, <2>1, <2>2 DEF ConflictMark, Finish, CallKnows, Closed
<1>7. CASE CallStoreFails(c)
  BY <1>7 DEF CallStoreFails, Finish, CallKnows
<1>8. CASE CallCrash(c)
  BY <1>8 DEF CallCrash, CallKnows, CallRunning
<1>9. QED
  BY <1>1, <1>2, <1>3, <1>4, <1>5, <1>6, <1>7, <1>8 DEF CallStep, CallFault

\* A call's own variables are not touched by another call's step.
LEMMA CallOthers ==
  ASSUME TypeOK, NEW c \in Calls,
         ReceiveVerdict(c) \/ CallStep(c) \/ CallFault(c)
  PROVE  /\ \A d \in Calls \ {c} :
              vpc'[d] = vpc[d] /\ call'[d] = call[d] /\ reply'[d] = reply[d]
         /\ UNCHANGED handlerVars
BY DEF TypeOK, CallStep, CallFault, ReceiveVerdict, DecideRequest, TellPhones, Bookkeep,
       ConflictRead, ConflictMark, CallStoreFails, CallCrash, Finish

\* A call announces and books only the decision it made.
LEMMA CallEffects ==
  ASSUME SafetyInv, NEW c \in Calls, \A q \in Reqs : ClosedKept(q),
         ReceiveVerdict(c) \/ CallStep(c) \/ CallFault(c)
  PROVE  EffectInv'
<1> DEFINE r == call[c].req
<1>0. TypeInv /\ EffectInv /\ TypeOK /\ CallKnows(c) /\ CallsOnKnownIDs
  BY DEF SafetyInv, TypeInv, CallInv
<1>1. CASE TellPhones(c)
  <2>1. r \in Reqs /\ Decides(c) /\ rows' = rows
    BY <1>0, <1>1 DEF TellPhones, CallsOnKnownIDs, CallKnows
  <2>2. pushes' \subseteq pushes \cup {[type |-> "request_decided", req |-> r, status |-> rows[r].status]}
    BY <1>1 DEF TellPhones, PushAll
  <2>3. rows[r].status \in {"approved", "denied"}
    BY <2>1 DEF Decides, StatusOf
  <2>4. QED
    BY <1>0, <1>1, <2>1, <2>2, <2>3
       DEF TellPhones, EffectInv, PushTellsOutcome, BookkeepingFollowsDecision
<1>2. CASE /\ vpc[c] = "bookkeep"
           /\ UNCHANGED <<rows, pushes>>
           /\ whitelisted' \in {whitelisted, WhitelistAfter(c)}
           /\ counted' \in {counted, CountedAfter(c)}
  <2>1. /\ Decides(c) /\ call[c].seen = StatusOf(call[c].verdict)
    BY <1>0, <1>2 DEF CallKnows
  <2>2. \A q \in whitelisted' : rows'[q].status = "approved"
    BY <1>0, <1>2, <2>1
       DEF EffectInv, BookkeepingFollowsDecision, WhitelistAfter, Decides, StatusOf
  <2>3. \A q \in counted' : rows'[q].status = "denied"
    BY <1>0, <1>2, <2>1
       DEF EffectInv, BookkeepingFollowsDecision, CountedAfter, Decides, StatusOf
  <2>4. QED
    BY <1>0, <1>2, <2>2, <2>3 DEF EffectInv, PushTellsOutcome, BookkeepingFollowsDecision
<1>3. CASE UNCHANGED <<pushes, whitelisted, counted>>
  BY <1>0, <1>3, EffectFrame
<1>4. QED
  BY <1>1, <1>2, <1>3
     DEF CallStep, CallFault, ReceiveVerdict, DecideRequest, Bookkeep, ConflictRead,
         ConflictMark, CallStoreFails, CallCrash, BrokenOff

\* Every step of a call preserves the safety invariant.
LEMMA SafetyCall ==
  ASSUME SafetyInv, NEW c \in Calls,
         ReceiveVerdict(c) \/ CallStep(c) \/ CallFault(c)
  PROVE  SafetyInv'
<1>0. TypeInv /\ HandlerInv /\ CallInv /\ EffectInv /\ TypeOK
  BY DEF SafetyInv, TypeInv
<1>1. \A q \in Reqs : KeptOrCloses(q)
  BY <1>0, CallRows
<1>2. \A q \in Reqs : ClosedKept(q)
  BY <1>1 DEF KeptOrCloses, ClosedKept, Closed
<1>3. HandlerInv'
  BY <1>0, <1>1, CallOthers, HandlerFrame DEF handlerVars
<1>4. CallInv'
  <2> SUFFICES ASSUME NEW d \in Calls PROVE CallKnows(d)'
    BY DEF CallInv
  <2>1. CASE d = c
    BY <2>1, CallSelf
  <2>2. CASE d # c
    BY <1>0, <1>2, <2>2, CallOthers, CallFrame DEF CallInv
  <2>3. QED
    BY <2>1, <2>2
<1>5. EffectInv'
  BY <1>2, CallEffects
<1>6. QED
  BY <1>0, <1>3, <1>4, <1>5, TypeInvCall DEF SafetyInv

\* The safety invariant is inductive, and no step changes a closed row.
LEMMA SafetyNext ==
  ASSUME SafetyInv, [Next]_vars
  PROVE  SafetyInv' /\ \A q \in Reqs : ClosedKept(q)
<1>0. TypeInv /\ HandlerInv /\ CallInv /\ EffectInv
  BY DEF SafetyInv
<1>1. CASE UNCHANGED <<rows, handlerVars, callVars, pushes>>
  <2>1. \A q \in Reqs : KeptOrCloses(q) /\ ClosedKept(q)
    BY <1>1 DEF KeptOrCloses, ClosedKept
  <2>2. HandlerInv'
    BY <1>0, <1>1, <2>1, HandlerFrame DEF handlerVars
  <2>3. CallInv'
    BY <1>0, <1>1, <2>1, CallFrame DEF CallInv, callVars
  <2>4. EffectInv'
    BY <1>0, <1>1, <2>1, EffectFrame DEF callVars
  <2>5. QED
    BY <1>0, <2>1, <2>2, <2>3, <2>4, TypeInvNext DEF SafetyInv
<1>2. ASSUME NEW r \in Reqs, ReceiveRequest(r) \/ HandlerStep(r) \/ HandlerFault(r)
      PROVE  SafetyInv' /\ \A q \in Reqs : ClosedKept(q)
  BY <1>0, <1>2, SafetyHandler, HandlerRows
<1>3. ASSUME NEW c \in Calls, ReceiveVerdict(c) \/ CallStep(c) \/ CallFault(c)
      PROVE  SafetyInv' /\ \A q \in Reqs : ClosedKept(q)
  <2>1. \A q \in Reqs : KeptOrCloses(q)
    BY <1>0, <1>3, CallRows
  <2>2. \A q \in Reqs : ClosedKept(q)
    BY <2>1 DEF KeptOrCloses, ClosedKept, Closed
  <2>3. QED
    BY <1>3, <2>2, SafetyCall
<1>4. CASE Tick
  BY <1>1, <1>4 DEF Tick
<1>5. CASE UNCHANGED vars
  BY <1>1, <1>5 DEF vars, handlerVars, callVars
<1>6. QED
  BY <1>2, <1>3, <1>4, <1>5 DEF Next, Quiescent

\* Spec keeps the safety invariant.
LEMMA SafetyInvariant == Spec => []SafetyInv
<1>1. Init => SafetyInv
  BY SafetyInit
<1>2. SafetyInv /\ [Next]_vars => SafetyInv'
  BY SafetyNext
<1>3. QED
  BY <1>1, <1>2, PTL DEF Spec

\* The agent's answer is the row's outcome, whichever of the racing handlers
\* closed the row and however the answering one found out.
THEOREM AgentAnswer == Spec => []AgentAnswerMatchesRow
<1>1. SafetyInv => AgentAnswerMatchesRow
  BY DEF SafetyInv, HandlerInv, HandlerKnows, AgentAnswerMatchesRow
<1>2. QED
  BY <1>1, SafetyInvariant, PTL

\* A phone that got 200 decided the request for good, and no other did.
THEOREM OneWinner == Spec => []FirstVerdictWins
<1>1. SafetyInv => FirstVerdictWins
  BY DEF SafetyInv, CallInv, CallKnows, Decides, FirstVerdictWins
<1>2. QED
  BY <1>1, SafetyInvariant, PTL

\* The phone that decided and the agent that asked got the same verdict.
THEOREM EndsAgree == Spec => []PhoneAndAgentAgree
<1>1. SafetyInv => PhoneAndAgentAgree
  <2> SUFFICES ASSUME SafetyInv, NEW c \in Calls, reply[c].code = 200,
                      answer[call[c].req] # NoAnswer
               PROVE  /\ answer[call[c].req].reason = "admin"
                      /\ answer[call[c].req].verdict = "deny" <=> call[c].verdict = "deny"
    BY DEF PhoneAndAgentAgree
  <2>1. call[c].req \in Reqs /\ rows[call[c].req].status = StatusOf(call[c].verdict)
    BY DEF SafetyInv, CallInv, CallKnows, Decides
  <2>2. answer[call[c].req] =
          AnswerFor(rows[call[c].req].status, rows[call[c].req].decidedAt)
    BY <2>1 DEF SafetyInv, HandlerInv, HandlerKnows
  <2>3. QED
    BY <2>1, <2>2 DEF AnswerFor, VerdictFor, StatusOf
<1>2. QED
  BY <1>1, SafetyInvariant, PTL

\* A 409 is about a closed row and never names a wrong winner.
THEOREM ConflictIsReal == Spec => []ConflictNamesWinner
<1>1. SafetyInv => ConflictNamesWinner
  BY DEF SafetyInv, CallInv, CallKnows, Closed, ConflictNamesWinner
<1>2. QED
  BY <1>1, SafetyInvariant, PTL

\* A push about a closed request tells what its row says (PushTellsOutcome).
THEOREM PushFollowsDecision == Spec => []PushTellsOutcome
<1>1. SafetyInv => PushTellsOutcome
  BY DEF SafetyInv, EffectInv
<1>2. QED
  BY <1>1, SafetyInvariant, PTL

\* Whitelist entries and denial counts follow the decision
\* (BookkeepingFollowsDecision).
THEOREM EffectsFollowDecision == Spec => []BookkeepingFollowsDecision
<1>1. SafetyInv => BookkeepingFollowsDecision
  BY DEF SafetyInv, EffectInv
<1>2. QED
  BY <1>1, SafetyInvariant, PTL

\* No step of any handler, call or fault changes a closed row.
THEOREM ClosedForGood == Spec => FinalStaysFinal
<1>1. SafetyInv /\ [Next]_vars =>
        [\A r \in Reqs :
           rows[r].status \notin {"absent", "pending"} => rows'[r] = rows[r]]_vars
  BY SafetyNext DEF ClosedKept, Closed
<1>2. QED
  BY <1>1, SafetyInvariant, PTL DEF Spec, FinalStaysFinal

-----------------------------------------------------------------------------
(* Refinement *)

\* The initial states of the backend are initial states of the register.
LEMMA RefinesInit == Init => Register!Init
BY DEF Init, Register!Init, NoRow, NoAnswer

\* A handler's answer for a closed row is what the register tells.
LEMMA AnswerGrants ==
  ASSUME NEW status, NEW at
  PROVE  AnswerFor(status, at).verdict =
           IF status \in Register!Granting THEN "approve" ELSE "deny"
BY DEF AnswerFor, VerdictFor, Register!Granting

\* Replacing a pending row by a closed one closes the register.
LEMMA RefinesClose ==
  ASSUME TypeOK, NEW r \in Reqs, NEW row, rows[r].status = "pending",
         rows' = [rows EXCEPT ![r] = row],
         row.status \in {"approved", "denied", "timeout"}, UNCHANGED answer
  PROVE  Register!Close(r)
<1>1. [q \in Reqs |-> rows'[q].status]
        = [[q \in Reqs |-> rows[q].status] EXCEPT ![r] = row.status]
  BY DEF TypeOK
<1>2. QED
  BY <1>1 DEF Register!Close, Register!ByAdmin

\* MarkTimeout closes the register or leaves it alone.
LEMMA RefinesTimedOut ==
  ASSUME TypeOK, NEW r \in Reqs, rows' = TimedOut(r), UNCHANGED answer
  PROVE  Register!Close(r) \/ UNCHANGED rows
BY RefinesClose DEF TimedOut, MayMarkTimeout

\* Answering from the outcome of a closed row is the register's Tell.
LEMMA RefinesTell ==
  ASSUME TypeOK, NEW r \in Reqs, Closed(r), answer[r] = NoAnswer, UNCHANGED rows,
         NEW at, answer' = [answer EXCEPT ![r] = AnswerFor(rows[r].status, at)]
  PROVE  Register!Tell(r)
<1> DEFINE verdict == IF rows[r].status \in Register!Granting THEN "approve" ELSE "deny"
<1>1. AnswerFor(rows[r].status, at).verdict = verdict
  BY AnswerGrants
<1>2. [q \in Reqs |-> answer'[q].verdict]
        = [[q \in Reqs |-> answer[q].verdict] EXCEPT ![r] = verdict]
  BY <1>1 DEF TypeOK
<1>3. rows[r].status \in Register!Closed
  BY DEF TypeOK, Row, Statuses, RuleOutcomes, Closed, Register!Closed, Register!ByRule,
         Register!ByAdmin
<1>4. QED
  BY <1>2, <1>3 DEF Register!Tell, NoAnswer

\* A step of a handler is a step of the register or leaves it alone.
LEMMA RefinesHandler ==
  ASSUME SafetyInv, NEW r \in Reqs,
         ReceiveRequest(r) \/ HandlerStep(r) \/ HandlerFault(r)
  PROVE  [Register!Next]_(Register!vars)
<1>0. TypeOK /\ HandlerKnows(r)
  BY DEF SafetyInv, TypeInv, HandlerInv
<1>1. CASE UNCHANGED <<rows, answer>>
  BY <1>1 DEF Register!vars
<1>2. CASE CreateRequest(r)
  <2> PICK outcome \in RuleOutcomes :
        rows' = [rows EXCEPT ![r] = NewRow(outcome, createdAt[r])]
    BY <1>2 DEF CreateRequest
  <2>1. rows[r].status = "absent" /\ UNCHANGED answer
    BY <1>0, <1>2 DEF CreateRequest, HandlerKnows
  <2>2. [q \in Reqs |-> rows'[q].status]
          = [[q \in Reqs |-> rows[q].status] EXCEPT ![r] = outcome]
    BY <1>0 DEF TypeOK, NewRow
  <2>3. Register!Open(r)
    BY <2>1, <2>2 DEF Register!Open, Register!ByRule, RuleOutcomes
  <2>4. QED
    BY <2>3 DEF Register!Next
<1>3. CASE AnswerDecidedByRule(r) \/ AnswerAfterRace(r) \/ AnswerTimeout(r)
  <2>1. /\ Closed(r) /\ answer[r] = NoAnswer /\ UNCHANGED rows
        /\ \E at : answer' = [answer EXCEPT ![r] = AnswerFor(rows[r].status, at)]
    BY <1>0, <1>3
       DEF AnswerDecidedByRule, AnswerAfterRace, AnswerTimeout, HandlerKnows, Closed
  <2>2. Register!Tell(r)
    BY <1>0, <2>1, RefinesTell
  <2>3. QED
    BY <2>2 DEF Register!Next
<1>4. CASE Poll(r) /\ rows[r].status # "pending"
  <2>1. /\ Closed(r) /\ answer[r] = NoAnswer /\ UNCHANGED rows
        /\ \E at : answer' = [answer EXCEPT ![r] = AnswerFor(rows[r].status, at)]
    BY <1>0, <1>4 DEF Poll, HandlerKnows, Closed
  <2>2. Register!Tell(r)
    BY <1>0, <2>1, RefinesTell
  <2>3. QED
    BY <2>2 DEF Register!Next
<1>5. CASE rows' = TimedOut(r) /\ UNCHANGED answer
  BY <1>0, <1>5, RefinesTimedOut DEF Register!Next, Register!vars
<1>6. QED
  BY <1>1, <1>2, <1>3, <1>4, <1>5
     DEF HandlerStep, HandlerFault, ReceiveRequest, PushRequest, Wake, HangUp, Poll,
         MarkTimeout, HandlerStoreFails, HandlerCrash

\* A step of a verdict call is a step of the register or leaves it alone.
LEMMA RefinesCall ==
  ASSUME SafetyInv, NEW c \in Calls,
         ReceiveVerdict(c) \/ CallStep(c) \/ CallFault(c)
  PROVE  [Register!Next]_(Register!vars)
<1>0. TypeOK /\ CallsOnKnownIDs /\ UNCHANGED answer
  BY CallOthers DEF SafetyInv, TypeInv, handlerVars
<1>1. CASE UNCHANGED rows
  BY <1>0, <1>1 DEF Register!vars
<1>2. CASE DecideRequest(c) /\ ~ UNCHANGED rows
  <2> PICK r \in Reqs : r = call[c].req
    BY <1>0, <1>2 DEF DecideRequest, TypeOK
  <2>1. /\ rows[r].status = "pending"
        /\ rows' = Decided(r, c, StatusOf(call[c].verdict), call[c].at)
    BY <1>0, <1>2 DEF DecideRequest, MayDecide, TypeOK
  <2> DEFINE row == [status |-> StatusOf(call[c].verdict), decidedBy |-> c,
                     decidedAt |-> call[c].at, expiresAt |-> rows[r].expiresAt]
  <2>2. rows' = [rows EXCEPT ![r] = row]
    BY <2>1 DEF Decided
  <2>3. row.status \in {"approved", "denied", "timeout"}
    BY DEF StatusOf
  <2>4. Register!Close(r)
    <3> HIDE DEF row
    <3> QED
      BY <1>0, <2>1, <2>2, <2>3, RefinesClose
  <2>5. QED
    BY <2>4 DEF Register!Next
<1>3. CASE vpc[c] = "conflict_mark" /\ rows' = TimedOut(call[c].req)
  <2> PICK r \in Reqs : r = call[c].req
    BY <1>0, <1>3 DEF CallsOnKnownIDs
  <2>1. rows' = TimedOut(r)
    BY <1>3
  <2>2. Register!Close(r) \/ UNCHANGED rows
    BY <1>0, <2>1, RefinesTimedOut
  <2>3. QED
    BY <1>0, <2>2 DEF Register!Next, Register!vars
<1>4. QED
  BY <1>1, <1>2, <1>3
     DEF CallStep, CallFault, ReceiveVerdict, TellPhones, Bookkeep, ConflictRead,
         ConflictMark, CallStoreFails, CallCrash, BrokenOff

\* The backend implements the write-once decision register: a request is closed
\* at most once and its server is told only the outcome it was closed with.
THEOREM Refinement == Spec => RefinesRegister
<1>1. SafetyInv /\ [Next]_vars => [Register!Next]_(Register!vars)
  <2> SUFFICES ASSUME SafetyInv, [Next]_vars PROVE [Register!Next]_(Register!vars)
    OBVIOUS
  <2>1. CASE UNCHANGED vars \/ Tick
    BY <2>1 DEF vars, Tick, handlerVars, Register!vars
  <2>2. QED
    BY <2>1, RefinesHandler, RefinesCall DEF Next, Quiescent
<1>2. QED
  BY <1>1, RefinesInit, SafetyInvariant, PTL DEF Spec, RefinesRegister, Register!Spec

-----------------------------------------------------------------------------
(* Timeouts are not early. *)

\* A handler about to mark has reached its deadline; every row expires
\* RequestTTL after its handler read the clock.
HandlerTime(r) ==
  /\ rows[r].status # "absent" =>
       hpc[r] # "idle" /\ rows[r].expiresAt = createdAt[r] + RequestTTL
  /\ hpc[r] = "mark" => now >= createdAt[r] + VerdictWait
  /\ rows[r].status = "timeout" =>
       now >= createdAt[r] + VerdictWait \/ now >= createdAt[r] + RequestTTL

\* A call that was refused a row still pending was refused for its expiry.
CallTime(c) ==
  /\ call[c].at <= now
  /\ vpc[c] \in {"conflict", "conflict_mark"} /\ rows[call[c].req].status = "pending" =>
       rows[call[c].req].expiresAt <= call[c].at

TimeInv == (\A r \in Reqs : HandlerTime(r)) /\ (\A c \in Calls : CallTime(c))

\* The initial state satisfies the timing invariant.
LEMMA TimeInit == Init => TimeInv
BY DEF Init, TimeInv, HandlerTime, CallTime, NoRow, NoCall, NoTime

\* A step of a handler preserves the timing invariant.
LEMMA TimeHandler ==
  ASSUME SafetyInv, TimeInv, NEW r \in Reqs,
         ReceiveRequest(r) \/ HandlerStep(r) \/ HandlerFault(r)
  PROVE  TimeInv'
<1>0. TypeInv /\ TypeOK /\ HandlerInv /\ HandlerKnows(r) /\ HandlerTime(r)
  BY DEF SafetyInv, TypeInv, HandlerInv, TimeInv
<1> now \in Int /\ createdAt[r] \in Int /\ VerdictWait \in Int /\ RequestTTL \in Int
  BY <1>0, ConfigAssumption, MaxTimeAssumption DEF TypeOK, Time, NoTime
<1>1. UNCHANGED <<now, vpc, call>>
  BY DEF HandlerStep, HandlerFault, ReceiveRequest, CreateRequest, AnswerDecidedByRule,
         PushRequest, Wake, HangUp, Poll, MarkTimeout, AnswerTimeout, AnswerAfterRace,
         HandlerStoreFails, HandlerCrash, callVars
<1>2. \A q \in Reqs \ {r} : rows'[q] = rows[q] /\ hpc'[q] = hpc[q] /\ createdAt'[q] = createdAt[q]
  <2>1. \A q \in Reqs \ {r} : createdAt'[q] = createdAt[q]
    BY <1>0
       DEF TypeOK, HandlerStep, HandlerFault, ReceiveRequest, CreateRequest,
           AnswerDecidedByRule,
           PushRequest, Wake, HangUp, Poll, MarkTimeout, AnswerTimeout, AnswerAfterRace,
           HandlerStoreFails, HandlerCrash
  <2>2. QED
    BY <1>0, <2>1, HandlerRows, HandlerOthers
<1>3. HandlerTime(r)'
  <2> USE <1>0 DEF HandlerTime, HandlerKnows
  <2>1. CASE ReceiveRequest(r)
    BY <2>1 DEF ReceiveRequest
  <2>2. CASE CreateRequest(r)
    BY <2>2 DEF CreateRequest, NewRow, RuleOutcomes, TypeOK
  <2>3. CASE MarkTimeout(r)
    BY <2>3 DEF MarkTimeout, TimedOut, TypeOK
  <2>4. CASE HandlerStoreFails(r)
    BY <2>4 DEF HandlerStoreFails, TimedOut, TypeOK
  <2>5. CASE Wake(r)
    BY <2>5 DEF Wake, Deadline, TypeOK
  <2>6. CASE /\ UNCHANGED <<rows, createdAt, now>>
             /\ hpc'[r] \notin {"idle", "mark"}
    BY <2>6
  <2>7. QED
    BY <2>1, <2>2, <2>3, <2>4, <2>5, <2>6
       DEF HandlerStep, HandlerFault, AnswerDecidedByRule, PushRequest, Sleep, HangUp,
           Poll, AnswerTimeout, AnswerAfterRace, HandlerCrash, TypeOK
<1>4. ASSUME NEW q \in Reqs PROVE HandlerTime(q)'
  <2>1. CASE q # r
    BY <1>1, <1>2, <2>1 DEF HandlerTime, TimeInv
  <2>2. QED
    BY <1>3, <2>1
<1>5. ASSUME NEW c \in Calls PROVE CallTime(c)'
  <2>1. CASE vpc[c] \in {"conflict", "conflict_mark"}
    <3>1. call[c].req \in Reqs /\ rows[call[c].req].status # "absent"
      BY <2>1 DEF SafetyInv, TypeInv, CallsOnKnownIDs, CallInv, CallKnows
    <3>2. rows'[call[c].req].status = "pending" => rows'[call[c].req] = rows[call[c].req]
      <4>1. CASE call[c].req # r
        BY <1>2, <3>1, <4>1
      <4>2. CASE call[c].req = r
        <5>1. CASE rows' = TimedOut(r)
          BY <1>0, <3>1, <4>2, <5>1 DEF TimedOut, MayMarkTimeout, TypeOK
        <5>2. CASE UNCHANGED rows
          BY <5>2
        <5>3. QED
          BY <1>0, <3>1, <4>2, <5>1, <5>2
             DEF HandlerKnows, HandlerStep, HandlerFault, ReceiveRequest, CreateRequest,
                 AnswerDecidedByRule, PushRequest, Wake, HangUp, Poll, MarkTimeout,
                 AnswerTimeout, AnswerAfterRace, HandlerStoreFails, HandlerCrash
      <4>3. QED
        BY <4>1, <4>2
    <3>3. QED
      BY <1>1, <3>2 DEF CallTime, TimeInv
  <2>2. CASE vpc[c] \notin {"conflict", "conflict_mark"}
    BY <1>1, <2>2 DEF CallTime, TimeInv
  <2>3. QED
    BY <2>1, <2>2
<1>6. QED
  BY <1>4, <1>5 DEF TimeInv

\* A step of a verdict call preserves the timing invariant.
LEMMA TimeCall ==
  ASSUME SafetyInv, TimeInv, NEW c \in Calls,
         ReceiveVerdict(c) \/ CallStep(c) \/ CallFault(c)
  PROVE  TimeInv'
<1>0. TypeInv /\ TypeOK /\ CallKnows(c) /\ CallTime(c)
  BY DEF SafetyInv, TypeInv, CallInv, TimeInv
<1> now \in Int /\ VerdictWait \in Int /\ RequestTTL \in Int /\ call[c].at \in Int
  BY <1>0, ConfigAssumption, MaxTimeAssumption DEF TypeOK, Time, NoTime
<1>1. UNCHANGED <<now, hpc, createdAt>>
  BY DEF CallStep, CallFault, ReceiveVerdict, DecideRequest, TellPhones, Bookkeep,
         ConflictRead, ConflictMark, CallStoreFails, CallCrash, handlerVars
\* Only a refused call marks a row, and it was refused for the row's expiry.
<1>2. \A q \in Reqs :
        \/ rows'[q] = rows[q]
        \/ /\ rows[q].status = "pending"
           /\ rows'[q].expiresAt = rows[q].expiresAt
           /\ rows'[q].status # "pending"
           /\ rows'[q].status = "timeout" => rows[q].expiresAt <= now
  <2>1. CASE DecideRequest(c)
    BY <1>0, <2>1 DEF DecideRequest, Decided, MayDecide, StatusOf, TypeOK
  <2>2. CASE vpc[c] = "conflict_mark" /\ rows' = TimedOut(call[c].req)
    <3>1. call[c].req \in Reqs
      BY <1>0, <2>2 DEF TypeInv, CallsOnKnownIDs
    <3>2. rows[call[c].req].status = "pending" => rows[call[c].req].expiresAt <= now
      <4>1. rows[call[c].req].expiresAt \in Int
        BY <1>0, <3>1 DEF TypeOK, Row
      <4>2. QED
        BY <1>0, <2>2, <4>1 DEF CallTime
    <3>3. QED
      BY <1>0, <2>2, <3>1, <3>2 DEF TimedOut, MayMarkTimeout, TypeOK
  <2>3. CASE UNCHANGED rows
    BY <2>3
  <2>4. QED
    BY <2>1, <2>2, <2>3
       DEF CallStep, CallFault, ReceiveVerdict, TellPhones, Bookkeep, ConflictRead,
           ConflictMark, CallStoreFails, CallCrash, BrokenOff
<1>3. ASSUME NEW q \in Reqs PROVE HandlerTime(q)'
  <2>1. createdAt[q] \in Int /\ HandlerTime(q)
    BY <1>0, MaxTimeAssumption DEF TypeOK, Time, NoTime, TimeInv
  <2>2. QED
    BY <1>1, <1>2, <2>1 DEF HandlerTime
<1>4. ASSUME NEW d \in Calls \ {c} PROVE CallTime(d)'
  <2>1. CallTime(d) /\ vpc'[d] = vpc[d] /\ call'[d] = call[d]
    BY <1>0, CallOthers DEF TimeInv
  <2>2. vpc[d] \in {"conflict", "conflict_mark"} => call[d].req \in Reqs
    BY <1>0 DEF TypeInv, CallsOnKnownIDs
  <2>3. QED
    BY <1>1, <1>2, <2>1, <2>2 DEF CallTime
<1>5. CallTime(c)'
  <2>1. CASE ReceiveVerdict(c)
    BY <1>0, <2>1 DEF ReceiveVerdict, CallTime, TypeOK
  <2>2. CASE DecideRequest(c)
    <3>1. call[c].req \in Reqs => rows[call[c].req].expiresAt \in Int
      BY <1>0 DEF TypeOK, Row
    <3>2. QED
      BY <1>0, <2>2, <3>1 DEF DecideRequest, Finish, MayDecide, CallTime, TypeOK
  <2>3. CASE ConflictRead(c)
    BY <1>0, <2>3 DEF ConflictRead, Finish, CallTime, TypeOK
  <2>4. CASE call'[c].at = call[c].at /\ vpc'[c] \notin {"conflict", "conflict_mark"}
    BY <1>0, <1>1, <2>4 DEF CallTime
  <2>5. QED
    BY <1>0, <2>1, <2>2, <2>3, <2>4
       DEF CallStep, CallFault, TellPhones, Bookkeep, ConflictMark, CallStoreFails,
           CallCrash, Finish, TypeOK
<1>6. QED
  BY <1>3, <1>4, <1>5 DEF TimeInv

\* No request is timed out before the wait window or its lifetime is over.
THEOREM NoEarlyTimeout == Spec => []TimeoutNotEarly
<1>1. SafetyInv /\ TimeInv /\ [Next]_vars => TimeInv'
  <2> SUFFICES ASSUME SafetyInv, TimeInv, [Next]_vars PROVE TimeInv'
    OBVIOUS
  <2>1. CASE Tick
    <3>1. now \in Int /\ now' = now + 1 /\ VerdictWait \in Int /\ RequestTTL \in Int
      BY <2>1, ConfigAssumption, MaxTimeAssumption
         DEF Tick, SafetyInv, TypeInv, TypeOK, Time
    <3>2. \A r \in Reqs : createdAt[r] \in Int
      BY MaxTimeAssumption DEF SafetyInv, TypeInv, TypeOK, Time, NoTime
    <3>3. \A c \in Calls : call[c].at \in Int
      BY MaxTimeAssumption DEF SafetyInv, TypeInv, TypeOK, Time, NoTime
    <3>4. ASSUME NEW r \in Reqs PROVE HandlerTime(r)'
      BY <2>1, <3>1, <3>2 DEF Tick, TimeInv, HandlerTime, handlerVars
    <3>5. ASSUME NEW c \in Calls PROVE CallTime(c)'
      BY <2>1, <3>1, <3>3 DEF Tick, TimeInv, CallTime, callVars
    <3>6. QED
      BY <3>4, <3>5 DEF TimeInv
  <2>2. CASE UNCHANGED vars
    BY <2>2 DEF vars, TimeInv, HandlerTime, CallTime
  <2>3. QED
    BY <2>1, <2>2, TimeHandler, TimeCall DEF Next, Quiescent
<1>2. TimeInv => TimeoutNotEarly
  BY DEF TimeInv, HandlerTime, TimeoutNotEarly
<1>3. QED
  BY <1>1, <1>2, TimeInit, SafetyInvariant, PTL DEF Spec
===============================================================================
