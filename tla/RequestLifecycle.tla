--------------------------- MODULE RequestLifecycle ---------------------------
(***************************************************************************)
(* The life of an access request inside the backend: POST /access-request  *)
(* (handler/access_request.go) inserts the row, pushes it to the phones    *)
(* and polls it until a verdict lands or the wait window closes; POST      *)
(* /verdict (handler/verdict.go) decides it.  Handlers of both kinds run   *)
(* concurrently, possibly in different processes, and meet only in the     *)
(* requests table (db/postgres_requests.go).  Every statement on that      *)
(* table is one atomic step; time and other handlers move between two      *)
(* statements of one handler.                                              *)
(*                                                                         *)
(* rules.Evaluate is abstracted here to the status it returns; module      *)
(* AutoBlock models the rules.                                             *)
(***************************************************************************)
EXTENDS Integers

CONSTANTS
  Reqs,          \* access requests the agents send
  Calls,         \* POST /verdict calls; a phone's retry is another call
  WithIP,        \* the requests that carry a source IP (sudo has none)
  VerdictWait,   \* Config.VerdictWait
  RequestTTL,    \* Config.RequestTTL; the configuration does not order the two
  PollInterval,  \* Config.PollInterval
  Faults,        \* which faults may happen
  MaxTime        \* bound on the clock

ASSUME RequestsAssumption == WithIP \subseteq Reqs /\ "none" \notin Reqs
ASSUME ConfigAssumption ==
  /\ VerdictWait \in Nat \ {0}
  /\ RequestTTL \in Nat \ {0}
  /\ PollInterval \in Nat \ {0}
ASSUME FaultsAssumption == Faults \subseteq {"hangup", "store", "crash"}
ASSUME MaxTimeAssumption == MaxTime \in Nat

VARIABLES
  now,          \* the wall clock every process reads
  rows,         \* the requests table
  hpc,          \* control point of each access-request handler
  createdAt,    \* accessRequest's `now`
  wake,         \* when the handler's current Sleep ends
  answer,       \* the 200 answer given to the agent
  vpc,          \* control point of each verdict call
  call,         \* its body, its clock reading and the row it read back
  reply,        \* its answer to the phone: HTTP code and status
  pushes,       \* messages handed to FCM
  whitelisted,  \* requests whose approve_always saved a whitelist entry
  counted       \* denied requests handed to RecordDenial

vars == <<now, rows, hpc, createdAt, wake, answer, vpc, call, reply,
          pushes, whitelisted, counted>>
handlerVars == <<hpc, createdAt, wake, answer>>
callVars == <<vpc, call, reply, whitelisted, counted>>

-----------------------------------------------------------------------------
(* Values *)

Time == 0 .. MaxTime
NoTime == -1                    \* SQL NULL, a nil *time.Time

RuleOutcomes == {"pending", "blocked_ip", "blocked_geo", "whitelisted", "notified"}
Statuses == RuleOutcomes \cup {"approved", "denied", "timeout"}
Verdicts == {"approve", "deny", "approve_always"}

\* Outcome.DecidedBy for each status the rules return.
RuleDecidedBy(outcome) ==
  CASE outcome = "blocked_ip"  -> "autoblock"
    [] outcome = "blocked_geo" -> "georule"
    [] outcome = "whitelisted" -> "whitelist"
    [] OTHER                   -> "null"

\* decidedBy holds the deciding call where the table holds 'admin' and the
\* deciding phone.
Row == [status    : Statuses \cup {"absent"},
        decidedBy : Calls \cup {"null", "autoblock", "georule", "whitelist", "timeout"},
        decidedAt : Time \cup {NoTime},
        expiresAt : Int]
NoRow == [status |-> "absent", decidedBy |-> "null",
          decidedAt |-> NoTime, expiresAt |-> NoTime]

\* A pending row gets its decision columns later; a rule decides at `at`.
NewRow(outcome, at) ==
  [status    |-> outcome,
   decidedBy |-> RuleDecidedBy(outcome),
   decidedAt |-> IF outcome = "pending" THEN NoTime ELSE at,
   expiresAt |-> at + RequestTTL]

\* model.VerdictFor: the verdict and the reason an agent is given for a status.
VerdictFor(status) ==
  CASE status = "approved"    -> <<"approve", "admin">>
    [] status = "denied"      -> <<"deny", "admin">>
    [] status = "whitelisted" -> <<"approve", "whitelist">>
    [] status = "notified"    -> <<"approve", "notify">>
    [] status = "blocked_ip"  -> <<"deny", "blocked_ip">>
    [] status = "blocked_geo" -> <<"deny", "blocked_geo">>
    [] OTHER                  -> <<"deny", "timeout">>

\* answerAccessRequest
AnswerFor(status, decidedAt) ==
  [verdict |-> VerdictFor(status)[1], reason |-> VerdictFor(status)[2],
   decidedAt |-> decidedAt]
NoAnswer == [verdict |-> "none", reason |-> "none", decidedAt |-> NoTime]
Answer == [verdict : {"none", "approve", "deny"},
           reason : {"none", "admin", "whitelist", "notify", "blocked_ip",
                     "blocked_geo", "timeout"},
           decidedAt : Time \cup {NoTime}]

\* The status a verdict asks for (the switch on body.Verdict).
StatusOf(verdict) == IF verdict = "deny" THEN "denied" ELSE "approved"

UnknownID == "none"             \* an id no row has
NoCall == [req |-> UnknownID, verdict |-> "none", at |-> NoTime, seen |-> "absent"]
NoReply == [code |-> 0, status |-> "absent"]

Push == [type : {"access_request", "access_notice", "request_decided"},
         req : Reqs, status : Statuses \cup {"absent"}]

Deadline(r) == createdAt[r] + VerdictWait

HandlerRunning == {"evaluate", "answer", "push", "sleep", "poll", "mark", "expired", "reread"}
CallRunning == {"decide", "readback", "bookkeep", "conflict", "conflict_mark"}

-----------------------------------------------------------------------------
(* Statements on the requests table *)

\* Mutant: only the expiry is checked, so a later verdict overwrites.
MayDecideUnexpired(r, at) == rows[r].expiresAt > at

\* WHERE status = 'pending' AND expires_at > now
MayDecide(r, at) == rows[r].status = "pending" /\ rows[r].expiresAt > at

\* UPDATE of DecideRequest
Decided(r, c, status, at) ==
  [rows EXCEPT ![r] = [status |-> status, decidedBy |-> c, decidedAt |-> at,
                       expiresAt |-> rows[r].expiresAt]]

\* Mutants: an unconditional update; one that also asks for the expiry.
MayMarkTimeoutAlways(r) == rows[r].status # "absent"
MayMarkTimeoutExpired(r) == rows[r].status = "pending" /\ rows[r].expiresAt <= now

\* UPDATE of MarkTimeout: only a pending row changes.
MayMarkTimeout(r) == rows[r].status = "pending"
TimedOut(r) ==
  IF MayMarkTimeout(r)
  THEN [rows EXCEPT ![r] = [status |-> "timeout", decidedBy |-> "timeout",
                            decidedAt |-> NoTime, expiresAt |-> rows[r].expiresAt]]
  ELSE rows

\* pushAll: best effort, so the message may reach nobody.
PushAll(type, r, status) ==
  pushes' \in {pushes, pushes \cup {[type |-> type, req |-> r, status |-> status]}}

-----------------------------------------------------------------------------
(* POST /access-request *)

\* The handler reads the clock once; every deadline is measured from here.
\* MaxTime leaves room for the whole wait.
ReceiveRequest(r) ==
  /\ hpc[r] = "idle"
  /\ now + VerdictWait <= MaxTime
  /\ createdAt' = [createdAt EXCEPT ![r] = now]
  /\ hpc' = [hpc EXCEPT ![r] = "evaluate"]
  /\ UNCHANGED <<now, rows, wake, answer, pushes, callVars>>

\* rules.Evaluate and the INSERT of CreateRequest.
CreateRequest(r) ==
  /\ hpc[r] = "evaluate"
  /\ \E outcome \in RuleOutcomes :
       /\ rows' = [rows EXCEPT ![r] = NewRow(outcome, createdAt[r])]
       /\ hpc' = [hpc EXCEPT ![r] = IF outcome = "pending" THEN "push" ELSE "answer"]
  /\ UNCHANGED <<now, createdAt, wake, answer, pushes, callVars>>

\* A rule decided: the row is read back, notify mode tells the phones, and the
\* agent is answered at once.
AnswerDecidedByRule(r) ==
  /\ hpc[r] = "answer"
  /\ IF rows[r].status = "notified"
     THEN PushAll("access_notice", r, "notified")
     ELSE UNCHANGED pushes
  /\ answer' = [answer EXCEPT ![r] = AnswerFor(rows[r].status, rows[r].decidedAt)]
  /\ hpc' = [hpc EXCEPT ![r] = "answered"]
  /\ UNCHANGED <<now, rows, createdAt, wake, callVars>>

\* One turn of waitAccessVerdict's loop starts: sleep PollInterval, never past
\* the deadline; a deadline already passed sleeps not at all.
Sleep(r) ==
  /\ wake' = [wake EXCEPT ![r] = IF now + PollInterval <= Deadline(r)
                                 THEN now + PollInterval
                                 ELSE Deadline(r)]
  /\ hpc' = [hpc EXCEPT ![r] = "sleep"]

\* A pending row is read back and pushed to every phone.  The push may be slow.
PushRequest(r) ==
  /\ hpc[r] = "push"
  /\ PushAll("access_request", r, "pending")
  /\ Sleep(r)
  /\ UNCHANGED <<now, rows, createdAt, answer, callVars>>

\* Mutant: the deadline is not compared with the clock.
WakeToMark(r) ==
  /\ hpc[r] = "sleep"
  /\ now >= wake[r]
  /\ hpc' = [hpc EXCEPT ![r] = "mark"]
  /\ UNCHANGED <<now, rows, createdAt, wake, answer, pushes, callVars>>

Wake(r) ==
  /\ hpc[r] = "sleep"
  /\ now >= wake[r]
  /\ hpc' = [hpc EXCEPT ![r] = IF now < Deadline(r) THEN "poll" ELSE "mark"]
  /\ UNCHANGED <<now, rows, createdAt, wake, answer, pushes, callVars>>

\* The agent hung up during the Sleep: the handler returns, the row is left.
HangUp(r) ==
  /\ "hangup" \in Faults
  /\ hpc[r] = "sleep"
  /\ hpc' = [hpc EXCEPT ![r] = "gone"]
  /\ UNCHANGED <<now, rows, createdAt, wake, answer, pushes, callVars>>

\* Mutant: the row is answered as read, pending or not.
PollAnswers(r) ==
  /\ hpc[r] = "poll"
  /\ answer' = [answer EXCEPT ![r] = AnswerFor(rows[r].status, rows[r].decidedAt)]
  /\ hpc' = [hpc EXCEPT ![r] = "answered"]
  /\ UNCHANGED <<now, rows, createdAt, wake, pushes, callVars>>

\* RequestByID inside the loop.
Poll(r) ==
  /\ hpc[r] = "poll"
  /\ \/ /\ rows[r].status # "pending"
        /\ answer' = [answer EXCEPT ![r] = AnswerFor(rows[r].status, rows[r].decidedAt)]
        /\ hpc' = [hpc EXCEPT ![r] = "answered"]
        /\ UNCHANGED wake
     \/ /\ rows[r].status = "pending"
        /\ Sleep(r)
        /\ UNCHANGED answer
  /\ UNCHANGED <<now, rows, createdAt, pushes, callVars>>

\* Mutant: a row that was not marked is marked again.
MarkTimeoutRetries(r) ==
  /\ hpc[r] = "mark"
  /\ rows' = TimedOut(r)
  /\ hpc' = [hpc EXCEPT ![r] = IF MayMarkTimeout(r) THEN "expired" ELSE "mark"]
  /\ UNCHANGED <<now, createdAt, wake, answer, pushes, callVars>>

\* MarkTimeout at the deadline, which doubles as the final read.
MarkTimeout(r) ==
  /\ hpc[r] = "mark"
  /\ rows' = TimedOut(r)
  /\ hpc' = [hpc EXCEPT ![r] = IF MayMarkTimeout(r) THEN "expired" ELSE "reread"]
  /\ UNCHANGED <<now, createdAt, wake, answer, pushes, callVars>>

\* This handler marked the row: the answer is built without reading it again.
AnswerTimeout(r) ==
  /\ hpc[r] = "expired"
  /\ answer' = [answer EXCEPT ![r] = AnswerFor("timeout", NoTime)]
  /\ hpc' = [hpc EXCEPT ![r] = "answered"]
  /\ UNCHANGED <<now, rows, createdAt, wake, pushes, callVars>>

\* Somebody else closed the row between the last poll and the deadline.
AnswerAfterRace(r) ==
  /\ hpc[r] = "reread"
  /\ answer' = [answer EXCEPT ![r] = AnswerFor(rows[r].status, rows[r].decidedAt)]
  /\ hpc' = [hpc EXCEPT ![r] = "answered"]
  /\ UNCHANGED <<now, rows, createdAt, wake, pushes, callVars>>

\* A statement fails: 500.  A failed UPDATE may have taken effect all the same.
HandlerStoreFails(r) ==
  /\ "store" \in Faults
  /\ hpc[r] \in {"evaluate", "answer", "push", "poll", "mark", "reread"}
  /\ \/ UNCHANGED rows
     \/ hpc[r] = "mark" /\ rows' = TimedOut(r)
  /\ hpc' = [hpc EXCEPT ![r] = "failed"]
  /\ UNCHANGED <<now, createdAt, wake, answer, pushes, callVars>>

\* The process serving the request dies.
HandlerCrash(r) ==
  /\ "crash" \in Faults
  /\ hpc[r] \in HandlerRunning
  /\ hpc' = [hpc EXCEPT ![r] = "gone"]
  /\ UNCHANGED <<now, rows, createdAt, wake, answer, pushes, callVars>>

-----------------------------------------------------------------------------
(* POST /verdict *)

\* A valid body: an id the database gave out, or one it never did.  The clock
\* is read here and compared with expires_at later.
ReceiveVerdict(c) ==
  /\ vpc[c] = "idle"
  /\ \E r \in {q \in Reqs : rows[q].status # "absent"} \cup {UnknownID}, v \in Verdicts :
       call' = [call EXCEPT ![c] = [req |-> r, verdict |-> v, at |-> now, seen |-> "absent"]]
  /\ vpc' = [vpc EXCEPT ![c] = "decide"]
  /\ UNCHANGED <<now, rows, reply, pushes, whitelisted, counted, handlerVars>>

\* The call ends with this code and, for 200 and 409, this status.
Finish(c, code, status) ==
  /\ reply' = [reply EXCEPT ![c] = [code |-> code, status |-> status]]
  /\ vpc' = [vpc EXCEPT ![c] = "done"]

\* DecideRequest up to its read-back.
DecideRequest(c) ==
  LET r == call[c].req IN
  /\ vpc[c] = "decide"
  /\ \/ /\ r = UnknownID
        /\ Finish(c, 404, "absent")
        /\ UNCHANGED rows
     \/ /\ r # UnknownID
        /\ MayDecide(r, call[c].at)
        /\ rows' = Decided(r, c, StatusOf(call[c].verdict), call[c].at)
        /\ vpc' = [vpc EXCEPT ![c] = "readback"]
        /\ UNCHANGED reply
     \/ /\ r # UnknownID
        /\ ~ MayDecide(r, call[c].at)
        /\ vpc' = [vpc EXCEPT ![c] = "conflict"]
        /\ UNCHANGED <<rows, reply>>
  /\ UNCHANGED <<now, call, pushes, whitelisted, counted, handlerVars>>

\* The row is read back and every phone is told.
TellPhones(c) ==
  LET r == call[c].req IN
  /\ vpc[c] = "readback"
  /\ call' = [call EXCEPT ![c] = [call[c] EXCEPT !.seen = rows[r].status]]
  /\ PushAll("request_decided", r, rows[r].status)
  /\ vpc' = [vpc EXCEPT ![c] = "bookkeep"]
  /\ UNCHANGED <<now, rows, reply, whitelisted, counted, handlerVars>>

\* Mutant: the verdict is not looked at before the entry is saved.
WhitelistAfterAny(c) == whitelisted \cup {call[c].req}

\* The entry approve_always saves, and the denial RecordDenial counts.
WhitelistAfter(c) ==
  IF call[c].verdict = "approve_always" THEN whitelisted \cup {call[c].req} ELSE whitelisted
CountedAfter(c) ==
  IF call[c].seen = "denied" /\ call[c].req \in WithIP
  THEN counted \cup {call[c].req} ELSE counted

\* The rest of the handler, once the decision is final.
Bookkeep(c) ==
  /\ vpc[c] = "bookkeep"
  /\ whitelisted' = WhitelistAfter(c)
  /\ counted' = CountedAfter(c)
  /\ Finish(c, 200, call[c].seen)
  /\ UNCHANGED <<now, rows, call, pushes, handlerVars>>

\* verdictConflict: read the row to say what happened to it.
ConflictRead(c) ==
  LET r == call[c].req IN
  /\ vpc[c] = "conflict"
  /\ \/ /\ rows[r].status # "pending"
        /\ Finish(c, 409, rows[r].status)
     \/ /\ rows[r].status = "pending"
        /\ vpc' = [vpc EXCEPT ![c] = "conflict_mark"]
        /\ UNCHANGED reply
  /\ UNCHANGED <<now, rows, call, pushes, whitelisted, counted, handlerVars>>

\* Mutant: timeout is reported and not saved.
ConflictMarkUnsaved(c) ==
  /\ vpc[c] = "conflict_mark"
  /\ Finish(c, 409, "timeout")
  /\ UNCHANGED <<now, rows, call, pushes, whitelisted, counted, handlerVars>>

\* verdictConflict, an expired row still pending: MarkTimeout's result is
\* dropped and the answer says timeout.
ConflictMark(c) ==
  /\ vpc[c] = "conflict_mark"
  /\ rows' = TimedOut(call[c].req)
  /\ Finish(c, 409, "timeout")
  /\ UNCHANGED <<now, call, pushes, whitelisted, counted, handlerVars>>

\* How much of its last statements a call that breaks off has done.
BrokenOff(c) ==
  \/ UNCHANGED <<rows, whitelisted, counted>>
  \/ /\ vpc[c] = "conflict_mark"
     /\ rows' = TimedOut(call[c].req)
     /\ UNCHANGED <<whitelisted, counted>>
  \/ /\ vpc[c] = "bookkeep"
     /\ whitelisted' = WhitelistAfter(c)
     /\ counted' \in {counted, CountedAfter(c)}
     /\ UNCHANGED rows

\* A statement fails: 500, and its write may have taken effect all the same.
CallStoreFails(c) ==
  /\ "store" \in Faults
  /\ vpc[c] \in CallRunning
  /\ BrokenOff(c)
  /\ Finish(c, 500, "absent")
  /\ UNCHANGED <<now, call, pushes, handlerVars>>

\* The process serving the call dies: no answer.
CallCrash(c) ==
  /\ "crash" \in Faults
  /\ vpc[c] \in CallRunning
  /\ BrokenOff(c)
  /\ vpc' = [vpc EXCEPT ![c] = "lost"]
  /\ UNCHANGED <<now, call, reply, pushes, handlerVars>>

-----------------------------------------------------------------------------
Tick ==
  /\ now < MaxTime
  /\ now' = now + 1
  /\ UNCHANGED <<rows, pushes, handlerVars, callVars>>

\* Nothing is left to do; any other state without a successor is a deadlock.
Quiescent ==
  /\ now = MaxTime
  /\ \A r \in Reqs : hpc[r] \notin HandlerRunning
  /\ \A c \in Calls : vpc[c] \notin CallRunning
  /\ UNCHANGED vars

Init ==
  /\ now = 0
  /\ rows = [r \in Reqs |-> NoRow]
  /\ hpc = [r \in Reqs |-> "idle"]
  /\ createdAt = [r \in Reqs |-> NoTime]
  /\ wake = [r \in Reqs |-> NoTime]
  /\ answer = [r \in Reqs |-> NoAnswer]
  /\ vpc = [c \in Calls |-> "idle"]
  /\ call = [c \in Calls |-> NoCall]
  /\ reply = [c \in Calls |-> NoReply]
  /\ pushes = {}
  /\ whitelisted = {}
  /\ counted = {}

\* What a running access-request handler does next, faults aside.
HandlerStep(r) ==
  \/ CreateRequest(r) \/ AnswerDecidedByRule(r) \/ PushRequest(r) \/ Wake(r)
  \/ Poll(r) \/ MarkTimeout(r) \/ AnswerTimeout(r) \/ AnswerAfterRace(r)

HandlerFault(r) == HangUp(r) \/ HandlerStoreFails(r) \/ HandlerCrash(r)

CallStep(c) ==
  \/ DecideRequest(c) \/ TellPhones(c) \/ Bookkeep(c)
  \/ ConflictRead(c) \/ ConflictMark(c)

CallFault(c) == CallStoreFails(c) \/ CallCrash(c)

Next ==
  \/ \E r \in Reqs : ReceiveRequest(r) \/ HandlerStep(r) \/ HandlerFault(r)
  \/ \E c \in Calls : ReceiveVerdict(c) \/ CallStep(c) \/ CallFault(c)
  \/ Tick
  \/ Quiescent

Spec == Init /\ [][Next]_vars

\* Goroutines are scheduled and the clock advances; nobody has to send a
\* request, tap a button or fail.
Fairness ==
  /\ WF_vars(Tick)
  /\ \A r \in Reqs : WF_vars(HandlerStep(r))
  /\ \A c \in Calls : WF_vars(CallStep(c))

FairSpec == Spec /\ Fairness

-----------------------------------------------------------------------------
(* Properties *)

\* Every variable keeps to its type: rows only hold statuses of the schema,
\* answers only verdicts and reasons of the contract.
TypeOK ==
  /\ now \in Time
  /\ rows \in [Reqs -> Row]
  /\ hpc \in [Reqs -> HandlerRunning \cup {"idle", "answered", "gone", "failed"}]
  /\ createdAt \in [Reqs -> Time \cup {NoTime}]
  /\ wake \in [Reqs -> Int]
  /\ answer \in [Reqs -> Answer]
  /\ vpc \in [Calls -> CallRunning \cup {"idle", "done", "lost"}]
  /\ call \in [Calls -> [req : Reqs \cup {UnknownID}, verdict : Verdicts \cup {"none"},
                         at : Time \cup {NoTime}, seen : Statuses \cup {"absent"}]]
  /\ reply \in [Calls -> [code : {0, 200, 404, 409, 500},
                          status : Statuses \cup {"absent"}]]
  /\ pushes \subseteq Push
  /\ whitelisted \subseteq Reqs
  /\ counted \subseteq Reqs

\* What the agent was told is what the history says, then and ever after: the
\* verdict, reason and decided_at of POST /access-request are those of the
\* row, whoever closed it and whichever of the four answering paths was taken.
AgentAnswerMatchesRow ==
  \A r \in Reqs :
    answer[r] # NoAnswer => answer[r] = AnswerFor(rows[r].status, rows[r].decidedAt)

\* A phone that got 200 decided the request: the row carries that call's
\* verdict for good, so no two calls on one request both get 200
\* ("first verdict wins", DecideRequest).
FirstVerdictWins ==
  \A c \in Calls :
    reply[c].code = 200 =>
      /\ rows[call[c].req].decidedBy = c
      /\ rows[call[c].req].status = StatusOf(call[c].verdict)
      /\ reply[c].status = StatusOf(call[c].verdict)

\* The two ends never disagree: when a phone was told its verdict stands and
\* the agent was answered, the agent was answered with that verdict.
PhoneAndAgentAgree ==
  \A c \in Calls :
    LET a == answer[call[c].req] IN
    reply[c].code = 200 =>
      \/ a = NoAnswer
      \/ a.reason = "admin" /\ (a.verdict = "deny" <=> call[c].verdict = "deny")

\* A row closes at most once: a poll, a late verdict and MarkTimeout racing at
\* the deadline never reopen or overwrite a final row.
FinalStaysFinal ==
  [][\A r \in Reqs :
       rows[r].status \notin {"absent", "pending"} => rows'[r] = rows[r]]_vars

\* Nobody is timed out early: a timeout row is at least as old as the shorter
\* of the wait window and the request's lifetime, whether the waiting handler
\* or a late verdict call marked it.
TimeoutNotEarly ==
  \A r \in Reqs :
    rows[r].status = "timeout" =>
      \/ now >= createdAt[r] + VerdictWait
      \/ now >= createdAt[r] + RequestTTL

\* A 409 is never premature: the row is closed, and a 409 that names a winner
\* (any status but timeout) names the row's own status.
ConflictNamesWinner ==
  \A c \in Calls :
    reply[c].code = 409 =>
      /\ rows[call[c].req].status \notin {"absent", "pending"}
      /\ reply[c].status # "timeout" => reply[c].status = rows[call[c].req].status

\* A request_decided push carries the request's final status, although it is
\* sent one read and any delay after the deciding UPDATE.
PushTellsOutcome ==
  \A p \in pushes :
    p.type = "request_decided" => /\ p.status \in {"approved", "denied"}
                                  /\ p.status = rows[p.req].status

\* Bookkeeping never contradicts the decision: a whitelist entry comes only
\* from an approved request, an auto-block count only from a denied one, and
\* not both from one request however many calls and retries it got.
BookkeepingFollowsDecision ==
  /\ \A r \in whitelisted : rows[r].status = "approved"
  /\ \A r \in counted : rows[r].status = "denied"

\* waitAccessVerdict always ends: every access request that was received is
\* eventually answered, refused with 500 or abandoned.
HandlerEnds ==
  \A r \in Reqs : hpc[r] \in HandlerRunning ~> hpc[r] \notin HandlerRunning

\* No row stays pending behind a handler that went through its whole wait: it
\* closes, unless a hang-up, a failed statement or a dead process broke the
\* handler off.
WaitedRowCloses ==
  \A r \in Reqs :
    rows[r].status = "pending" ~> \/ rows[r].status # "pending"
                                 \/ hpc[r] \in {"gone", "failed"}

-----------------------------------------------------------------------------
(* Refinement: the backend implements a write-once register per request. *)

Register == INSTANCE DecisionRegister WITH
  decision <- [r \in Reqs |-> rows[r].status],
  told     <- [r \in Reqs |-> answer[r].verdict]

\* The interleaved handlers implement DecisionRegister: the requests table and
\* the answers to the agents are a register written at most once and read only
\* when written.
RefinesRegister == Register!Spec
===============================================================================
