# ssh-sentinel: TLA+ models

ssh-sentinel asks an administrator's phone before it lets somebody log in over
SSH or run sudo. An agent on the server calls the backend from PAM, the backend
pushes the request to the phones and waits for a verdict, the agent applies the
answer. This directory models the parts where several processes meet: which
states they can reach together, and what stays true in all of them.

## 1. The system

| Component | State | Operations | Meets |
|---|---|---|---|
| Request lifecycle (`handler/access_request.go`, `verdict.go`, `push.go`) | one row of `requests` per login: status, decided_by, decided_at, expires_at | POST /access-request (insert, push, poll, mark timeout), POST /verdict (decide, tell phones, save the entry, count the denial) | other handlers, in this process or another one, only through the table |
| Rules engine (`rules/rules.go`) | `blocked_ips`, `geo_rules`, `whitelist` | Evaluate, RecordDenial | called by both handlers above |
| Blocked IPs (`handler/blocked_ips.go`) | `blocked_ips` | GET, DELETE | rules engine |
| Geo rules (`handler/geo_rules.go`) | `geo_rules` | GET, POST, DELETE | rules engine |
| Geo lookup (`geo`) | cache of the provider's answers | Lookup | access-request |
| Whitelist (`handler/whitelist.go`) | `whitelist` | POST, GET (with lazy expiry), DELETE | rules engine, the agent's sync |
| Push (`fcm`, `handler/push.go`) | access token and its mutex | pushAll, Send, mint, forget | both handlers, Google |
| Devices (`handler/devices.go`) | `devices` | register, list, delete | push |
| History (`handler/history.go`, the app's history screen) | the list on the screen, its cursor and load number | GET with filters and cursor, first page, next page | `requests` |
| Database and migrations (`db/migrate.go`) | schema, `schema_migrations`, advisory lock | Migrate | every start |
| Server (`cmd/server`) | serving, draining | start, SIGTERM, Shutdown | requests in flight |
| Function adapter (`adapters/scaleway`) | shared instance, last error and attempt | Handle, instance, start | concurrent invocations |
| Agent check (`agent/internal/check`) | none; reads the break-glass file, the config and the cache | Run, once per login | backend, cache file |
| Agent sync (`cmd/ssh-sentinel/sync.go`, `internal/whitelist`) | the cache file and its `.tmp` | runSync, from a timer | backend, check |
| Agent watch (`internal/watch`, Windows) | last record id, whether it is primed | Next, RunOnce, Run | event log, backend in notify mode |
| Auth and enrolment | `servers`, token hashes | token check, enrol | agents |
| Mobile app | pending requests, open screens | messages, taps, verdict calls | backend, FCM |

What is hard here is not the data. It is that

* a verdict, the deadline of the waiting handler and a second verdict close one
  row at the same time, from different processes, each with a clock it read
  earlier;
* the decision commits first and its consequences (push, whitelist entry,
  denial count, auto-block) follow as separate statements, any of which fails;
* Evaluate reads three tables, and RecordDenial looks up, counts and writes, one
  statement after the other, against admins and other calls;
* caches are read and filled without a lock in between: the geo answers, the
  access token, the agent's file, the function's instance;
* the agent decides from a copy of the whitelist that is written by one process
  and read by another, and must end by itself when the backend is silent;
* containers migrate one database together, die in the middle of it, and are
  told to stop while logins wait.

What makes each part correct:

* lifecycle: one decision per request; the agent, the phones, the history, the
  push and the bookkeeping agree with it; nobody is timed out early; the wait
  ends; rows do not stay pending;
* admission: a rule that stands is obeyed in the order of the rules, and none
  that does not stand decides; an accepted geo rule holds until it is deleted;
* auto-block: the threshold is never missed, a block holds for its term, denials
  from before an unblock do not count again;
* geo lookup: no stale or foreign answer, no good answer lost to a later failure;
* push: no message twice, no newer token dropped, no token that runs out in the
  middle of a round, no hanging handler;
* history: sorted, complete up to equal instants, of one filter;
* deployment: each migration once and in order, nobody serves without them, a
  drain cuts nobody off, a failed cold start is not for ever;
* agent: nobody gets in without a decision or a valid grant, the cache is never
  half a file, deletions reach it, the login never hangs; the watcher loses no
  login and repeats none.

`PROJECT.json` lists the components, the hazards with the line where each one
bites, and the correspondence of every definition with the source.

## 2. Modules

| Module | Models |
|---|---|
| `DecisionRegister` | abstract: a request is opened once, closed at most once, and its server is told only how it was closed |
| `RequestLifecycle` | POST /access-request and POST /verdict over the `requests` table |
| `Admission` | the start of POST /access-request: normalisation, Evaluate; /geo-rules |
| `GeoLookup` | concurrent lookups over the cache of countries |
| `AutoBlock` | RecordDenial, the blocked-IP rule of Evaluate, DELETE /blocked-ips, for one IP |
| `PushDelivery` | rounds of pushes, the shared access token, the devices table |
| `AgentAccess` | the whitelist table, `sync`, the cache file, `check`; the backend's requests are an instance of `DecisionRegister` |
| `Watcher` | the Windows event-log watcher and `watch --once` |
| `HistoryPaging` | GET /history and the screen that pages through it |
| `Deployment` | migrations, start and shutdown of containers, the function's instance |
| `MC*` | model values and symmetry sets for TLC |
| `*Proofs` | theorems and proofs |

How they fit together: `Admission` produces the status with which a row of
`RequestLifecycle` starts, with the country of `GeoLookup` and the blocks of
`AutoBlock`; a push of `RequestLifecycle` is a round of `PushDelivery`, whose
outcome nobody awaits; `RequestLifecycle` implements `DecisionRegister` (checked
and proved), and `AgentAccess` uses `DecisionRegister` as its backend, so that
what it concludes rests on the register's promise and not on the handlers.

Everywhere one step is one statement on the database, one file operation, one
critical section or one message, together with the local code up to the next
one. Mutants of a definition stand before it, named after it.

### RequestLifecycle

`rows` is the table; `hpc`, `createdAt`, `wake`, `answer` are the locals of an
access-request handler, `vpc`, `call`, `reply` those of a verdict call;
`pushes`, `whitelisted`, `counted` are what the calls caused. A read-back that
follows a write (`CreateRequest`, `DecideRequest`) is a step of its own.

Faults are a constant: `hangup` (the agent's connection ends during Sleep),
`store` (a statement fails; its write may have happened all the same), `crash`
(the serving process dies). `rules.Evaluate` is reduced to its outcome here.
`decidedBy` holds the deciding call where the table holds `admin` and a device.
The validation of bodies and the device lookup, which end a call before it
touches a request, are left out.

### Admission

`rpc` is the statement a request is at: `ip` (BlockedIPByIP), `hit`
(RecordBlockedIPHit), `geo` (GeoRuleByCountry), `whitelist` (FindWhitelist),
`insert`. All of them work with the `clock` read at the start, as in the code.
An address has a canonical spelling and others (IPv4 mapped, with a zone), which
`Normalize` removes; `BlockedIPByIP` compares inet values and finds the canonical
one only. `rules`, `block` and `whitelist` are the tables, changed meanwhile by
POST and DELETE /geo-rules and, for the other two, by whoever changes them. An
admin picks a rule from a list (`ListGeoRules`) and deletes it by id, perhaps
when the country has another one. A 500 of either call leaves open whether its
statement took effect. The history variables `held` and `ever` say
which rules matched at every and at some instant of the evaluation.

### GeoLookup

`lpc` follows a lookup from the cache over the fetch to the store; the mutex
covers the read and the store only. The provider's body is reduced to the three
fields a country may be in, and whether there is anything else (`Fields`); a
silent provider, a bad status and a body that is no JSON end without an answer.
`given` remembers when each answer was stored, `overlap` who was fetching then.

### AutoBlock

All statements select by IP, so one IP stands for all. A denial is a verdict
call on a request of its own: clock, decide, lookup, count, upsert. `block` is
the IP's row; `basis` stands for denial_count, first_denied_at and
last_denied_at. Four history variables say what happened since the last block
ended (by an unblock or its expiry): when that was, which denials began after
it, which calls wrote a block, and which arrivals began after that. The term of a
block counts from the clock reading of the call that writes it (`TermEnd`), which
may be older than that of the write before.

### PushDelivery

A round lists the active phones and starts a send for each. `cached` and
`expiresAt` are the client's token, `lock` the mutex that a send holds while it
mints. The token's end is counted from the clock read before the request
(`lockedAt`), Google's own end from the answer. A token without expires_in has no
end that anybody knows (`EndUnknown`) and is not reused. Google answers, refuses, revokes
a token early, or is silent, in which case the round's context ends the call. A
post whose answer is lost may have been delivered.

### AgentAccess

One (username, context) pair; a row for this server and a global one. Files are
modelled by inode, because the question is what `rename` moves when two writers
hold the same `.tmp` name: `path` and `tmp` name inodes, `content` says whether
one holds a whole list, nothing, or what does not parse. `os.WriteFile` is an
open with truncation and a write at the writer's own offset. Which checks are on
the break-glass list (`OnList`) and which run in notify mode (`InNotify`) is any
choice; each goes through the decision table of `check.Run`: break-glass, the
configuration, the call with its deadline, the answer or the rejection (any 4xx),
then the cache. `Revoke` is an operator's statement on
`servers`, outside the code. The server's clock and the backend's are one clock;
a server whose clock is behind would honour an expired entry for as long. Left
out: a panic and an empty user name, both of which deny, and the text of the
config and break-glass files; a configuration that cannot be used sends the check
to break-glass and the cache, as in the code.

### Watcher

`log` is the channel, a record's id its position. `Query` and `Read` are the two
halves of `Next` (the records are read first, the id advances afterwards, and
the log grows in between); `primed` is set by the first query whether it works
or not, as in the code. `ToEvents` is the list of the accepted records in the
order of their ids. `Report` sends one event; whatever the backend answers,
the next one follows. `Stop` is a kill at any point.

### HistoryPaging

`created` and `status` are the rows; a row's `created_at` is any instant,
because the handler reads its clock before its lookups and inserts later. The
other variables are those of `_HistoryScreenState`; `call` holds the requests
under way, of which several loads can have one each. Of the filters, the one by
status stands for all: it is the only one whose match can change.

### Deployment

`schema` is what committed transactions executed; `pc` and `file` follow each
process through begin and lock, check, exec, commit of one file after the other.
A kill rolls back, and a commit may succeed without the process learning it.
`at` and `left` are the requests in flight and the time to their deadline,
`drain` the time a stopping container has. The function (`mu`, `backend`,
`failed`, `since`, `startLeft`) never migrates; it goes live after a deploy job.
`env` is what its environment holds: the push key is in Secret Manager, or set
directly or not wanted, or something set is refused, in which case every start
fails while the database is up. A container that refuses its configuration is no
process of the model. The wiring of `app.New` is reduced to its database.
Timers count down, so the clock is not bounded.

## 3. Runs

| Run | Shows | Bounds |
|---|---|---|
| `lifecycle_safety` | agent answer = row; first verdict wins; no early timeout; a 409 only on a closed row, naming its winner unless it says `timeout`; push and bookkeeping follow the decision; implements `DecisionRegister` | 1 request, 2 verdict calls, all faults, wait 2 < lifetime 3 |
| `lifecycle_ends` | every handler ends; only one that was broken off leaves its row pending | 1 call, all faults, fairness |
| `admission` | a rule that stood throughout is obeyed; an outcome had its rule; an accepted geo rule holds | 1 request, 2 rule creations and deletions, 2 countries, 3 changes of block and whitelist, clock to 1 |
| `geo_cache` | hits are fresh and of the right address; later failures take no good answer | 4 lookups, 3 public addresses and a private one, cache of 2, TTLs 2 and 1 |
| `autoblock_safety` | threshold never missed; a written block holds until the term of one of its writers is over; later calls count no denial from before the end of a block, but for the case of section 6 | 3 denials, threshold 2, window 1, blocks of duration 1, 1 arrival, 1 unblock, clock to 2, failing statements |
| `push_delivery` | one mint for all; nothing delivered twice; tokens outlive rounds; only rejected tokens forgotten; deleted phones left alone; rounds end | 2 rounds, 1 phone, 2 tokens of lifetime 3, margin 1, timeout 1, fairness |
| `agent_sync` | the cache file is whole until two syncs overlap, and again after the next one that runs alone; an emptied whitelist empties it | 3 syncs, 1 grant, clock still |
| `agent_login` | nobody in without a decision or an unexpired grant; every check ends by its own deadline | 1 check in any mode, 1 sync, 1 grant, clock outliving the grant, fairness |
| `watcher` | what is reported follows the log; every login not yet read is reported | 1 daemon, 1 `--once`, 3 records, fairness |
| `watcher_replay` | violation, see section 6 | the same |
| `history_paging` | sorted; one filter; no row skipped; the spinner ends | 3 rows, 3 instants (ties included), pages of 1 (the cap below the limit asked for), 2 loads, fairness |
| `deployment` | migrations once and in order; nobody serves before them; the drain cuts nobody off; one instance per burst; the schema completes; the function recovers | 2 containers, 1 job, 2 files, 1 request, 2 invocations, wait 1 < drain 2, start 1, retry 1, 1 kill, any environment, fairness |

Why these bounds are enough: requests never share a row, so one request with
several calls contains every race; two verdict calls give a winner and a loser,
and a hung-up handler leaves a row that expires and that the calls close.
Evaluations only read, so one stands for all; two creations give a country a
second rule while a deletion still holds the id of the first. Threshold 2 with 3
denials allows both a block and a second attempt after an unblock; with a clock
to 2 a call keeps its reading while another one writes a block of duration 1 from a
later reading, and a third may cut it short. Three
addresses fill a cache of two, and four lookups let two of one address overlap
around a full map. Two rounds contain the late 401: one send mints the second
token while the other still holds the first. Three syncs are two that overlap
and one alone. Times are small but keep every order of deadlines, expiries and
clock readings, including equality. The theorems of section 5 remove the bounds
for the safety properties; a wait longer than the lifetime, which
VERDICT_WAIT_SECONDS allows, is covered by them, since they order neither.
`MaxTime` is the clock's bound; a request, round or check starts only when its
whole wait fits below it, so no wait is cut off by the bound.

Deadlock is checked in every run. Where everything can come to an end, one
action (`Quiescent`, `Rest`) says when: all calls have returned and the clock is
at its bound.

Symmetry is used in safety runs only: verdict calls, denials, arrivals,
unblocks, syncs, grants, admin calls, countries, lookups and public addresses
are interchangeable in them.

## 4. Fairness

All of it is weak. Time passes (`Tick`), and a process or goroutine that can take
its next step takes it. Nothing obliges an agent to send a request, an admin to
tap, a fault to happen or a remote party to answer, except as said here:

* `RequestLifecycle`: the next statement of a handler or call completes or fails.
  `HandlerEnds` and `WaitedRowCloses` hold with every fault allowed.
* `AgentAccess`: `CheckEnds` needs only the agent's process and the clock.
* `PushDelivery`: `RoundEnds` needs the clock, the sends and the end of a round;
  the token endpoint and FCM owe nothing, the context's deadline replaces them.
* `Watcher`: `Query` is fair, that is, wevtutil does not fail for ever once it is
  asked again every two seconds; without it no login can be reported.
* `HistoryPaging`: a call ends, by an answer or by the HTTP client's timeout.
* `Deployment`: a container that exited is started again by its platform, a
  migration step completes or fails, handlers answer by their deadline, and the
  function's clients keep calling. `SchemaCompletes` assumes that the database
  stays up from some time on (in its formula), nothing about kills but their
  number.

## 5. Proofs

For every number of requests, calls, checks, syncs, lookups, phones, processes
and files, and every value of the timing constants that the named ASSUMEs allow:

* `RequestLifecycleProofs`: `TypeCorrect`, `AgentAnswer`, `OneWinner`,
  `EndsAgree`, `ConflictIsReal`, `PushFollowsDecision`, `EffectsFollowDecision`,
  `ClosedForGood`, `NoEarlyTimeout`, `Refinement`. The inductive invariant
  `SafetyInv` says, for each control point of a handler and of a call, what it
  knows of its row: a handler past its insert has a row, one that marked it or
  found it marked has a closed one, a call past its UPDATE decided the row and
  read its own status back. It is needed because the answers are given several
  steps after the statement they depend on. The argument is in two lemmas,
  `CallRows` and `HandlerRows`: a step either leaves a row alone, inserts where
  there is none, or closes a pending one; so what any process knows of a closed
  row stays true. `TimeInv` adds the clock readings for `NoEarlyTimeout`.
* `AdmissionProofs`: `AdmissionTypes`, `StandingRules`, `FoundedOutcome`,
  `AcceptedRules`. `RuleInv` puts the rules that match now between those that
  always did and those that ever did; so a rule that was asked and missed is out
  of the first set for good, one that was asked and hit is in the second. A step
  of somebody else keeps this whatever it does to the tables (`BystanderKeeps`).
  `AdminInv` follows the ids admins hold.
* `GeoLookupProofs`: `GeoTypes`, `HitsAreFresh`, `AnswersKept`, `MapBounded`. An
  entry is the answer last remembered for its address, with that answer's age
  limit (`EntryInv`), and whoever fetches in spite of a fresh entry began before
  it was stored (`OverlapInv`).
* `AutoBlockProofs`: `AutoBlockTypes`, `ThresholdReached`,
  `BlocksHoldTheirTerm`, `CountsStartAfresh`. The key is `LastCounterSeesAll`:
  each denial is in the table before its call counts, so among denials that have
  all counted, the last one to count saw all of them. The rest of `AutoBlockInv`
  ties `since` to the end of the last block so that none of them is cut off. The
  last two hold for every block duration, zero (no expiry) included. `TermInv`: an
  expiry in the row is the term of a call that wrote it since the last end.
  `HistoryInv` and `CountsAfterEnd`: the row never says that a block ended earlier
  than the last one did, unless such a call's term was over before (`OldTerm`).
* `PushDeliveryProofs`: `PushTypes`, `OneMint`, `NoDuplicate`, `MarginSuffices`,
  `NewerTokenKept`, `DeletionHolds`. `SendInv` says what a send may rely on at
  each point; `TokenInv` that the client never believes a token to live longer
  than Google does, which together with `Timeout <= Margin` gives
  `MarginSuffices`; `UntimedInv` that a token of unknown lifetime is never
  cached as usable and is held by one send.
* `AgentAccessProofs`: `NobodyWithoutGrant` by following every copy of an entry
  (`CopiesGranted`: table, list in flight, inode, loaded cache), `AgentTypes`,
  and `CacheStaysWhole` until two syncs overlap (`FileInv`: the running sync
  alone holds `.tmp`, and `.tmp` is never the cache file). `SyncRepairs` needs to
  know more of a sync that began alone (`RepairInv`: nobody else is running, it
  holds the inode that `.tmp` names, and once it has written, that inode is
  whole, whatever earlier syncs left there). `DeletionArrives` follows an empty
  table through such a sync (`DeletionInv`: its list is empty, then what it wrote,
  then the cache). `BackendIsRegister`: every step of the model is a step of
  `DecisionRegister` or leaves it alone; with `Refinement` it joins the two
  modules.
* `DeploymentProofs`: `DeploymentTypes`, `MigrationsApplied`, `ServesMigrated`,
  `DrainAnswersAll`, `BurstSharesStart`. `MigrationInv`: what is executed is a
  prefix of the files, and a process inside a step holds the lock, so what it
  found of its file stays true until it commits. `DrainInv`: a draining container
  has more time left than any of its requests. `FunctionInv`: who starts the
  function holds its mutex.

* `OrderedListProofs`, about `HistoryPaging` and about `Watcher`, which share no
  state; the specification of the second is `WatchSpec`, so that one module can
  extend both. Both models list a finite set in order, by a CHOOSE over the lists of its
  size. That there is such a list (`OrderedListExists`) takes no induction: the
  element with k others below it goes to place k + 1, which is an injection of a
  set into as many places, hence onto. `OrderedListComplete` says that it leaves
  nothing out.
  `HistorySorted`, `HistoryOneFilter`, `HistoryComplete`: `ScreenInv` says that a
  page under way is sorted, lies below the cursor it was asked with, and belongs to
  the load that asked; that a call of the current load was asked with the screen's
  own filter and cursor; and that the rows on the screen are on this side of the
  cursor. `BaseInv` is completeness: every row that was there when the load was
  answered and still matches is on the screen, beyond the cursor, or as old as a
  row shown. An answer of an older load is dropped (`ScreenStale`), so only
  the calls of the current load have to fit the screen.
  `WatcherFollowsLog`: `WatcherInv` is about `Seen`, the reported records followed
  by the batch: an increasing list of accepted records up to `last`, without a gap.
  `RawInv` says what a query returned while the log goes on growing: it is past
  `last`, and has no gap after its first record or, once something was reported,
  after `last`; `CursorInv` that a daemon whose first query worked is past the
  records it found at its start. `Read` joins the two lists; every other step
  leaves `Seen` alone, or empties it (`Launch`).

The assumptions on constants are the named ASSUMEs of each module, evaluated by
TLC in every run of it.

Only proved, by no run of their own: the type invariants of the first seven of
these modules, `PhoneAndAgentAgree` and `FinalStaysFinal` (the second also follows
from the refinement), `CacheBounded`, and `BackendIsRegister`.

Only model-checked: liveness (`HandlerEnds`, `WaitedRowCloses`, `CheckEnds`,
`RoundEnds`, `SchemaCompletes`, `FunctionRecovers`, `LoginReported`, `MoreEnds`),
because fairness and ENABLED are outside the prover. Every safety property of a
passing run is proved.

## 6. Where the code and its text disagree

With a run:

* `watcher_replay`: the watcher counts as primed before its first query. When that
  query fails, the record id is still 0 and the next poll reports every login of
  the log, which `watch/doc.go` says does not happen. `TrailFollowsLog` shows that
  this is the only way.

Without a run of its own, a promise that the code does not keep:

* `devices.go:61` says of DELETE /devices/{id} that the phone stops receiving
  pushes "at once"; `docs/architecture.md:546`, `devices_test.go:225` and the
  app's `settings_screen.dart:257` repeat it. A round takes its list of phones
  before it sends, and nothing looks at the table again: pushAll lists the phone,
  the DELETE is answered 204, the round delivers. `PushDelivery` has these steps;
  `DeletedPhoneLeftAlone` promises less than the text, that no round which begins
  after the 204 reaches the phone.

Found while modelling. The models contain these behaviours, and the properties
are stated so that they leave them room:

* a refused verdict call that found the row pending reports `timeout` without
  looking whether its mark took effect; a slower call whose clock reading
  precedes the expiry may have decided the row in between (`verdict.go`,
  `ConflictNamesWinner` excepts it);
* a row whose agent hung up stays `pending`; nothing else closes it
  (`access_request.go`, `WaitedRowCloses` excepts it);
* two denials that count together both report `auto_blocked`, and a call that
  counted before an unblock writes its block after it (`rules.go`);
* with AUTOBLOCK_DURATION_SECONDS set, the expiry counts from the clock a call
  read before its statements: of overlapping calls the slower one may have the
  older reading, and cuts the block to its own, earlier term
  (`postgres_blocked_ips.go`; `BlockHoldsItsTerm` bounds it to that). When that
  term was over before an unblock, the row then names an earlier end of the
  block, and denials from before the unblock count again
  (`FreshDenialsCountAfterUnblock` excepts this);
* overlapping syncs share one `.tmp`: for a moment the cache can be an empty or
  torn file, which a check reads as an empty cache (`cache.go`). `agent_sync`
  shows that the next sync mends it, `NobodyWithoutGrant` that it lets nobody in;
* VERDICT_WAIT_SECONDS may be up to 55 while the drain takes 30 s: such a wait is
  cut off (`config.go`, `serve.go`; `DrainCutsNobody` has the condition);
* `retryAfter` counts from the beginning of a start that may last longer: callers
  queued on the mutex then start one after the other (`handler.go` of the
  adapter);
* of rows with one `created_at` at the end of a page, the rest is skipped
  (`history.go`; `NoRowSkipped` excepts ties);
* while two lookups of one address overlap, the failure of one replaces the
  answer of the other (`geo.go`; `AnswerOutlivesFailures` excepts them).

## 7. Not modelled

* The app's notifications (`pending_requests.dart`, `push_service.dart`,
  `background_handlers.dart`): messages and taps across isolates, whose order the
  operating system decides. Their hazards are in `PROJECT.json`. The other screens
  are presentation; a verdict they send is an input of `RequestLifecycle`.
* Authentication beyond a token's validity and its revocation: comparing hashes
  is a pure function, enrolment a single INSERT. Parsing of environment variables
  and config files: a container with a bad one does not start, the function answers
  500, a check falls back to break-glass and the cache.
* The in-memory store and the conformance suite of `dbtest`: test support, no
  part of a running system.
* The audit log, JSON layout, log wording, Terraform and the installation scripts,
  which keep no state a property here could be about. The installer's sync that
  overlaps the timer's is in `agent_sync`.
