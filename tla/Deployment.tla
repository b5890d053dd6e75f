------------------------------ MODULE Deployment -------------------------------
(***************************************************************************)
(* The processes of the backend around one database.                       *)
(*                                                                         *)
(* Servers are containers (cmd/server/serve.go): open the database, apply  *)
(* the migrations, serve until SIGTERM, drain.  Jobs run "server migrate"  *)
(* (cmd/server/migrate.go), the deploy step before the Scaleway function   *)
(* goes live.  The function (adapters/scaleway/api) is one instance whose  *)
(* invocations build the backend under a mutex.                            *)
(*                                                                         *)
(* Timers count down, so the clock needs no bound.                         *)
(***************************************************************************)
EXTENDS Integers, Sequences

CONSTANTS
  Servers, Jobs,  \* containers; runs of "server migrate"
  Files,          \* the number of embedded .sql files
  Requests,       \* requests in flight, at one container each
  Calls,          \* concurrent invocations of the function
  VerdictWait, DrainTimeout, StartTimeout, RetryAfter,
  MaxCrashes      \* bound: processes killed, startup timeouts

ASSUME DeploymentAssumption ==
  /\ Files \in Nat
  /\ MaxCrashes \in Nat
  /\ {VerdictWait, DrainTimeout, StartTimeout, RetryAfter} \subseteq Nat \ {0}
  /\ Servers \cap Jobs = {}
  /\ "none" \notin Servers \cup Jobs \cup Calls

VARIABLES
  up,             \* the database (and Secret Manager) answers
  schema,         \* what committed transactions executed, in order
  recorded,       \* the versions in schema_migrations, 0 for the table itself
  lock,           \* the process that holds the advisory lock
  pc, file,       \* of each process: control point, migration step
  crashes,
  at, left,       \* of each request: its container, time to its verdict deadline
  drain,          \* of each container: time left of the drain
  cut,            \* history: a drain ended with a request in flight
  live, env,      \* the function is deployed; the environment it got
  backend, failed, since, \* backend # nil, initErr # nil, time since lastAttempt
  mu, startLeft,  \* the invocation that holds mu, time left of its start
  cpc,            \* of each invocation
  built           \* history: backends the function instance has built

database  == <<schema, recorded, lock>>
processes == <<pc, file, crashes, drain>>
requests  == <<at, left, cut>>
function  == <<live, env, backend, failed, since, mu, startLeft, cpc, built>>
vars == <<up, database, processes, requests, function>>

-----------------------------------------------------------------------------
Processes == Servers \cup Jobs
None == "none"
Steps == 0 .. Files
Migrating == {"begin", "check", "exec", "commit", "skip"}
InStep == Migrating \ {"begin"}
Starting == {"start", "open"}
At(s) == {q \in Requests : at[q] = s}
LessOne(n) == IF n > 0 THEN n - 1 ELSE 0
\* The function's push key is in Secret Manager, or set directly (or push is off);
\* or withFCMKey, LoadConfig or app.New refuse what is set.
Environments == {"secret", "direct", "refused"}
Capped(n) == IF n < RetryAfter THEN n + 1 ELSE n

-----------------------------------------------------------------------------
(* Migrate: one transaction under the advisory lock per step *)

\* db.Open: the pool is made and pinged.
Open == up

\* app.New, or db.Open of "server migrate".  Without a database the process exits
\* and the container is started again; one that LoadConfig refuses is no process.
Boot(p) ==
  /\ pc[p] = "down"
  /\ Open
  /\ pc' = [pc EXCEPT ![p] = "begin"]
  /\ file' = [file EXCEPT ![p] = 0]
  /\ UNCHANGED <<up, database, crashes, drain, requests, function>>

StepLockShared(p) ==
  /\ pc[p] = "begin"
  /\ up
  /\ lock' = p
  /\ pc' = [pc EXCEPT ![p] = "check"]
  /\ UNCHANGED <<up, schema, recorded, file, crashes, drain, requests, function>>

\* BeginTx and pg_advisory_xact_lock
StepLock(p) ==
  /\ pc[p] = "begin"
  /\ up
  /\ lock = None
  /\ lock' = p
  /\ pc' = [pc EXCEPT ![p] = "check"]
  /\ UNCHANGED <<up, schema, recorded, file, crashes, drain, requests, function>>

\* SELECT EXISTS, and the IF NOT EXISTS of step 0
Check(p) ==
  /\ pc[p] = "check"
  /\ up
  /\ pc' = [pc EXCEPT ![p] = IF file[p] \in recorded THEN "skip" ELSE "exec"]
  /\ UNCHANGED <<up, database, file, crashes, drain, requests, function>>

\* The file and its version row, both visible to others only at the commit.
Exec(p) ==
  /\ pc[p] = "exec"
  /\ up
  /\ pc' = [pc EXCEPT ![p] = "commit"]
  /\ UNCHANGED <<up, database, file, crashes, drain, requests, function>>

Committed(p) ==
  /\ schema' = IF pc[p] = "commit" THEN Append(schema, file[p]) ELSE schema
  /\ recorded' = IF pc[p] = "commit" THEN recorded \cup {file[p]} ELSE recorded
  /\ lock' = None

\* After the last file a container listens and a job exits with 0.
Migrated(p) == IF p \in Servers THEN "serving" ELSE "done"

Commit(p) ==
  /\ pc[p] \in {"commit", "skip"}
  /\ up
  /\ Committed(p)
  /\ file' = [file EXCEPT ![p] = IF @ < Files THEN @ + 1 ELSE @]
  /\ pc' = [pc EXCEPT ![p] = IF file[p] < Files THEN "begin" ELSE Migrated(p)]
  /\ live' = (live \/ pc'[p] = "done")
  /\ UNCHANGED <<up, crashes, drain, requests, env, backend, failed, since, mu, startLeft, cpc,
                 built>>

\* The commit is done but the process does not learn it.
CommitLost(p) ==
  /\ pc[p] \in {"commit", "skip"}
  /\ crashes < MaxCrashes
  /\ crashes' = crashes + 1
  /\ Committed(p)
  /\ pc' = [pc EXCEPT ![p] = "down"]
  /\ UNCHANGED <<up, file, drain, requests, function>>

RollbackLocked(p) == lock' = lock
Rollback(p) == lock' = IF pc[p] \in InStep THEN None ELSE lock

FailGoesOn(p) ==
  /\ pc[p] \in Migrating
  /\ ~ up
  /\ Rollback(p)
  /\ file' = [file EXCEPT ![p] = IF @ < Files THEN @ + 1 ELSE @]
  /\ pc' = [pc EXCEPT ![p] = IF file[p] < Files THEN "begin" ELSE Migrated(p)]
  /\ UNCHANGED <<up, schema, recorded, crashes, drain, requests, function>>

\* A statement fails: return 1.
Fail(p) ==
  /\ pc[p] \in Migrating
  /\ ~ up
  /\ Rollback(p)
  /\ pc' = [pc EXCEPT ![p] = "down"]
  /\ UNCHANGED <<up, schema, recorded, file, crashes, drain, requests, function>>

\* The process is killed, or is told to stop or runs out of its startup timeout
\* before it serves: the database rolls its transaction back, its requests are gone.
Crash(p) ==
  /\ pc[p] \notin {"down", "done"}
  /\ crashes < MaxCrashes
  /\ crashes' = crashes + 1
  /\ Rollback(p)
  /\ pc' = [pc EXCEPT ![p] = "down"]
  /\ drain' = [drain EXCEPT ![p] = 0]
  /\ at' = [q \in Requests |-> IF at[q] = p THEN None ELSE at[q]]
  /\ left' = [q \in Requests |-> IF at[q] = p THEN 0 ELSE left[q]]
  /\ UNCHANGED <<up, schema, recorded, file, cut, function>>

-----------------------------------------------------------------------------
(* Serving and draining *)

\* Of an access request, from its creation: a slow round of pushes does not stretch it.
Deadline == VerdictWait

AcceptLate(q, s) ==
  /\ at[q] = None
  /\ pc[s] \in {"serving", "draining"}
  /\ at' = [at EXCEPT ![q] = s]
  /\ left' = [left EXCEPT ![q] = Deadline]
  /\ UNCHANGED <<up, database, processes, cut, function>>

Accept(q, s) ==
  /\ at[q] = None
  /\ pc[s] = "serving"
  /\ at' = [at EXCEPT ![q] = s]
  /\ left' = [left EXCEPT ![q] = Deadline]
  /\ UNCHANGED <<up, database, processes, cut, function>>

\* The handler answers, at its verdict deadline at the latest.
Answer(q) ==
  /\ at[q] # None
  /\ at' = [at EXCEPT ![q] = None]
  /\ left' = [left EXCEPT ![q] = 0]
  /\ UNCHANGED <<up, database, processes, cut, function>>

\* SIGTERM or SIGINT: the listener closes, Shutdown waits.
SigTerm(s) ==
  /\ pc[s] = "serving"
  /\ pc' = [pc EXCEPT ![s] = "draining"]
  /\ drain' = [drain EXCEPT ![s] = DrainTimeout]
  /\ UNCHANGED <<up, database, file, crashes, requests, function>>

\* Shutdown returns: everything is answered, or its context ended and the
\* process exits with the rest of its requests.
Exit(s) ==
  /\ pc[s] = "draining"
  /\ At(s) = {} \/ drain[s] = 0
  /\ pc' = [pc EXCEPT ![s] = "down"]
  /\ drain' = [drain EXCEPT ![s] = 0]
  /\ cut' = (cut \/ At(s) # {})
  /\ at' = [q \in Requests |-> IF at[q] = s THEN None ELSE at[q]]
  /\ left' = [q \in Requests |-> IF at[q] = s THEN 0 ELSE left[q]]
  /\ UNCHANGED <<up, database, file, crashes, function>>

-----------------------------------------------------------------------------
(* The function: Handle, instance and start *)

Invoke(c) ==
  /\ live
  /\ cpc[c] = "idle"
  /\ cpc' = [cpc EXCEPT ![c] = "lock"]
  /\ UNCHANGED <<up, database, processes, requests, live, env, backend, failed, since, mu,
                 startLeft, built>>

\* instance: the backend is there.
Reuse(c) ==
  /\ cpc[c] = "lock"
  /\ mu = None
  /\ backend
  /\ cpc' = [cpc EXCEPT ![c] = "serve"]
  /\ UNCHANGED <<up, database, processes, requests, live, env, backend, failed, since, mu,
                 startLeft, built>>

TooSoonForever == failed
TooSoon == failed /\ since < RetryAfter

\* instance: the last attempt failed a moment ago, 500 at once.
FailFast(c) ==
  /\ cpc[c] = "lock"
  /\ mu = None
  /\ ~ backend
  /\ TooSoon
  /\ cpc' = [cpc EXCEPT ![c] = "error"]
  /\ UNCHANGED <<up, database, processes, requests, live, env, backend, failed, since, mu,
                 startLeft, built>>

HoldNothing(c) == mu' = mu
Hold(c) == mu' = c

\* instance: build it, the mutex held throughout.
BeginStart(c) ==
  /\ cpc[c] = "lock"
  /\ mu = None
  /\ ~ backend
  /\ ~ TooSoon
  /\ Hold(c)
  /\ since' = 0
  /\ startLeft' = StartTimeout
  /\ cpc' = [cpc EXCEPT ![c] = "start"]
  /\ UNCHANGED <<up, database, processes, requests, live, env, backend, failed, built>>

\* start: withFCMKey asks Secret Manager for the key of the push account, unless
\* there is nothing to ask for.
FetchKey(c) ==
  /\ cpc[c] = "start"
  /\ env = "direct" \/ up
  /\ cpc' = [cpc EXCEPT ![c] = "open"]
  /\ UNCHANGED <<up, database, processes, requests, live, env, backend, failed, since, mu,
                 startLeft, built>>

\* start: LoadConfig and app.New
Start(c) ==
  /\ cpc[c] = "open"
  /\ Open
  /\ env # "refused"
  /\ backend' = TRUE
  /\ failed' = FALSE
  /\ built' = built + 1
  /\ mu' = None
  /\ startLeft' = 0
  /\ cpc' = [cpc EXCEPT ![c] = "serve"]
  /\ UNCHANGED <<up, database, processes, requests, live, env, since>>

\* A call is refused or not answered until the start timeout, or what is set in
\* the environment is refused, at its first use or later.
StartFails(c) ==
  /\ \/ cpc[c] = "start" /\ (env = "refused" \/ (env = "secret" /\ ~ up))
     \/ cpc[c] = "open" /\ (env = "refused" \/ ~ up)
  /\ failed' = TRUE
  /\ mu' = None
  /\ startLeft' = 0
  /\ cpc' = [cpc EXCEPT ![c] = "error"]
  /\ UNCHANGED <<up, database, processes, requests, live, env, backend, since, built>>

Reply(c) ==
  /\ cpc[c] \in {"serve", "error"}
  /\ cpc' = [cpc EXCEPT ![c] = "idle"]
  /\ UNCHANGED <<up, database, processes, requests, live, env, backend, failed, since, mu,
                 startLeft, built>>

\* The platform retires an instance nobody calls; the next one starts empty.
Retire ==
  /\ live
  /\ \A c \in Calls : cpc[c] = "idle"
  /\ backend' = FALSE
  /\ failed' = FALSE
  /\ since' = RetryAfter
  /\ built' = 0
  /\ UNCHANGED <<up, database, processes, requests, live, env, mu, startLeft, cpc>>

-----------------------------------------------------------------------------
(* The environment *)

Outage ==
  /\ up' = ~ up
  /\ UNCHANGED <<database, processes, requests, function>>

\* Time passes: a timer that ran out is served first.
Tick ==
  /\ \A q \in Requests : at[q] # None => left[q] > 0
  /\ \A s \in Servers : pc[s] = "draining" => drain[s] > 0
  /\ mu # None => startLeft > 0
  /\ left' = [q \in Requests |-> LessOne(left[q])]
  /\ drain' = [p \in Processes |-> LessOne(drain[p])]
  /\ startLeft' = LessOne(startLeft)
  /\ since' = Capped(since)
  /\ UNCHANGED <<up, database, pc, file, crashes, at, cut, live, env, backend, failed, mu,
                 cpc, built>>

-----------------------------------------------------------------------------
Init ==
  /\ up \in BOOLEAN
  /\ schema = <<>>
  /\ recorded = {}
  /\ lock = None
  /\ pc = [p \in Processes |-> "down"]
  /\ file = [p \in Processes |-> 0]
  /\ crashes = 0
  /\ at = [q \in Requests |-> None]
  /\ left = [q \in Requests |-> 0]
  /\ drain = [p \in Processes |-> 0]
  /\ cut = FALSE
  /\ live = FALSE
  /\ env \in Environments
  /\ backend = FALSE
  /\ failed = FALSE
  /\ since = RetryAfter
  /\ mu = None
  /\ startLeft = 0
  /\ cpc = [c \in Calls |-> "idle"]
  /\ built = 0

MigrateStep(p) == StepLock(p) \/ Check(p) \/ Exec(p) \/ Commit(p) \/ Fail(p)

CallStep(c) == Invoke(c) \/ Reuse(c) \/ FailFast(c) \/ BeginStart(c) \/ Reply(c)

StartStep(c) == FetchKey(c) \/ Start(c) \/ StartFails(c)

Next ==
  \/ \E p \in Processes : Boot(p) \/ MigrateStep(p) \/ CommitLost(p) \/ Crash(p)
  \/ \E s \in Servers : SigTerm(s) \/ Exit(s) \/ \E q \in Requests : Accept(q, s)
  \/ \E q \in Requests : Answer(q)
  \/ \E c \in Calls : CallStep(c) \/ StartStep(c)
  \/ Retire
  \/ Outage
  \/ Tick

Spec == Init /\ [][Next]_vars

\* Processes run, containers are started again, handlers answer by their deadline,
\* the clients keep calling; nothing is owed by an outage, a crash or a signal.
FairSpec ==
  /\ Spec
  /\ WF_vars(Tick)
  /\ \A p \in Processes : WF_vars(Boot(p)) /\ WF_vars(MigrateStep(p))
  /\ \A q \in Requests : WF_vars(Answer(q))
  /\ \A s \in Servers : WF_vars(Exit(s))
  /\ \A c \in Calls : WF_vars(CallStep(c)) /\ WF_vars(StartStep(c))

-----------------------------------------------------------------------------
(* Properties *)

TypeOK ==
  /\ up \in BOOLEAN
  /\ schema \in Seq(Steps)
  /\ recorded \subseteq Steps
  /\ lock \in Processes \cup {None}
  /\ pc \in [Processes -> Migrating \cup {"down", "serving", "draining", "done"}]
  /\ file \in [Processes -> Steps]
  /\ crashes \in 0 .. MaxCrashes
  /\ at \in [Requests -> Servers \cup {None}]
  /\ left \in [Requests -> 0 .. VerdictWait]
  /\ drain \in [Processes -> 0 .. DrainTimeout]
  /\ cut \in BOOLEAN
  /\ live \in BOOLEAN
  /\ env \in Environments
  /\ backend \in BOOLEAN
  /\ failed \in BOOLEAN
  /\ since \in 0 .. RetryAfter
  /\ mu \in Calls \cup {None}
  /\ startLeft \in 0 .. StartTimeout
  /\ cpc \in [Calls -> Starting \cup {"idle", "lock", "serve", "error"}]
  /\ built \in Nat

\* Containers and jobs that start together, fail between any two statements or
\* die with a commit under way leave no file executed twice, out of order, or
\* executed and not recorded (migrate.go applyMigration).
AppliedOnceInOrder ==
  /\ \A i \in 1 .. Len(schema) : schema[i] = i - 1
  /\ recorded = {schema[i] : i \in 1 .. Len(schema)}

\* No request meets a schema that lacks a migration, in a container that found
\* another one's migrations under way or in the function, which never migrates
\* (serve.go runServe, migrate.go Migrate).
ServesOnFullSchema ==
  ((\E s \in Servers : pc[s] \in {"serving", "draining"}) \/ backend) => recorded = Steps

\* With VERDICT_WAIT_SECONDS below the drain timeout a stopping container
\* leaves no login without its answer (serve.go).
DrainCutsNobody == VerdictWait < DrainTimeout => ~ cut

\* A burst of invocations of a cold function shares one start: nobody builds a
\* second backend, whose connection pool would never be closed (handler.go
\* instance).
OneBackend == built <= 1 /\ \A c, d \in Calls : {cpc[c], cpc[d]} \subseteq Starting => c = d

\* Once the database stays up, somebody completes the schema: no process that
\* failed or died keeps the others from the migration lock (migrate.go
\* migrationStep).
SchemaCompletes == <>[] up => <>(recorded = Steps)

\* A failed cold start does not poison the instance: once the database stays up,
\* invocations are served again, unless the environment itself is refused
\* (handler.go instance).
FunctionRecovers ==
  (env # "refused" /\ <>[](up /\ live)) => []<>(\E c \in Calls : cpc[c] = "serve")
===============================================================================
