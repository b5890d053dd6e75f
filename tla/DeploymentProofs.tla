--------------------------- MODULE DeploymentProofs ----------------------------
(***************************************************************************)
(* Theorems about Deployment, for every number of containers, jobs,        *)
(* migration files, requests and invocations and every timeout.            *)
(***************************************************************************)
EXTENDS Deployment, TLAPS

\* What is executed is a prefix of the files.  A process inside a step holds the
\* lock, so what it found of its file stays true; who serves has seen the last
\* file committed, and the function goes live after a job has.
MigrationInv ==
  /\ \A i \in 1 .. Len(schema) : schema[i] = i - 1
  /\ recorded = 0 .. Len(schema) - 1
  /\ Len(schema) <= Files + 1
  /\ \A p \in Processes :
       /\ pc[p] \in InStep => lock = p
       /\ pc[p] \in Migrating => file[p] <= Len(schema)
       /\ pc[p] = "skip" => file[p] < Len(schema)
       /\ pc[p] \in {"exec", "commit"} => file[p] = Len(schema)
       /\ pc[p] \in {"serving", "draining", "done"} => Len(schema) = Files + 1
  /\ live => Len(schema) = Files + 1
  /\ backend => live
  /\ \A c \in Calls : cpc[c] # "idle" => live

\* Requests are at processes that serve, and a draining one has more time left
\* than any of its requests.
DrainInv ==
  /\ \A q \in Requests : at[q] # None => pc[at[q]] \in {"serving", "draining"}
  /\ VerdictWait < DrainTimeout =>
       /\ ~ cut
       /\ \A q \in Requests : (at[q] # None /\ pc[at[q]] = "draining") => left[q] < drain[at[q]]

\* Who starts the function holds its mutex, and there is no backend yet.
FunctionInv ==
  /\ \A c \in Calls : cpc[c] \in Starting => mu = c /\ ~ backend
  /\ built <= 1
  /\ ~ backend => built = 0

Inv == TypeOK /\ MigrationInv /\ DrainInv /\ FunctionInv

\* The constants are numbers, and no process or call is None.
LEMMA Constants ==
  /\ VerdictWait \in Nat \ {0}
  /\ DrainTimeout \in Nat \ {0}
  /\ StartTimeout \in Nat \ {0}
  /\ RetryAfter \in Nat \ {0}
BY DeploymentAssumption

\* The initial state satisfies the invariant.
LEMMA InitInv == Init => Inv
<1> SUFFICES ASSUME Init PROVE Inv
  OBVIOUS
<1>1. TypeOK
  <2>1. schema \in Seq(Steps) /\ recorded \subseteq Steps /\ file \in [Processes -> Steps]
    BY DeploymentAssumption DEF Init, Steps
  <2>2. /\ cut \in BOOLEAN /\ live \in BOOLEAN
        /\ backend \in BOOLEAN /\ failed \in BOOLEAN
    BY Zenon DEF Init
  <2>3. /\ since \in 0 .. RetryAfter
        /\ startLeft \in 0 .. StartTimeout
        /\ crashes \in 0 .. MaxCrashes
        /\ built \in Nat
    BY DeploymentAssumption, Constants DEF Init
  <2>4. left \in [Requests -> 0 .. VerdictWait] /\ drain \in [Processes -> 0 .. DrainTimeout]
    BY Constants DEF Init
  <2>5. QED
    BY <2>1, <2>2, <2>3, <2>4 DEF Init, TypeOK, Migrating, Starting, None
<1>2. MigrationInv
  BY DeploymentAssumption DEF Init, MigrationInv, Migrating, InStep, Starting
<1>3. DrainInv
  BY DEF Init, DrainInv
<1>4. FunctionInv
  BY DEF Init, FunctionInv, Starting
<1>5. QED
  BY <1>1, <1>2, <1>3, <1>4 DEF Inv

\* A step of a process that starts or migrates keeps the invariant.
LEMMA ProcessKeepsInv ==
  ASSUME Inv, NEW p \in Processes,
         Boot(p) \/ StepLock(p) \/ Check(p) \/ Exec(p) \/ Commit(p) \/ CommitLost(p)
           \/ Fail(p) \/ Crash(p)
  PROVE  Inv'
<1> USE DeploymentAssumption, Constants DEF Processes, None
<1>0. TypeOK /\ MigrationInv /\ DrainInv /\ FunctionInv
  BY DEF Inv
<1>1. CASE Boot(p)
  <2>1. TypeOK'
    BY <1>0, <1>1 DEF Boot, TypeOK, Migrating, Steps, database, requests, function
  <2>2. MigrationInv'
    BY <1>0, <1>1
       DEF Boot, TypeOK, MigrationInv, Migrating, InStep, Steps, database, function
  <2>3. DrainInv'
    BY <1>0, <1>1 DEF Boot, TypeOK, DrainInv, requests
  <2>4. FunctionInv'
    BY <1>0, <1>1 DEF Boot, FunctionInv, function
  <2>5. QED
    BY <2>1, <2>2, <2>3, <2>4 DEF Inv
<1>2. CASE StepLock(p)
  <2>1. TypeOK'
    BY <1>0, <1>2 DEF StepLock, TypeOK, Migrating, requests, function
  <2>2. MigrationInv'
    BY <1>0, <1>2 DEF StepLock, TypeOK, MigrationInv, Migrating, InStep, function
  <2>3. DrainInv'
    BY <1>0, <1>2 DEF StepLock, TypeOK, DrainInv, requests
  <2>4. FunctionInv'
    BY <1>0, <1>2 DEF StepLock, FunctionInv, function
  <2>5. QED
    BY <2>1, <2>2, <2>3, <2>4 DEF Inv
<1>3. CASE Check(p)
  <2>1. TypeOK'
    BY <1>0, <1>3 DEF Check, TypeOK, Migrating, database, requests, function
  <2>2. MigrationInv'
    <3>1. file[p] \in recorded <=> file[p] < Len(schema)
      BY <1>0 DEF TypeOK, MigrationInv, Steps
    <3>2. pc'[p] = IF file[p] < Len(schema) THEN "skip" ELSE "exec"
      BY <1>0, <1>3, <3>1 DEF Check, TypeOK
    <3>3. file[p] \in Nat /\ Len(schema) \in Nat
      BY <1>0 DEF TypeOK, Steps
    <3>4. \A r \in Processes : r # p => pc'[r] = pc[r]
      BY <1>0, <1>3 DEF Check, TypeOK
    <3>5. QED
      BY <1>0, <1>3, <3>2, <3>3, <3>4
         DEF Check, MigrationInv, Migrating, InStep, database, function
  <2>3. DrainInv'
    BY <1>0, <1>3 DEF Check, TypeOK, DrainInv, requests
  <2>4. FunctionInv'
    BY <1>0, <1>3 DEF Check, FunctionInv, function
  <2>5. QED
    BY <2>1, <2>2, <2>3, <2>4 DEF Inv
<1>4. CASE Exec(p)
  <2>1. TypeOK'
    BY <1>0, <1>4 DEF Exec, TypeOK, Migrating, database, requests, function
  <2>2. MigrationInv'
    BY <1>0, <1>4
       DEF Exec, TypeOK, MigrationInv, Migrating, InStep, Steps, database, function
  <2>3. DrainInv'
    BY <1>0, <1>4 DEF Exec, TypeOK, DrainInv, requests
  <2>4. FunctionInv'
    BY <1>0, <1>4 DEF Exec, FunctionInv, function
  <2>5. QED
    BY <2>1, <2>2, <2>3, <2>4 DEF Inv
<1>5. CASE Commit(p)
  <2>1. TypeOK'
    <3>1. schema' \in Seq(Steps) /\ recorded' \subseteq Steps
      BY <1>0, <1>5 DEF Commit, Committed, TypeOK
    <3>2. file' \in [Processes -> Steps] /\ live' \in BOOLEAN
      BY <1>0, <1>5 DEF Commit, TypeOK, Steps
    <3>3. QED
      BY <1>0, <1>5, <3>1, <3>2 DEF Commit, Committed, Migrated, TypeOK, Migrating, requests
  <2>2. MigrationInv'
    <3>1. \/ /\ pc[p] = "commit"
             /\ schema' = Append(schema, file[p]) /\ recorded' = recorded \cup {file[p]}
             /\ file[p] = Len(schema) /\ Len(schema') = Len(schema) + 1
          \/ pc[p] = "skip" /\ schema' = schema /\ recorded' = recorded /\ file[p] < Len(schema)
      BY <1>0, <1>5 DEF Commit, Committed, TypeOK, MigrationInv
    <3>2. /\ \A i \in 1 .. Len(schema') : schema'[i] = i - 1
          /\ recorded' = 0 .. Len(schema') - 1
      <4>1. CASE pc[p] = "commit"
        <5>1. /\ schema \in Seq(Steps) /\ Len(schema) \in Nat
              /\ schema' = Append(schema, Len(schema)) /\ Len(schema') = Len(schema) + 1
              /\ recorded' = (0 .. Len(schema) - 1) \cup {Len(schema)}
          BY <1>0, <3>1, <4>1 DEF TypeOK, MigrationInv
        <5>2. ASSUME NEW i \in 1 .. Len(schema') PROVE schema'[i] = i - 1
          BY <1>0, <5>1 DEF MigrationInv
        <5>3. recorded' = 0 .. Len(schema') - 1
          BY <5>1
        <5>4. QED
          BY <5>2, <5>3
      <4>2. CASE pc[p] = "skip"
        BY <1>0, <3>1, <4>2 DEF MigrationInv
      <4>3. QED
        BY <3>1, <4>1, <4>2
    <3>3. Len(schema') <= Files + 1 /\ Len(schema) <= Len(schema')
          /\ file[p] < Len(schema')
      BY <1>0, <3>1 DEF TypeOK, MigrationInv, Steps
    <3>4. ASSUME NEW r \in Processes
          PROVE  /\ pc'[r] \in InStep => lock' = r
                 /\ pc'[r] \in Migrating => file'[r] <= Len(schema')
                 /\ pc'[r] = "skip" => file'[r] < Len(schema')
                 /\ pc'[r] \in {"exec", "commit"} => file'[r] = Len(schema')
                 /\ pc'[r] \in {"serving", "draining", "done"} => Len(schema') = Files + 1
      <4>1. CASE r = p
        BY <1>0, <1>5, <3>1, <3>3, <4>1
           DEF Commit, Committed, TypeOK, MigrationInv, Migrating, InStep, Steps, Migrated
      <4>2. CASE r # p
        <5>1. pc'[r] = pc[r] /\ file'[r] = file[r] /\ pc[r] \notin InStep
          BY <1>0, <1>5, <4>2 DEF Commit, TypeOK, MigrationInv, InStep, Migrating
        <5>2. QED
          BY <1>0, <3>3, <5>1 DEF TypeOK, MigrationInv, InStep, Migrating, Steps
      <4>3. QED
        BY <4>1, <4>2
    <3>5. live' => Len(schema') = Files + 1
      BY <1>0, <1>5, <3>1, <3>2, <3>3 DEF Commit, Migrated, TypeOK, MigrationInv, Steps
    <3>6. (backend' => live') /\ \A c \in Calls : cpc'[c] # "idle" => live'
      BY <1>0, <1>5 DEF Commit, MigrationInv
    <3>7. QED
      BY <3>2, <3>3, <3>4, <3>5, <3>6 DEF MigrationInv
  <2>3. DrainInv'
    BY <1>0, <1>5 DEF Commit, Migrated, TypeOK, DrainInv, requests
  <2>4. FunctionInv'
    BY <1>0, <1>5 DEF Commit, FunctionInv
  <2>5. QED
    BY <2>1, <2>2, <2>3, <2>4 DEF Inv
<1>6. CASE CommitLost(p)
  <2>1. TypeOK'
    <3>1. schema' \in Seq(Steps) /\ recorded' \subseteq Steps
      BY <1>0, <1>6 DEF CommitLost, Committed, TypeOK
    <3>2. QED
      BY <1>0, <1>6, <3>1 DEF CommitLost, Committed, TypeOK, Migrating, requests, function
  <2>2. MigrationInv'
    <3>1. \/ /\ pc[p] = "commit"
             /\ schema' = Append(schema, file[p]) /\ recorded' = recorded \cup {file[p]}
             /\ file[p] = Len(schema) /\ Len(schema') = Len(schema) + 1
          \/ pc[p] = "skip" /\ schema' = schema /\ recorded' = recorded /\ file[p] < Len(schema)
      BY <1>0, <1>6 DEF CommitLost, Committed, TypeOK, MigrationInv
    <3>2. /\ \A i \in 1 .. Len(schema') : schema'[i] = i - 1
          /\ recorded' = 0 .. Len(schema') - 1
      <4>1. CASE pc[p] = "commit"
        <5>1. /\ schema \in Seq(Steps) /\ Len(schema) \in Nat
              /\ schema' = Append(schema, Len(schema)) /\ Len(schema') = Len(schema) + 1
              /\ recorded' = (0 .. Len(schema) - 1) \cup {Len(schema)}
          BY <1>0, <3>1, <4>1 DEF TypeOK, MigrationInv
        <5>2. ASSUME NEW i \in 1 .. Len(schema') PROVE schema'[i] = i - 1
          BY <1>0, <5>1 DEF MigrationInv
        <5>3. recorded' = 0 .. Len(schema') - 1
          BY <5>1
        <5>4. QED
          BY <5>2, <5>3
      <4>2. CASE pc[p] = "skip"
        BY <1>0, <3>1, <4>2 DEF MigrationInv
      <4>3. QED
        BY <3>1, <4>1, <4>2
    <3>3. Len(schema') <= Files + 1 /\ Len(schema) <= Len(schema')
          /\ file[p] < Len(schema')
      BY <1>0, <3>1 DEF TypeOK, MigrationInv, Steps
    <3>4. ASSUME NEW r \in Processes
          PROVE  /\ pc'[r] \in InStep => lock' = r
                 /\ pc'[r] \in Migrating => file'[r] <= Len(schema')
                 /\ pc'[r] = "skip" => file'[r] < Len(schema')
                 /\ pc'[r] \in {"exec", "commit"} => file'[r] = Len(schema')
                 /\ pc'[r] \in {"serving", "draining", "done"} => Len(schema') = Files + 1
      <4>1. CASE r = p
        BY <1>0, <1>6, <3>1, <3>3, <4>1
           DEF CommitLost, Committed, TypeOK, MigrationInv, Migrating, InStep, Steps
      <4>2. CASE r # p
        <5>1. pc'[r] = pc[r] /\ file'[r] = file[r] /\ pc[r] \notin InStep
          BY <1>0, <1>6, <4>2 DEF CommitLost, TypeOK, MigrationInv, InStep, Migrating
        <5>2. QED
          BY <1>0, <3>3, <5>1 DEF TypeOK, MigrationInv, InStep, Migrating, Steps
      <4>3. QED
        BY <4>1, <4>2
    <3>5. /\ live' => Len(schema') = Files + 1
          /\ backend' => live'
          /\ \A c \in Calls : cpc'[c] # "idle" => live'
      BY <1>0, <1>6, <3>1, <3>3 DEF CommitLost, TypeOK, MigrationInv, Steps, function
    <3>7. QED
      BY <3>2, <3>3, <3>4, <3>5 DEF MigrationInv
  <2>3. DrainInv'
    BY <1>0, <1>6 DEF CommitLost, TypeOK, DrainInv, requests
  <2>4. FunctionInv'
    BY <1>0, <1>6 DEF CommitLost, FunctionInv, function
  <2>5. QED
    BY <2>1, <2>2, <2>3, <2>4 DEF Inv
<1>7. CASE Fail(p)
  <2>1. TypeOK'
    BY <1>0, <1>7 DEF Fail, Rollback, TypeOK, Migrating, requests, function
  <2>2. MigrationInv'
    BY <1>0, <1>7 DEF Fail, Rollback, TypeOK, MigrationInv, Migrating, InStep, function
  <2>3. DrainInv'
    BY <1>0, <1>7 DEF Fail, TypeOK, DrainInv, Migrating, requests
  <2>4. FunctionInv'
    BY <1>0, <1>7 DEF Fail, FunctionInv, function
  <2>5. QED
    BY <2>1, <2>2, <2>3, <2>4 DEF Inv
<1>8. CASE Crash(p)
  <2>1. TypeOK'
    BY <1>0, <1>8 DEF Crash, Rollback, TypeOK, Migrating, function
  <2>2. MigrationInv'
    BY <1>0, <1>8 DEF Crash, Rollback, TypeOK, MigrationInv, Migrating, InStep, function
  <2>3. DrainInv'
    BY <1>0, <1>8 DEF Crash, TypeOK, DrainInv
  <2>4. FunctionInv'
    BY <1>0, <1>8 DEF Crash, FunctionInv, function
  <2>5. QED
    BY <2>1, <2>2, <2>3, <2>4 DEF Inv
<1>9. QED
  BY <1>1, <1>2, <1>3, <1>4, <1>5, <1>6, <1>7, <1>8

\* A request, a signal and the end of a drain keep the invariant.
LEMMA ServingKeepsInv ==
  ASSUME Inv,
         \/ \E s \in Servers : SigTerm(s) \/ Exit(s) \/ \E q \in Requests : Accept(q, s)
         \/ \E q \in Requests : Answer(q)
  PROVE  Inv'
<1> USE DeploymentAssumption, Constants DEF Processes, None
<1>0. TypeOK /\ MigrationInv /\ DrainInv /\ FunctionInv
  BY DEF Inv
<1>1. ASSUME NEW s \in Servers, SigTerm(s) PROVE Inv'
  <2>1. TypeOK'
    BY <1>0, <1>1 DEF SigTerm, TypeOK, Migrating, database, requests, function
  <2>2. MigrationInv'
    BY <1>0, <1>1 DEF SigTerm, TypeOK, MigrationInv, Migrating, InStep, database, function
  <2>3. DrainInv'
    BY <1>0, <1>1 DEF SigTerm, TypeOK, DrainInv, requests
  <2>4. FunctionInv'
    BY <1>0, <1>1 DEF SigTerm, FunctionInv, function
  <2>5. QED
    BY <2>1, <2>2, <2>3, <2>4 DEF Inv
<1>2. ASSUME NEW s \in Servers, Exit(s) PROVE Inv'
  <2>1. TypeOK'
    BY <1>0, <1>2 DEF Exit, TypeOK, Migrating, database, function
  <2>2. MigrationInv'
    BY <1>0, <1>2 DEF Exit, TypeOK, MigrationInv, Migrating, InStep, database, function
  <2>3. DrainInv'
    <3>1. VerdictWait < DrainTimeout => At(s) = {}
      <4> SUFFICES ASSUME VerdictWait < DrainTimeout, NEW q \in At(s) PROVE FALSE
        OBVIOUS
      <4>1. q \in Requests /\ at[q] = s /\ s # None
        BY DEF At
      <4>2. left[q] < drain[s]
        BY <1>0, <1>2, <4>1 DEF Exit, DrainInv
      <4>3. left[q] \in 0 .. VerdictWait
        BY <1>0, <4>1 DEF TypeOK
      <4>4. drain[s] = 0
        BY <1>2 DEF Exit
      <4>5. QED
        BY <4>2, <4>3, <4>4
    <3>2. ASSUME NEW q \in Requests, at'[q] # None
          PROVE  at[q] # s /\ at'[q] = at[q] /\ left'[q] = left[q]
      BY <1>2, <3>2 DEF Exit
    <3>3. ASSUME NEW q \in Requests, at'[q] # None
          PROVE  pc'[at'[q]] = pc[at[q]] /\ drain'[at'[q]] = drain[at[q]]
      BY <1>0, <1>2, <3>2, <3>3 DEF Exit, TypeOK
    <3>4. VerdictWait < DrainTimeout => ~ cut'
      BY <1>0, <1>2, <3>1 DEF Exit, DrainInv
    <3>5. QED
      BY <1>0, <3>2, <3>3, <3>4 DEF DrainInv
  <2>4. FunctionInv'
    BY <1>0, <1>2 DEF Exit, FunctionInv, function
  <2>5. QED
    BY <2>1, <2>2, <2>3, <2>4 DEF Inv
<1>3. ASSUME NEW s \in Servers, NEW q \in Requests, Accept(q, s) PROVE Inv'
  <2>1. TypeOK'
    BY <1>0, <1>3 DEF Accept, Deadline, TypeOK, database, processes, function
  <2>2. MigrationInv'
    BY <1>0, <1>3 DEF Accept, MigrationInv, database, processes, function
  <2>3. DrainInv'
    BY <1>0, <1>3 DEF Accept, TypeOK, DrainInv, processes
  <2>4. FunctionInv'
    BY <1>0, <1>3 DEF Accept, FunctionInv, function
  <2>5. QED
    BY <2>1, <2>2, <2>3, <2>4 DEF Inv
<1>4. ASSUME NEW q \in Requests, Answer(q) PROVE Inv'
  <2>1. TypeOK'
    BY <1>0, <1>4 DEF Answer, TypeOK, database, processes, function
  <2>2. MigrationInv'
    BY <1>0, <1>4 DEF Answer, MigrationInv, database, processes, function
  <2>3. DrainInv'
    BY <1>0, <1>4 DEF Answer, TypeOK, DrainInv, processes
  <2>4. FunctionInv'
    BY <1>0, <1>4 DEF Answer, FunctionInv, function
  <2>5. QED
    BY <2>1, <2>2, <2>3, <2>4 DEF Inv
<1>5. QED
  BY <1>1, <1>2, <1>3, <1>4

\* An invocation of the function keeps the invariant.
LEMMA CallKeepsInv ==
  ASSUME Inv, NEW c \in Calls, CallStep(c) \/ StartStep(c)
  PROVE  Inv'
<1> USE DeploymentAssumption, Constants DEF None
<1>0. TypeOK /\ MigrationInv /\ DrainInv /\ FunctionInv
  BY DEF Inv
<1>1. TypeOK'
  <2>1. backend' \in BOOLEAN /\ failed' \in BOOLEAN
    BY <1>0, Zenon DEF CallStep, StartStep, Invoke, Reuse, FailFast, BeginStart, FetchKey,
                       Start, StartFails, Reply, TypeOK
  <2>2. cpc' \in [Calls -> Starting \cup {"idle", "lock", "serve", "error"}]
    BY <1>0 DEF CallStep, StartStep, Invoke, Reuse, FailFast, BeginStart, FetchKey, Start,
                StartFails, Reply, TypeOK, Starting
  <2>3. /\ since' \in 0 .. RetryAfter /\ startLeft' \in 0 .. StartTimeout
        /\ mu' \in Calls \cup {None} /\ built' \in Nat
    BY <1>0
       DEF CallStep, StartStep, Invoke, Reuse, FailFast, BeginStart, Hold, FetchKey,
           Start,
                StartFails, Reply, TypeOK
  <2>4. UNCHANGED <<up, database, processes, requests, live, env>>
    BY DEF CallStep, StartStep, Invoke, Reuse, FailFast, BeginStart, FetchKey, Start,
           StartFails, Reply
  <2>5. QED
    BY <1>0, <2>1, <2>2, <2>3, <2>4 DEF TypeOK, database, processes, requests
<1>2. MigrationInv'
  BY <1>0 DEF CallStep, StartStep, Invoke, Reuse, FailFast, BeginStart, FetchKey, Start,
              StartFails, Reply, TypeOK, MigrationInv, Starting, database, processes
<1>3. DrainInv'
  BY <1>0 DEF CallStep, StartStep, Invoke, Reuse, FailFast, BeginStart, FetchKey, Start,
              StartFails, Reply, DrainInv, processes, requests
<1>4. FunctionInv'
  BY <1>0
     DEF CallStep, StartStep, Invoke, Reuse, FailFast, BeginStart, Hold, FetchKey, Start,
              StartFails, Reply, TypeOK, FunctionInv, Starting
<1>5. QED
  BY <1>1, <1>2, <1>3, <1>4 DEF Inv

\* Every step keeps the invariant.
LEMMA StepKeepsInv == Inv /\ [Next]_vars => Inv'
<1> SUFFICES ASSUME Inv, [Next]_vars PROVE Inv'
  OBVIOUS
<1> USE DeploymentAssumption, Constants DEF Processes, None
<1>0. TypeOK /\ MigrationInv /\ DrainInv /\ FunctionInv
  BY DEF Inv
<1>1. CASE Retire
  <2>1. TypeOK'
    <3>1. backend' \in BOOLEAN /\ failed' \in BOOLEAN
      BY <1>1, Zenon DEF Retire
    <3>2. QED
      BY <1>0, <1>1, <3>1 DEF Retire, TypeOK, database, processes, requests
  <2>4. MigrationInv'
    BY <1>0, <1>1 DEF Retire, MigrationInv, database, processes
  <2>2. DrainInv' /\ FunctionInv'
    BY <1>0, <1>1 DEF Retire, DrainInv, FunctionInv, Starting, processes, requests
  <2>3. QED
    BY <2>1, <2>4, <2>2 DEF Inv
<1>2. CASE Outage
  <2>1. TypeOK' /\ MigrationInv'
    BY <1>0, <1>2 DEF Outage, TypeOK, MigrationInv, database, processes, requests, function
  <2>2. DrainInv' /\ FunctionInv'
    BY <1>0, <1>2 DEF Outage, DrainInv, FunctionInv, processes, requests, function
  <2>3. QED
    BY <2>1, <2>2 DEF Inv
<1>3. CASE Tick
  <2>1. TypeOK'
    BY <1>0, <1>3 DEF Tick, TypeOK, LessOne, Capped, database
  <2>2. MigrationInv'
    BY <1>0, <1>3 DEF Tick, MigrationInv, database
  <2>3. DrainInv'
    BY <1>0, <1>3 DEF Tick, TypeOK, DrainInv, LessOne
  <2>4. FunctionInv'
    BY <1>0, <1>3 DEF Tick, FunctionInv
  <2>5. QED
    BY <2>1, <2>2, <2>3, <2>4 DEF Inv
<1>4. CASE UNCHANGED vars
  <2>1. TypeOK' /\ MigrationInv'
    BY <1>0, <1>4 DEF vars, TypeOK, MigrationInv, database, processes, requests, function
  <2>2. DrainInv' /\ FunctionInv'
    BY <1>0, <1>4 DEF vars, DrainInv, FunctionInv, processes, requests, function
  <2>3. QED
    BY <2>1, <2>2 DEF Inv
<1>5. QED
  BY <1>1, <1>2, <1>3, <1>4, ProcessKeepsInv, ServingKeepsInv, CallKeepsInv
     DEF Next, MigrateStep

\* The invariant holds in every reachable state.
LEMMA AlwaysInv == Spec => []Inv
BY InitInv, StepKeepsInv, PTL DEF Spec

\* The timers, locks and control points keep to their types, deadlines and
\* timeouts included.
THEOREM DeploymentTypes == Spec => []TypeOK
<1>1. Inv => TypeOK
  BY DEF Inv
<1>2. QED
  BY <1>1, AlwaysInv, PTL

\* However many processes migrate, fail and die together, the files are executed
\* once, in order, and recorded (AppliedOnceInOrder).
THEOREM MigrationsApplied == Spec => []AppliedOnceInOrder
<1>1. Inv => AppliedOnceInOrder
  <2> SUFFICES ASSUME Inv PROVE AppliedOnceInOrder
    OBVIOUS
  <2>1. Len(schema) \in Nat /\ MigrationInv
    BY DEF Inv, TypeOK
  <2>2. ASSUME NEW n \in recorded PROVE n + 1 \in 1 .. Len(schema) /\ schema[n + 1] = n
    BY <2>1 DEF MigrationInv
  <2>3. ASSUME NEW i \in 1 .. Len(schema) PROVE schema[i] \in recorded
    BY <2>1 DEF MigrationInv
  <2>4. QED
    BY <2>1, <2>2, <2>3 DEF MigrationInv, AppliedOnceInOrder
<1>2. QED
  BY <1>1, AlwaysInv, PTL

\* Whoever serves, container or function, serves on the complete schema
\* (ServesOnFullSchema).
THEOREM ServesMigrated == Spec => []ServesOnFullSchema
<1>1. Inv => ServesOnFullSchema
  BY DeploymentAssumption DEF Inv, MigrationInv, ServesOnFullSchema, Processes, Steps
<1>2. QED
  BY <1>1, AlwaysInv, PTL

\* A drain longer than the verdict wait outlasts every request it found
\* (DrainCutsNobody).
THEOREM DrainAnswersAll == Spec => []DrainCutsNobody
<1>1. Inv => DrainCutsNobody
  BY DEF Inv, DrainInv, DrainCutsNobody
<1>2. QED
  BY <1>1, AlwaysInv, PTL

\* Any burst of invocations builds one backend (OneBackend).
THEOREM BurstSharesStart == Spec => []OneBackend
<1>1. Inv => OneBackend
  BY DEF Inv, FunctionInv, OneBackend
<1>2. QED
  BY <1>1, AlwaysInv, PTL
===============================================================================
