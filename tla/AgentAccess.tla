------------------------------ MODULE AgentAccess ------------------------------
(***************************************************************************)
(* One protected server and what lets a user in there: the whitelist table *)
(* of the backend (handler/whitelist.go, db/postgres_whitelist.go), the    *)
(* copy of it that `ssh-sentinel sync` keeps in a file, and the decision   *)
(* `ssh-sentinel check` takes for PAM, from the backend's answer when      *)
(* there is one and from the file when there is none.                      *)
(*                                                                         *)
(* One (username, context) pair stands for all: every lookup selects by    *)
(* it.  The life of a request inside the backend is DecisionRegister,      *)
(* which RequestLifecycle implements.                                      *)
(***************************************************************************)
EXTENDS Integers

CONSTANTS
  Checks,         \* runs of `ssh-sentinel check`, one per login or sudo
  Syncs,          \* runs of `ssh-sentinel sync`
  Grants,         \* POST /whitelist, or the entry approve_always saves
  TTL,            \* ttl_seconds of an entry that is not permanent
  Budget, NotifyBudget,  \* Timeout of the call, and notifyTimeout
  MaxTime

ASSUME NoFileAssumption == "none" \notin Syncs /\ "none" \notin Grants
ASSUME BudgetAssumption ==
  /\ TTL \in Nat \ {0}
  /\ Budget \in Nat \ {0}
  /\ NotifyBudget \in Nat \ {0}
  /\ MaxTime \in Nat

VARIABLES
  now,        \* the wall clock, of the backend and of the server
  table,      \* the whitelist rows of the pair: of this server, and global
  enrolled,   \* whether the server's token is still valid
  gpc, grant, \* control point of each grant; its clock reading, scope and TTL
  decision, told,       \* the backend's requests, see DecisionRegister
  OnList,     \* the checks whose user the break-glass file names
  InNotify,   \* the checks that read a config in notify mode
  path, tmp,  \* the inodes the cache file and its .tmp name
  content,    \* what each inode holds
  spc, snow, list,      \* of each sync: control point, the clock GET /whitelist
                        \* read, the entries it returned
  fd,         \* the inode it writes to
  cpc, start, \* of each check: control point, start of its call
  loaded,     \* the entries it read from the cache file
  exit,       \* exit code and reason
  granted,    \* history: every expiry an admin ever gave the pair
  cleared,    \* history: syncs begun since the table last became empty and
              \* since two last overlapped
  alone,      \* history: the last sync to begin, if none was running then
  overlapped  \* history: the syncs that began while another was running

grantVars == <<gpc, grant>>
settings  == <<OnList, InNotify>>
fileVars  == <<path, tmp, content, settings>>
syncVars  == <<spc, snow, list, fd>>
checkVars == <<cpc, start, loaded, exit>>
backend   == <<decision, told>>
history   == <<granted, cleared, alone, overlapped>>
vars == <<now, table, enrolled, grantVars, backend, fileVars, syncVars, checkVars,
          history>>

-----------------------------------------------------------------------------
Time == 0 .. MaxTime
Null == -1              \* a permanent entry, or a time nobody read yet
None == "none"          \* no row, no file, no answer
Scopes == {"server", "global"}
Expiry == Int

NoRow == [id |-> None, expiresAt |-> Null]
Row == [id : Grants \cup {None}, expiresAt : Expiry]
Unexpired(expiresAt, at) == expiresAt = Null \/ expiresAt > at

\* A file holds a whole list, nothing yet, or what does not parse: the remains
\* of two writers, or of one that stopped half way.
Content == [kind : {"empty", "whole", "torn"}, entries : SUBSET Expiry]
EmptyFile == [kind |-> "empty", entries |-> {}]
Torn == [kind |-> "torn", entries |-> {}]
Whole(entries) == [kind |-> "whole", entries |-> entries]

Backend == INSTANCE DecisionRegister WITH Reqs <- Checks

-----------------------------------------------------------------------------
(* The admins: POST and DELETE /whitelist, and the servers table *)

BeginGrant(g) ==
  /\ gpc[g] = "idle"
  /\ \E scope \in Scopes, permanent \in BOOLEAN :
       grant' = [grant EXCEPT ![g] =
                   [scope |-> scope, expiresAt |-> IF permanent THEN Null ELSE now + TTL,
                    id |-> None]]
  /\ gpc' = [gpc EXCEPT ![g] = "upsert"]
  /\ UNCHANGED <<now, table, enrolled, backend, fileVars, syncVars, checkVars, history>>

\* UpsertWhitelist: insert, or only refresh the expiry of the row there is.
UpsertWhitelist(g) ==
  LET scope == grant[g].scope
      id == IF table[scope].id = None THEN g ELSE table[scope].id IN
  /\ gpc[g] = "upsert"
  /\ table' = [table EXCEPT ![scope] = [id |-> id, expiresAt |-> grant[g].expiresAt]]
  /\ grant' = [grant EXCEPT ![g].id = id]
  /\ granted' = granted \cup {grant[g].expiresAt}
  /\ cleared' = {}
  /\ gpc' = [gpc EXCEPT ![g] = "readback"]
  /\ UNCHANGED <<now, enrolled, backend, fileVars, syncVars, checkVars, alone,
                 overlapped>>

\* WhitelistByID: a row deleted meanwhile turns the answer into a 500.
GrantReadBack(g) ==
  /\ gpc[g] = "readback"
  /\ gpc' = [gpc EXCEPT ![g] = IF table[grant[g].scope].id = grant[g].id
                               THEN "saved" ELSE "500"]
  /\ UNCHANGED <<now, table, enrolled, grant, backend, fileVars, syncVars, checkVars,
                 history>>

\* DELETE /whitelist/{id}, of a row the app has listed.
DeleteWhitelist(scope) ==
  /\ table[scope].id # None
  /\ table' = [table EXCEPT ![scope] = NoRow]
  /\ UNCHANGED <<now, enrolled, grantVars, backend, fileVars, syncVars, checkVars,
                 history>>

\* The server's row loses its token hash: an operator's statement.
Revoke ==
  /\ enrolled
  /\ enrolled' = FALSE
  /\ UNCHANGED <<now, table, grantVars, backend, fileVars, syncVars, checkVars,
                 history>>

-----------------------------------------------------------------------------
(* ssh-sentinel sync *)

SyncRunning == {"auth", "delete", "select", "open", "write", "rename"}

\* Nothing keeps two runs apart: the timer, the installer, an operator.
BeginSync(s) ==
  LET first == \A t \in Syncs : spc[t] \notin SyncRunning IN
  /\ spc[s] = "idle"
  /\ spc' = [spc EXCEPT ![s] = "auth"]
  /\ cleared' = IF ~ first THEN {}
                ELSE IF \A scope \in Scopes : table[scope].id = None
                THEN cleared \cup {s} ELSE cleared
  /\ alone' = IF first THEN {s} ELSE {}
  /\ overlapped' = IF first THEN overlapped ELSE overlapped \cup {s}
  /\ UNCHANGED <<now, table, enrolled, grantVars, backend, fileVars, snow, list, fd,
                 checkVars, granted>>

\* requireAny, and the clock reading of listWhitelist.  401: exit 1.
SyncAuth(s) ==
  /\ spc[s] = "auth"
  /\ snow' = [snow EXCEPT ![s] = now]
  /\ spc' = [spc EXCEPT ![s] = IF enrolled THEN "delete" ELSE "failed"]
  /\ UNCHANGED <<now, table, enrolled, grantVars, backend, fileVars, list, fd, checkVars,
                 history>>

\* ListWhitelist, the lazy deletion of expired rows.
ListDelete(s) ==
  /\ spc[s] = "delete"
  /\ table' = [scope \in Scopes |->
                 IF Unexpired(table[scope].expiresAt, snow[s]) THEN table[scope] ELSE NoRow]
  /\ spc' = [spc EXCEPT ![s] = "select"]
  /\ UNCHANGED <<now, enrolled, grantVars, backend, fileVars, snow, list, fd, checkVars,
                 history>>

\* The entries GET /whitelist returns to this server: its own and the global ones.
Listed(at) ==
  {table[scope].expiresAt :
     scope \in {sc \in Scopes : table[sc].id # None /\ Unexpired(table[sc].expiresAt, at)}}

\* Mutant: an empty list is taken for nothing to do.
ListSelectSkipsEmpty(s) ==
  /\ spc[s] = "select"
  /\ list' = [list EXCEPT ![s] = Listed(snow[s])]
  /\ spc' = [spc EXCEPT ![s] = IF Listed(snow[s]) = {} THEN "done" ELSE "open"]
  /\ UNCHANGED <<now, table, enrolled, grantVars, backend, fileVars, snow, fd, checkVars,
                 history>>

\* ListWhitelist, the SELECT.  The answer travels for as long as it likes.
ListSelect(s) ==
  /\ spc[s] = "select"
  /\ list' = [list EXCEPT ![s] = Listed(snow[s])]
  /\ spc' = [spc EXCEPT ![s] = "open"]
  /\ UNCHANGED <<now, table, enrolled, grantVars, backend, fileVars, snow, fd, checkVars,
                 history>>

\* Mutant: the cache file itself is opened and truncated.
OpenInPlace(s) ==
  LET inode == IF path = None THEN s ELSE path IN
  /\ spc[s] = "open"
  /\ path' = inode
  /\ tmp' = inode
  /\ content' = [content EXCEPT ![inode] = EmptyFile]
  /\ fd' = [fd EXCEPT ![s] = inode]
  /\ spc' = [spc EXCEPT ![s] = "write"]
  /\ UNCHANGED <<now, table, enrolled, settings, grantVars, backend, snow, list, checkVars,
                 history>>

\* Mutant: a .tmp that is there is not truncated.
OpenTmpKeepsOld(s) ==
  LET inode == IF tmp = None THEN s ELSE tmp IN
  /\ spc[s] = "open"
  /\ tmp' = inode
  /\ fd' = [fd EXCEPT ![s] = inode]
  /\ spc' = [spc EXCEPT ![s] = "write"]
  /\ UNCHANGED <<now, table, enrolled, path, content, settings, grantVars, backend, snow, list,
                 checkVars, history>>

\* SaveCache, os.WriteFile opens .tmp: a new inode, or the one that is there,
\* truncated.  A sync opens one file, so it names the inode it creates.
OpenTmp(s) ==
  LET inode == IF tmp = None THEN s ELSE tmp IN
  /\ spc[s] = "open"
  /\ tmp' = inode
  /\ content' = [content EXCEPT ![inode] = EmptyFile]
  /\ fd' = [fd EXCEPT ![s] = inode]
  /\ spc' = [spc EXCEPT ![s] = "write"]
  /\ UNCHANGED <<now, table, enrolled, path, settings, grantVars, backend, snow, list, checkVars,
                 history>>

\* os.WriteFile writes at its own offset 0: over another writer's longer list
\* a tail of that list stays.
WriteTmp(s) ==
  LET old == content[fd[s]] IN
  /\ spc[s] = "write"
  /\ \E new \in {Whole(list[s])} \cup (IF old \in {EmptyFile, Whole(list[s])} THEN {} ELSE {Torn}) :
       content' = [content EXCEPT ![fd[s]] = new]
  /\ spc' = [spc EXCEPT ![s] = "rename"]
  /\ UNCHANGED <<now, table, enrolled, path, tmp, settings, grantVars, backend, snow, list, fd,
                 checkVars, history>>

\* os.Rename: whatever .tmp names now; exit 1 when it names nothing.
RenameTmp(s) ==
  /\ spc[s] = "rename"
  /\ \/ /\ tmp # None
        /\ path' = tmp
        /\ tmp' = None
        /\ spc' = [spc EXCEPT ![s] = "done"]
     \/ /\ tmp = None
        /\ spc' = [spc EXCEPT ![s] = "failed"]
        /\ UNCHANGED <<path, tmp>>
  /\ UNCHANGED <<now, table, enrolled, content, settings, grantVars, backend, snow, list, fd,
                 checkVars, history>>

\* No config, no answer, a full disk, a kill: exit 1, and .tmp stays as it is,
\* half written perhaps, but a failed rename removes it.
SyncFails(s) ==
  /\ spc[s] \in SyncRunning
  /\ spc' = [spc EXCEPT ![s] = "failed"]
  /\ tmp' \in IF spc[s] = "rename" THEN {tmp, None} ELSE {tmp}
  /\ content' \in IF spc[s] = "write"
                  THEN {content, [content EXCEPT ![fd[s]] = Torn]} ELSE {content}
  /\ UNCHANGED <<now, table, enrolled, path, settings, grantVars, backend, snow, list, fd,
                 checkVars, history>>

-----------------------------------------------------------------------------
(* ssh-sentinel check *)

Exit(k, code, reason) ==
  /\ exit' = [exit EXCEPT ![k] = [code |-> code, reason |-> reason, at |-> now]]
  /\ cpc' = [cpc EXCEPT ![k] = "done"]

CallBudget(k) == IF k \in InNotify /\ NotifyBudget < Budget THEN NotifyBudget ELSE Budget

\* Run up to the call.  The break-glass file comes first; without a usable
\* config there is no client, the mode is enforce and only the cache is left.
\* MaxTime leaves room for the whole call.
BeginCheck(k) ==
  /\ cpc[k] = "idle"
  /\ now + Budget <= MaxTime
  /\ \/ /\ k \in OnList
        /\ Exit(k, "allow", "breakglass")
        /\ UNCHANGED start
     \/ /\ k \notin OnList
        /\ cpc' = [cpc EXCEPT ![k] = "call"]
        /\ start' = [start EXCEPT ![k] = now]
        /\ UNCHANGED exit
     \/ /\ k \notin OnList
        /\ cpc' = [cpc EXCEPT ![k] = "load"]
        /\ UNCHANGED <<start, exit>>
  /\ UNCHANGED <<now, table, enrolled, grantVars, backend, fileVars, syncVars, loaded,
                 history>>

\* The backend receives the request, the agent still waiting or not.  The
\* whitelist rule looks the pair up (FindWhitelist); an earlier rule may
\* refuse it first, and notify mode opens no pending request.
ServerReceives(k) ==
  /\ start[k] # Null
  /\ enrolled
  /\ exit[k].reason # "rejected"
  /\ Backend!Open(k)
  /\ decision'[k] \in
       {"blocked_ip", "blocked_geo"} \cup
       (IF Listed(now) # {} THEN {"whitelisted"}
        ELSE IF k \in InNotify THEN {"notified"} ELSE {"pending"})
  /\ UNCHANGED <<now, table, enrolled, grantVars, fileVars, syncVars, checkVars,
                 history>>

\* A verdict or the deadline closes the request, and the handler answers.
ServerCloses(k) ==
  /\ Backend!Close(k)
  /\ UNCHANGED <<now, table, enrolled, grantVars, fileVars, syncVars, checkVars,
                 history>>

\* 200: the verdict is applied, in notify mode it is only logged.
AnswerArrives(k) ==
  /\ cpc[k] = "call"
  /\ Backend!Tell(k)
  /\ IF k \in InNotify
     THEN Exit(k, "allow", "notify")
     ELSE Exit(k, IF told'[k] = "approve" THEN "allow" ELSE "deny", "answer")
  /\ UNCHANGED <<now, table, enrolled, grantVars, fileVars, syncVars, start, loaded,
                 history>>

\* Any 4xx, of a revoked token or of a request the backend does not accept: no
\* request is opened, and the refusal is final, whatever the cache says.
AnswerRejected(k) ==
  /\ cpc[k] = "call"
  /\ decision[k] = "absent"
  /\ Exit(k, IF k \in InNotify THEN "allow" ELSE "deny", "rejected")
  /\ UNCHANGED <<now, table, enrolled, grantVars, backend, fileVars, syncVars, start, loaded,
                 history>>

\* No usable answer: the cache decides, in notify mode nothing does.
NoAnswer(k) ==
  /\ cpc[k] = "call"
  /\ \/ /\ k \in InNotify
        /\ Exit(k, "allow", "unreachable")
     \/ /\ k \notin InNotify
        /\ cpc' = [cpc EXCEPT ![k] = "load"]
        /\ UNCHANGED exit
  /\ UNCHANGED <<now, table, enrolled, grantVars, backend, fileVars, syncVars, start, loaded,
                 history>>

\* DNS, connect, TLS, 5xx, a malformed body.
CallFails(k) == NoAnswer(k)

\* Mutant: the call has no deadline.
CallTimesOutNever(k) == now < 0 /\ NoAnswer(k)

\* The context's deadline.
CallTimesOut(k) == now >= start[k] + CallBudget(k) /\ NoAnswer(k)

\* LoadCache: what cannot be parsed is an empty cache.
LoadCache(k) ==
  /\ cpc[k] = "load"
  /\ loaded' = [loaded EXCEPT ![k] =
                  IF path # None /\ content[path].kind = "whole" THEN content[path].entries ELSE {}]
  /\ cpc' = [cpc EXCEPT ![k] = "decide"]
  /\ UNCHANGED <<now, table, enrolled, grantVars, backend, fileVars, syncVars, start, exit,
                 history>>

\* Mutant: the expiry is not looked at.
AllowsExpired(entries, at) == entries # {}

\* Cache.Allows
Allows(entries, at) == \E e \in entries : Unexpired(e, at)

DecideFromCache(k) ==
  /\ cpc[k] = "decide"
  /\ IF Allows(loaded[k], now)
     THEN Exit(k, "allow", "cache")
     ELSE Exit(k, "deny", "unreachable")
  /\ UNCHANGED <<now, table, enrolled, grantVars, backend, fileVars, syncVars, start, loaded,
                 history>>

-----------------------------------------------------------------------------
Tick ==
  /\ now < MaxTime
  /\ now' = now + 1
  /\ UNCHANGED <<table, enrolled, grantVars, backend, fileVars, syncVars, checkVars,
                 history>>

\* Every call has returned and the bounded clock is at its end.
Quiescent ==
  /\ now = MaxTime
  /\ \A g \in Grants : gpc[g] \notin {"upsert", "readback"}
  /\ \A s \in Syncs : spc[s] \notin SyncRunning
  /\ \A k \in Checks : cpc[k] \in {"idle", "done"}
  /\ UNCHANGED vars

\* OnList and InNotify: the files an operator wrote name any users, and set either
\* of the two modes.
Init ==
  /\ now = 0
  /\ table = [scope \in Scopes |-> NoRow]
  /\ enrolled = TRUE
  /\ gpc = [g \in Grants |-> "idle"]
  /\ grant = [g \in Grants |-> [scope |-> "server", expiresAt |-> Null, id |-> None]]
  /\ Backend!Init
  /\ OnList \in SUBSET Checks
  /\ InNotify \in SUBSET Checks
  /\ path = None
  /\ tmp = None
  /\ content = [s \in Syncs |-> EmptyFile]
  /\ spc = [s \in Syncs |-> "idle"]
  /\ snow = [s \in Syncs |-> Null]
  /\ list = [s \in Syncs |-> {}]
  /\ fd = [s \in Syncs |-> s]
  /\ cpc = [k \in Checks |-> "idle"]
  /\ start = [k \in Checks |-> Null]
  /\ loaded = [k \in Checks |-> {}]
  /\ exit = [k \in Checks |-> [code |-> None, reason |-> None, at |-> Null]]
  /\ granted = {}
  /\ cleared = {}
  /\ alone = {}
  /\ overlapped = {}

AdminStep ==
  \/ \E g \in Grants : BeginGrant(g) \/ UpsertWhitelist(g) \/ GrantReadBack(g)
  \/ \E scope \in Scopes : DeleteWhitelist(scope)
  \/ Revoke

SyncStep(s) ==
  \/ BeginSync(s) \/ SyncAuth(s) \/ ListDelete(s) \/ ListSelect(s)
  \/ OpenTmp(s) \/ WriteTmp(s) \/ RenameTmp(s) \/ SyncFails(s)

ServerStep(k) == ServerReceives(k) \/ ServerCloses(k)

\* What a check does by itself once it has begun.
CheckStep(k) == CallTimesOut(k) \/ LoadCache(k) \/ DecideFromCache(k)

CallStep(k) == AnswerArrives(k) \/ AnswerRejected(k) \/ CallFails(k)

Next ==
  \/ AdminStep
  \/ \E s \in Syncs : SyncStep(s)
  \/ \E k \in Checks : BeginCheck(k) \/ ServerStep(k) \/ CallStep(k) \/ CheckStep(k)
  \/ Tick
  \/ Quiescent

Spec == Init /\ [][Next]_vars

\* The agent's process runs and time passes; the backend owes it nothing.
FairSpec == Spec /\ WF_vars(Tick) /\ \A k \in Checks : WF_vars(CheckStep(k))

-----------------------------------------------------------------------------
(* Properties *)

\* Types of the table, the files and the locals of every process.
TypeOK ==
  /\ now \in Time
  /\ table \in [Scopes -> Row]
  /\ enrolled \in BOOLEAN
  /\ gpc \in [Grants -> {"idle", "upsert", "readback", "saved", "500"}]
  /\ grant \in [Grants -> [scope : Scopes, expiresAt : Expiry, id : Grants \cup {None}]]
  /\ decision \in [Checks -> Backend!Closed \cup {"absent", "pending"}]
  /\ told \in [Checks -> {None, "approve", "deny"}]
  /\ OnList \subseteq Checks
  /\ InNotify \subseteq Checks
  /\ path \in Syncs \cup {None}
  /\ tmp \in Syncs \cup {None}
  /\ content \in [Syncs -> Content]
  /\ spc \in [Syncs -> SyncRunning \cup {"idle", "done", "failed"}]
  /\ snow \in [Syncs -> Time \cup {Null}]
  /\ list \in [Syncs -> SUBSET Expiry]
  /\ fd \in [Syncs -> Syncs]
  /\ cpc \in [Checks -> {"idle", "call", "load", "decide", "done"}]
  /\ start \in [Checks -> Time \cup {Null}]
  /\ loaded \in [Checks -> SUBSET Expiry]
  /\ exit \in [Checks -> [code : {None, "allow", "deny"},
                          reason : {None, "breakglass", "answer", "notify", "rejected",
                                    "unreachable", "cache"},
                          at : Time \cup {Null}]]
  /\ granted \subseteq Expiry
  /\ cleared \subseteq Syncs
  /\ alone \subseteq Syncs
  /\ overlapped \subseteq Syncs

\* SaveCache "writes the cache atomically (temp file, then rename)": the cache
\* file is at every instant a whole list.
SaveCacheAtomic == path # None => content[path].kind = "whole"

\* As long as no two runs of sync have overlapped, that is so: whatever sync is
\* doing to the file, and wherever one was killed.
CacheIsWhole == overlapped = {} => SaveCacheAtomic

\* The next sync repairs the cache: whatever overlapping runs left in the file
\* and in its .tmp, one that began when none was running and has succeeded
\* leaves a whole list, until another begins.
NextSyncRepairs ==
  \A s \in alone : spc[s] = "done" => path # None /\ SaveCacheAtomic

\* Fail closed: outside notify mode and the break-glass list, a login gets in
\* only if the history says it was granted, or by an entry an admin gave that
\* had not expired by the server's clock when the check ended, although the
\* table, a list in flight and the cache file lie between the two.
FailClosed ==
  \A k \in Checks \ (OnList \cup InNotify) :
    exit[k].code = "allow" =>
      \/ decision[k] \in Backend!Granting
      \/ \E e \in granted : Unexpired(e, exit[k].at)

\* Deletions arrive: once a sync that began after the last entry was deleted
\* has succeeded, with no other beside it and no entry given since, the cache
\* lets nobody in.
DeletionReachesCache ==
  (\E s \in cleared : spc[s] = "done")
    => path # None /\ content[path].entries = {}

\* The PAM hook always returns: a check that began ends, even when the backend
\* never answers and nothing else in the system moves.
CheckEnds == \A k \in Checks : cpc[k] \notin {"idle", "done"} ~> cpc[k] = "done"
===============================================================================
