--------------------------- MODULE AgentAccessProofs ---------------------------
(***************************************************************************)
(* Theorems about AgentAccess, for every number of checks, syncs and       *)
(* grants, every budget and every lifetime of an entry.                    *)
(***************************************************************************)
EXTENDS AgentAccess, TLAPS

\* Every copy of an entry, in the table, in flight and on disk, is of an expiry
\* an admin gave.
CopiesGranted ==
  /\ \A scope \in Scopes : table[scope].id # None => table[scope].expiresAt \in granted
  /\ \A s \in Syncs : list[s] \subseteq granted /\ content[s].entries \subseteq granted
  /\ \A k \in Checks : loaded[k] \subseteq granted

ClosedInv == TypeOK /\ CopiesGranted /\ FailClosed

\* The initial state satisfies the invariant.
LEMMA ClosedInit == Init => ClosedInv
BY BudgetAssumption
   DEF Init, ClosedInv, TypeOK, CopiesGranted, FailClosed,
       Backend!Init, Backend!Closed,
       Backend!ByRule, Backend!ByAdmin, Time, Null, None, NoRow, Row, Scopes, Expiry,
       EmptyFile, Content, SyncRunning

\* The list the backend returns to the server holds granted expiries only.
LEMMA ListedGranted ==
  ASSUME TypeOK, CopiesGranted, NEW at
  PROVE  Listed(at) \subseteq granted /\ Listed(at) \subseteq Expiry
BY DEF Listed, CopiesGranted, TypeOK, Row

\* A step of an admin keeps the invariant.
LEMMA ClosedAdmin == ClosedInv /\ AdminStep => ClosedInv'
<1> SUFFICES ASSUME ClosedInv, AdminStep PROVE ClosedInv'
  OBVIOUS
<1> USE BudgetAssumption
    DEF ClosedInv, TypeOK, CopiesGranted, grantVars, fileVars, syncVars, checkVars,
        backend, history, settings
<1>1. ASSUME NEW g \in Grants, BeginGrant(g) PROVE ClosedInv'
  <2>1. grant' \in [Grants -> [scope : Scopes, expiresAt : Expiry, id : Grants \cup {None}]]
    BY <1>1 DEF BeginGrant, Expiry, Time, Null
  <2>2. QED
    BY <1>1, <2>1 DEF BeginGrant, FailClosed
<1>2. ASSUME NEW g \in Grants, UpsertWhitelist(g) PROVE ClosedInv'
  <2> DEFINE scope == grant[g].scope
             id == IF table[scope].id = None THEN g ELSE table[scope].id
  <2>1. scope \in Scopes /\ id \in Grants \cup {None} /\ grant[g].expiresAt \in Expiry
    BY DEF Row
  <2>2. /\ table' = [table EXCEPT ![scope] = [id |-> id, expiresAt |-> grant[g].expiresAt]]
        /\ grant' = [grant EXCEPT ![g].id = id]
        /\ granted' = granted \cup {grant[g].expiresAt}
        /\ cleared' = {}
        /\ gpc' = [gpc EXCEPT ![g] = "readback"]
        /\ UNCHANGED <<now, enrolled, decision, told, OnList, InNotify, path, tmp, content, spc,
                       snow, list, fd, cpc, start, loaded, exit, alone, overlapped>>
    BY <1>2 DEF UpsertWhitelist
  <2> HIDE DEF scope, id
  <2>3. table' \in [Scopes -> Row]
    BY <2>1, <2>2 DEF Row
  <2>4. grant' \in [Grants -> [scope : Scopes, expiresAt : Expiry, id : Grants \cup {None}]]
    BY <2>1, <2>2
  <2>5. TypeOK'
    BY <2>1, <2>2, <2>3, <2>4
  <2>6. CopiesGranted'
    BY <2>1, <2>2
  <2>7. FailClosed'
    BY <2>2 DEF FailClosed
  <2>8. QED
    BY <2>5, <2>6, <2>7
<1>3. ASSUME NEW g \in Grants, GrantReadBack(g) PROVE ClosedInv'
  BY <1>3 DEF GrantReadBack, FailClosed
<1>4. ASSUME NEW scope \in Scopes, DeleteWhitelist(scope) PROVE ClosedInv'
  BY <1>4 DEF DeleteWhitelist, FailClosed, NoRow, Row, Null, Expiry, None
<1>5. CASE Revoke
  BY <1>5 DEF Revoke, FailClosed
<1>6. QED
  BY <1>1, <1>2, <1>3, <1>4, <1>5 DEF AdminStep

\* A step of a sync keeps the invariant.
LEMMA ClosedSync ==
  ASSUME ClosedInv, NEW s \in Syncs, SyncStep(s)
  PROVE  ClosedInv'
<1> USE BudgetAssumption
    DEF ClosedInv, TypeOK, CopiesGranted, grantVars, fileVars, syncVars, checkVars,
        backend, history, settings
<1>1. CASE BeginSync(s)
  BY <1>1 DEF BeginSync, FailClosed, SyncRunning
<1>2. CASE SyncAuth(s)
  BY <1>2 DEF SyncAuth, FailClosed, SyncRunning
<1>3. CASE ListDelete(s)
  BY <1>3 DEF ListDelete, FailClosed, SyncRunning, NoRow, Row, Null, Expiry, None
<1>4. CASE ListSelect(s)
  <2>1. Listed(snow[s]) \subseteq granted /\ Listed(snow[s]) \subseteq Expiry
    BY ListedGranted
  <2>2. list' = [list EXCEPT ![s] = Listed(snow[s])]
    BY <1>4 DEF ListSelect
  <2>3. list' \in [Syncs -> SUBSET Expiry] /\ \A t \in Syncs : list'[t] \subseteq granted
    BY <2>1, <2>2
  <2>4. QED
    BY <1>4, <2>3 DEF ListSelect, FailClosed, SyncRunning
<1>5. CASE OpenTmp(s)
  <2> DEFINE inode == IF tmp = None THEN s ELSE tmp
  <2>1. inode \in Syncs
    OBVIOUS
  <2>2. /\ tmp' = inode
        /\ content' = [content EXCEPT ![inode] = EmptyFile]
        /\ fd' = [fd EXCEPT ![s] = inode]
        /\ spc' = [spc EXCEPT ![s] = "write"]
        /\ UNCHANGED <<now, table, enrolled, OnList, InNotify, path, gpc, grant, decision, told,
                       snow, list, cpc, start, loaded, exit, granted, cleared, alone,
                       overlapped>>
    BY <1>5 DEF OpenTmp
  <2> HIDE DEF inode
  <2>3. TypeOK'
    BY <2>1, <2>2 DEF EmptyFile, Content, SyncRunning
  <2>4. CopiesGranted'
    BY <2>1, <2>2 DEF EmptyFile
  <2>5. QED
    BY <2>2, <2>3, <2>4 DEF FailClosed
<1>6. CASE WriteTmp(s)
  <2>1. PICK new \in {Whole(list[s]), Torn} : content' = [content EXCEPT ![fd[s]] = new]
    BY <1>6 DEF WriteTmp
  <2>2. new \in Content /\ new.entries \subseteq granted
    BY <2>1 DEF Whole, Torn, Content
  <2>3. content' \in [Syncs -> Content] /\ \A t \in Syncs : content'[t].entries \subseteq granted
    BY <2>1, <2>2
  <2>4. QED
    BY <1>6, <2>3 DEF WriteTmp, FailClosed, SyncRunning
<1>7. CASE RenameTmp(s)
  <2>1. path' \in Syncs \cup {None} /\ tmp' \in Syncs \cup {None}
    BY <1>7 DEF RenameTmp
  <2>2. spc' \in [Syncs -> SyncRunning \cup {"idle", "done", "failed"}]
    BY <1>7 DEF RenameTmp
  <2>3. QED
    BY <1>7, <2>1, <2>2 DEF RenameTmp, FailClosed
<1>8. CASE SyncFails(s)
  <2>1. content' \in {content, [content EXCEPT ![fd[s]] = Torn]}
    BY <1>8 DEF SyncFails
  <2> DEFINE torn == Torn
  <2>0. torn \in Content /\ torn.entries = {}
    BY DEF Torn, Content
  <2> HIDE DEF torn
  <2>2. content' \in [Syncs -> Content] /\ \A t \in Syncs : content'[t].entries \subseteq granted
    <3>1. content' \in {content, [content EXCEPT ![fd[s]] = torn]}
      BY <2>1 DEF torn
    <3>2. QED
      BY <2>0, <3>1, SMTT(40)
  <2>3. tmp' \in Syncs \cup {None}
    BY <1>8 DEF SyncFails
  <2>4. spc' \in [Syncs -> SyncRunning \cup {"idle", "done", "failed"}]
    BY <1>8 DEF SyncFails
  <2>5. TypeOK' /\ CopiesGranted'
    BY <1>8, <2>2, <2>3, <2>4 DEF SyncFails
  <2>6. QED
    BY <1>8, <2>5 DEF SyncFails, FailClosed
<1>9. QED
  BY <1>1, <1>2, <1>3, <1>4, <1>5, <1>6, <1>7, <1>8 DEF SyncStep

ExitType ==
  [code : {None, "allow", "deny"},
   reason : {None, "breakglass", "answer", "notify", "rejected", "unreachable", "cache"},
   at : Time \cup {Null}]

\* A check that exits keeps the types.
LEMMA ExitTypes ==
  ASSUME TypeOK, NEW k \in Checks, NEW code \in {"allow", "deny"},
         NEW reason \in {"breakglass", "answer", "notify", "rejected", "unreachable", "cache"},
         Exit(k, code, reason)
  PROVE  /\ exit' \in [Checks -> ExitType]
         /\ cpc' \in [Checks -> {"idle", "call", "load", "decide", "done"}]
         /\ exit' = [exit EXCEPT ![k] = [code |-> code, reason |-> reason, at |-> now]]
<1>1. [code |-> code, reason |-> reason, at |-> now] \in ExitType
  BY DEF ExitType, TypeOK
<1>2. exit \in [Checks -> ExitType]
  BY DEF ExitType, TypeOK
<1>3. exit' \in [Checks -> ExitType]
  BY <1>1, <1>2 DEF Exit
<1>4. QED
  BY <1>3 DEF Exit, TypeOK

\* A step of the backend or of a check keeps the invariant.
LEMMA ClosedCheck ==
  ASSUME ClosedInv, NEW k \in Checks,
         BeginCheck(k) \/ ServerStep(k) \/ CallStep(k) \/ CheckStep(k)
  PROVE  ClosedInv'
<1> USE BudgetAssumption
    DEF ClosedInv, TypeOK, CopiesGranted, grantVars, fileVars, syncVars, checkVars,
        backend, history, settings
<1>1. CASE BeginCheck(k)
  <2>1. CASE k \in OnList
    <3>1. Exit(k, "allow", "breakglass")
      BY <1>1, <2>1 DEF BeginCheck
    <3>2. /\ exit' \in [Checks -> ExitType]
          /\ cpc' \in [Checks -> {"idle", "call", "load", "decide", "done"}]
          /\ exit' = [exit EXCEPT ![k] = [code |-> "allow", reason |-> "breakglass", at |-> now]]
      BY <3>1, ExitTypes
    <3>3. TypeOK' /\ CopiesGranted'
      BY <1>1, <2>1, <3>2 DEF BeginCheck, ExitType
    <3>4. FailClosed'
      BY <1>1, <2>1, <3>2 DEF BeginCheck, FailClosed
    <3>5. QED
      BY <3>3, <3>4
  <2>2. CASE k \notin OnList
    <3>1. exit' = exit
      BY <1>1, <2>2 DEF BeginCheck
    <3>2. \/ cpc' = [cpc EXCEPT ![k] = "call"] /\ start' = [start EXCEPT ![k] = now]
          \/ cpc' = [cpc EXCEPT ![k] = "load"] /\ start' = start
      BY <1>1, <2>2 DEF BeginCheck
    <3>3. cpc' \in [Checks -> {"idle", "call", "load", "decide", "done"}]
      BY <3>2
    <3>4. start' \in [Checks -> Time \cup {Null}]
      BY <3>2
    <3>5. QED
      BY <1>1, <3>1, <3>3, <3>4 DEF BeginCheck, FailClosed
  <2>3. QED
    BY <2>1, <2>2
<1>2. CASE ServerReceives(k)
  <2>1. \E d \in Backend!ByRule \cup {"pending"} : decision' = [decision EXCEPT ![k] = d]
    BY <1>2 DEF ServerReceives, Backend!Open
  <2>2. decision[k] = "absent" /\ told' = told
    BY <1>2 DEF ServerReceives, Backend!Open
  <2>3. QED
    BY <1>2, <2>1, <2>2
       DEF ServerReceives, FailClosed, Backend!Closed, Backend!ByRule, Backend!ByAdmin,
           Backend!Granting
<1>3. CASE ServerCloses(k)
  <2>1. \E d \in Backend!ByAdmin \cup {"timeout"} : decision' = [decision EXCEPT ![k] = d]
    BY <1>3 DEF ServerCloses, Backend!Close
  <2>2. decision[k] = "pending" /\ told' = told
    BY <1>3 DEF ServerCloses, Backend!Close
  <2>3. QED
    BY <1>3, <2>1, <2>2
       DEF ServerCloses, FailClosed, Backend!Closed, Backend!ByRule, Backend!ByAdmin,
           Backend!Granting
<1>4. CASE AnswerArrives(k)
  <2>1. told' = [told EXCEPT ![k] = IF decision[k] \in Backend!Granting THEN "approve" ELSE "deny"]
    BY <1>4 DEF AnswerArrives, Backend!Tell
  <2>2. decision' = decision
    BY <1>4 DEF AnswerArrives, Backend!Tell
  <2>3. PICK code \in {"allow", "deny"}, reason \in {"answer", "notify"} :
          /\ Exit(k, code, reason)
          /\ k \notin InNotify /\ code = "allow" => told'[k] = "approve"
    BY <1>4 DEF AnswerArrives
  <2>4. /\ exit' \in [Checks -> ExitType]
        /\ cpc' \in [Checks -> {"idle", "call", "load", "decide", "done"}]
        /\ exit' = [exit EXCEPT ![k] = [code |-> code, reason |-> reason, at |-> now]]
    BY <2>3, ExitTypes
  <2>5. TypeOK' /\ CopiesGranted'
    BY <1>4, <2>1, <2>2, <2>4 DEF AnswerArrives, ExitType
  <2>6. k \notin InNotify /\ code = "allow" => decision[k] \in Backend!Granting
    BY <2>1, <2>3
  <2>7. FailClosed'
    BY <1>4, <2>2, <2>4, <2>6 DEF AnswerArrives, FailClosed
  <2>8. QED
    BY <2>5, <2>7
<1>5. CASE AnswerRejected(k)
  BY <1>5 DEF AnswerRejected, Exit, FailClosed
<1>6. CASE NoAnswer(k)
  <2>1. CASE k \in InNotify
    <3>1. Exit(k, "allow", "unreachable")
      BY <1>6, <2>1 DEF NoAnswer
    <3>2. /\ exit' \in [Checks -> ExitType]
          /\ cpc' \in [Checks -> {"idle", "call", "load", "decide", "done"}]
          /\ exit' = [exit EXCEPT ![k] = [code |-> "allow", reason |-> "unreachable", at |-> now]]
      BY <3>1, ExitTypes
    <3>3. TypeOK' /\ CopiesGranted'
      BY <1>6, <3>2 DEF NoAnswer, ExitType
    <3>4. FailClosed'
      BY <1>6, <2>1, <3>2 DEF NoAnswer, FailClosed
    <3>5. QED
      BY <3>3, <3>4
  <2>2. CASE k \notin InNotify
    BY <1>6, <2>2 DEF NoAnswer, FailClosed
  <2>3. QED
    BY <2>1, <2>2
<1>7. CASE LoadCache(k)
  <2> DEFINE found == IF path # None /\ content[path].kind = "whole"
                      THEN content[path].entries ELSE {}
  <2>1. found \subseteq granted /\ found \subseteq Expiry
    BY DEF Content
  <2>2. loaded' = [loaded EXCEPT ![k] = found]
    BY <1>7 DEF LoadCache
  <2> HIDE DEF found
  <2>3. loaded' \in [Checks -> SUBSET Expiry] /\ \A j \in Checks : loaded'[j] \subseteq granted
    BY <2>1, <2>2
  <2>4. QED
    BY <1>7, <2>3 DEF LoadCache, FailClosed
<1>8. CASE DecideFromCache(k)
  <2>1. Allows(loaded[k], now) => \E e \in granted : Unexpired(e, now)
    BY DEF Allows
  <2>2. PICK code \in {"allow", "deny"}, reason \in {"cache", "unreachable"} :
          Exit(k, code, reason) /\ (code = "allow" => Allows(loaded[k], now))
    BY <1>8 DEF DecideFromCache
  <2>3. /\ exit' \in [Checks -> ExitType]
        /\ cpc' \in [Checks -> {"idle", "call", "load", "decide", "done"}]
        /\ exit' = [exit EXCEPT ![k] = [code |-> code, reason |-> reason, at |-> now]]
    BY <2>2, ExitTypes
  <2>4. TypeOK' /\ CopiesGranted'
    BY <1>8, <2>3 DEF DecideFromCache, ExitType
  <2>5. FailClosed'
    BY <1>8, <2>1, <2>2, <2>3 DEF DecideFromCache, FailClosed
  <2>6. QED
    BY <2>4, <2>5
<1>9. QED
  BY <1>1, <1>2, <1>3, <1>4, <1>5, <1>6, <1>7, <1>8
     DEF ServerStep, CallStep, CheckStep, CallFails, CallTimesOut

\* Every step keeps the invariant.
LEMMA ClosedStep == ClosedInv /\ [Next]_vars => ClosedInv'
<1> SUFFICES ASSUME ClosedInv, [Next]_vars PROVE ClosedInv'
  OBVIOUS
<1>1. CASE Tick
  BY <1>1, BudgetAssumption
     DEF Tick, ClosedInv, TypeOK, CopiesGranted, FailClosed, Time,
         grantVars, fileVars, syncVars, checkVars, backend, history, settings
<1>2. CASE UNCHANGED vars
  BY <1>2
     DEF vars, ClosedInv, TypeOK, CopiesGranted, FailClosed,
         grantVars, fileVars, syncVars, checkVars, backend, history, settings
<1>3. QED
  BY <1>1, <1>2, ClosedAdmin, ClosedSync, ClosedCheck DEF Next, Quiescent

\* However checks, syncs, grants, deletions and a revocation overlap, and
\* whatever fails: nobody outside the break-glass list and notify mode gets in
\* without a grant (FailClosed).
THEOREM NobodyWithoutGrant == Spec => []FailClosed
<1>1. ClosedInv => FailClosed
  BY DEF ClosedInv
<1>2. QED
  BY ClosedInit, ClosedStep, <1>1, PTL DEF Spec

\* Inodes, descriptors, lists and exits keep to their types for any number of
\* checks and syncs (TypeOK).
THEOREM AgentTypes == Spec => []TypeOK
<1>1. ClosedInv => TypeOK
  BY DEF ClosedInv
<1>2. QED
  BY ClosedInit, ClosedStep, <1>1, PTL DEF Spec

-----------------------------------------------------------------------------
(* The cache file, until two runs of sync overlap *)

\* One sync at a time; an inode is named only once its creator has opened it;
\* .tmp is never the cache file itself, and is what the running sync writes.
FileInv ==
  /\ \A s, t \in Syncs : spc[s] \in SyncRunning /\ spc[t] \in SyncRunning => s = t
  /\ path # None => path # tmp
  /\ \A s \in Syncs :
       spc[s] \in {"idle", "auth", "delete", "select", "open"} => path # s /\ tmp # s
  /\ \A s \in Syncs : spc[s] = "write" => tmp = fd[s] /\ content[tmp] = EmptyFile
  /\ \A s \in Syncs : spc[s] = "rename" => tmp = fd[s] /\ content[tmp].kind = "whole"

FileVars == <<path, tmp, content, spc, fd, overlapped, alone, list>>

\* A step of a sync keeps the cache file whole.
LEMMA WholeSync ==
  ASSUME TypeOK, FileInv, SaveCacheAtomic, overlapped' = {}, NEW s \in Syncs, SyncStep(s)
  PROVE  FileInv' /\ SaveCacheAtomic'
<1> USE NoFileAssumption DEF TypeOK, FileInv, SaveCacheAtomic, SyncRunning, fileVars
<1>1. CASE BeginSync(s)
  <2>1. \A t \in Syncs : spc[t] \notin SyncRunning
    BY <1>1 DEF BeginSync
  <2>2. spc[s] = "idle" /\ spc' = [spc EXCEPT ![s] = "auth"] /\ UNCHANGED <<path, tmp, content, fd>>
    BY <1>1 DEF BeginSync
  <2>3. QED
    BY <2>1, <2>2
<1>2. CASE SyncAuth(s)
  BY <1>2 DEF SyncAuth
<1>3. CASE ListDelete(s)
  BY <1>3 DEF ListDelete
<1>4. CASE ListSelect(s)
  BY <1>4 DEF ListSelect
<1>5. CASE OpenTmp(s)
  <2> DEFINE inode == IF tmp = None THEN s ELSE tmp
  <2>1. inode \in Syncs /\ inode # path
    BY <1>5 DEF OpenTmp, None
  <2>2. /\ tmp' = inode
        /\ content' = [content EXCEPT ![inode] = EmptyFile]
        /\ fd' = [fd EXCEPT ![s] = inode]
        /\ spc[s] = "open"
        /\ spc' = [spc EXCEPT ![s] = "write"]
        /\ path' = path
    BY <1>5 DEF OpenTmp
  <2>3. \A t \in Syncs : t # s => spc[t] \notin SyncRunning /\ inode # None /\ (inode = t => tmp = t)
    BY <2>1, <2>2 DEF None
  <2> HIDE DEF inode
  <2>4. FileInv'
    BY <2>1, <2>2, <2>3
  <2>5. SaveCacheAtomic'
    BY <2>1, <2>2
  <2>6. QED
    BY <2>4, <2>5
<1>6. CASE WriteTmp(s)
  <2>1. tmp = fd[s] /\ content[fd[s]] = EmptyFile /\ path # fd[s] /\ fd[s] \in Syncs
    BY <1>6 DEF WriteTmp, None
  <2>2. content' = [content EXCEPT ![fd[s]] = Whole(list[s])]
    BY <1>6, <2>1 DEF WriteTmp
  <2>3. content'[fd[s]].kind = "whole"
    BY <2>1, <2>2 DEF Whole
  <2>4. QED
    BY <1>6, <2>1, <2>2, <2>3 DEF WriteTmp
<1>7. CASE RenameTmp(s)
  <2>1. /\ tmp = fd[s] /\ content[tmp].kind = "whole" /\ tmp \in Syncs /\ tmp # None
        /\ \A t \in Syncs \ {s} : spc[t] \notin SyncRunning
    BY <1>7 DEF RenameTmp, None
  <2>2. /\ path' = tmp /\ tmp' = None /\ spc' = [spc EXCEPT ![s] = "done"]
        /\ content' = content /\ fd' = fd
    BY <1>7, <2>1 DEF RenameTmp
  <2>3. \A t \in Syncs : spc'[t] \notin SyncRunning /\ t # None
    BY <2>1, <2>2 DEF None
  <2>4. \A t \in Syncs : spc'[t] = "idle" => t # tmp
    BY <2>1, <2>2
  <2>5. QED
    BY <2>1, <2>2, <2>3, <2>4
<1>8. CASE SyncFails(s)
  <2>1. content' \in {content, [content EXCEPT ![fd[s]] = Torn]}
    BY <1>8 DEF SyncFails
  <2>2. tmp' = tmp \/ tmp' = None
    BY <1>8 DEF SyncFails
  <2>3. content' # content => tmp = fd[s]
    BY <1>8 DEF SyncFails
  <2>4. path # None => content'[path] = content[path]
    BY <2>1, <2>3
  <2>5. spc' = [spc EXCEPT ![s] = "failed"] /\ path' = path /\ fd' = fd /\ spc[s] \in SyncRunning
    BY <1>8 DEF SyncFails
  <2>6. \A t \in Syncs : spc'[t] \notin {"write", "rename"}
    BY <2>5
  <2>7. FileInv'
    BY <2>2, <2>5, <2>6 DEF None
  <2>8. QED
    BY <2>4, <2>5, <2>7
<1>9. QED
  BY <1>1, <1>2, <1>3, <1>4, <1>5, <1>6, <1>7, <1>8 DEF SyncStep

\* Only a sync touches the cache file, its .tmp and where the syncs are.
LEMMA OthersLeaveFiles ==
  ASSUME Next, ~ \E s \in Syncs : SyncStep(s)
  PROVE  UNCHANGED FileVars
<1> USE DEF FileVars, fileVars, syncVars, history
<1>1. CASE AdminStep
  BY <1>1 DEF AdminStep, BeginGrant, UpsertWhitelist, GrantReadBack, DeleteWhitelist, Revoke
<1>2. ASSUME NEW k \in Checks, BeginCheck(k) \/ ServerStep(k) \/ CallStep(k) \/ CheckStep(k)
      PROVE  UNCHANGED FileVars
  BY <1>2
     DEF BeginCheck, ServerStep, ServerReceives, ServerCloses, CallStep, AnswerArrives,
         AnswerRejected, CallFails, NoAnswer, CheckStep, CallTimesOut, LoadCache, DecideFromCache
<1>3. CASE Tick
  BY <1>3 DEF Tick
<1>4. CASE Quiescent
  BY <1>4 DEF Quiescent, vars
<1>5. QED
  BY <1>1, <1>2, <1>3, <1>4 DEF Next

\* Once two runs have overlapped they have for good.
LEMMA OverlapStays ==
  ASSUME NEW s \in Syncs, SyncStep(s), overlapped' = {}
  PROVE  overlapped = {}
BY DEF SyncStep, BeginSync, SyncAuth, ListDelete, ListSelect, OpenTmp, WriteTmp, RenameTmp,
       SyncFails, history

\* Until two runs of sync overlap, the cache file is whole at every instant,
\* for any number of runs killed or failing at any point (CacheIsWhole).
THEOREM CacheStaysWhole == Spec => []CacheIsWhole
<1> DEFINE Inv == ClosedInv /\ (overlapped = {} => FileInv /\ SaveCacheAtomic)
<1>1. Init => Inv
  BY ClosedInit, NoFileAssumption
     DEF Init, FileInv, SaveCacheAtomic, SyncRunning, None
<1>2. Inv /\ [Next]_vars => Inv'
  <2> SUFFICES ASSUME Inv, [Next]_vars PROVE Inv'
    OBVIOUS
  <2>1. ClosedInv'
    BY ClosedStep
  <2>2. ASSUME NEW s \in Syncs, SyncStep(s), overlapped' = {}
        PROVE  FileInv' /\ SaveCacheAtomic'
    BY <2>2, OverlapStays, WholeSync DEF ClosedInv
  <2>3. CASE ~ \E s \in Syncs : SyncStep(s)
    <3>1. UNCHANGED FileVars
      BY <2>3, OthersLeaveFiles DEF FileVars, vars, fileVars, syncVars, history
    <3>2. QED
      BY <2>1, <3>1 DEF FileVars, FileInv, SaveCacheAtomic
  <2>4. QED
    BY <2>1, <2>2, <2>3
<1>3. Inv => CacheIsWhole
  BY DEF CacheIsWhole
<1>4. QED
  BY <1>1, <1>2, <1>3, PTL DEF Spec

-----------------------------------------------------------------------------
(* A sync that began alone *)

\* Nobody runs beside it, so the .tmp it truncated is its own until the rename.
RepairInv ==
  \A s \in alone :
    /\ \A t \in Syncs \ {s} : spc[t] \notin SyncRunning
    /\ spc[s] = "write" => tmp = fd[s] /\ content[tmp] = EmptyFile
    /\ spc[s] = "rename" => tmp = fd[s] /\ content[tmp].kind = "whole"
    /\ spc[s] = "done" => path # None /\ SaveCacheAtomic

\* A step of a sync keeps that.
LEMMA RepairSync ==
  ASSUME TypeOK, RepairInv, NEW s \in Syncs, SyncStep(s)
  PROVE  RepairInv'
<1> USE NoFileAssumption DEF TypeOK, RepairInv, SyncRunning, fileVars, history
<1>1. CASE BeginSync(s)
  BY <1>1 DEF BeginSync
<1>2. CASE SyncAuth(s)
  BY <1>2 DEF SyncAuth, SaveCacheAtomic
<1>3. CASE ListDelete(s)
  BY <1>3 DEF ListDelete, SaveCacheAtomic
<1>4. CASE ListSelect(s)
  BY <1>4 DEF ListSelect, SaveCacheAtomic
<1>5. CASE OpenTmp(s)
  <2> DEFINE inode == IF tmp = None THEN s ELSE tmp
  <2>1. /\ tmp' = inode
        /\ content' = [content EXCEPT ![inode] = EmptyFile]
        /\ fd' = [fd EXCEPT ![s] = inode]
        /\ spc[s] = "open"
        /\ spc' = [spc EXCEPT ![s] = "write"]
        /\ alone' = alone
    BY <1>5 DEF OpenTmp
  <2>2. inode \in Syncs
    BY DEF None
  <2> HIDE DEF inode
  <2>3. \A t \in alone : t = s
    BY <2>1
  <2>4. QED
    BY <2>1, <2>2, <2>3
<1>6. CASE WriteTmp(s)
  <2>1. spc[s] = "write" /\ spc' = [spc EXCEPT ![s] = "rename"] /\ UNCHANGED <<tmp, fd, alone>>
    BY <1>6 DEF WriteTmp
  <2>2. \A t \in alone : t = s
    BY <2>1
  <2>3. s \in alone => content'[tmp].kind = "whole"
    BY <1>6, <2>1 DEF WriteTmp, Whole
  <2>4. QED
    BY <2>1, <2>2, <2>3
<1>7. CASE RenameTmp(s)
  <2>1. spc[s] = "rename" /\ UNCHANGED <<content, fd, alone>>
    BY <1>7 DEF RenameTmp
  <2>2. \A t \in alone : t = s
    BY <2>1
  <2>3. s \in alone => tmp # None /\ content[tmp].kind = "whole"
    BY <2>1 DEF None
  <2>4. CASE tmp # None /\ path' = tmp /\ spc' = [spc EXCEPT ![s] = "done"]
    BY <2>1, <2>2, <2>3, <2>4 DEF SaveCacheAtomic
  <2>5. CASE tmp = None /\ spc' = [spc EXCEPT ![s] = "failed"]
    BY <2>1, <2>2, <2>5
  <2>6. QED
    BY <1>7, <2>4, <2>5 DEF RenameTmp
<1>8. CASE SyncFails(s)
  <2>1. spc[s] \in SyncRunning /\ spc' = [spc EXCEPT ![s] = "failed"] /\ alone' = alone
    BY <1>8 DEF SyncFails
  <2>2. \A t \in alone : t = s
    BY <2>1
  <2>3. QED
    BY <2>1, <2>2
<1>9. QED
  BY <1>1, <1>2, <1>3, <1>4, <1>5, <1>6, <1>7, <1>8 DEF SyncStep

\* Whatever overlapping or killed runs left behind, a sync that began alone and
\* succeeded leaves a whole list in the cache file (NextSyncRepairs).
THEOREM SyncRepairs == Spec => []NextSyncRepairs
<1> DEFINE Inv == ClosedInv /\ RepairInv
<1>1. Init => Inv
  BY ClosedInit DEF Init, RepairInv
<1>2. Inv /\ [Next]_vars => Inv'
  <2> SUFFICES ASSUME Inv, [Next]_vars PROVE Inv'
    OBVIOUS
  <2>1. ClosedInv'
    BY ClosedStep
  <2>2. ASSUME NEW s \in Syncs, SyncStep(s) PROVE RepairInv'
    BY <2>2, RepairSync DEF ClosedInv
  <2>3. CASE ~ \E s \in Syncs : SyncStep(s)
    <3>1. UNCHANGED FileVars
      BY <2>3, OthersLeaveFiles DEF FileVars, vars, fileVars, syncVars, history
    <3>2. QED
      BY <2>1, <3>1 DEF FileVars, RepairInv, SaveCacheAtomic
  <2>4. QED
    BY <2>1, <2>2, <2>3
<1>3. Inv => NextSyncRepairs
  BY DEF NextSyncRepairs, RepairInv
<1>4. QED
  BY <1>1, <1>2, <1>3, PTL DEF Spec

-----------------------------------------------------------------------------
(* Syncs that began on an empty table *)

\* While any such sync counts the table is empty, it is the only one that runs,
\* and what it carries to the file is the empty list.
DeletionInv ==
  /\ (\E scope \in Scopes : table[scope].id # None) => cleared = {}
  /\ cleared # {} => \A s, t \in Syncs :
       spc[s] \in SyncRunning /\ spc[t] \in SyncRunning => s = t /\ s \in cleared
  /\ \A s \in cleared :
       /\ spc[s] \in {"open", "write", "rename"} => list[s] = {}
       /\ spc[s] = "write" => tmp = fd[s] /\ content[tmp] = EmptyFile
       /\ spc[s] = "rename" => tmp = fd[s] /\ content[tmp].entries = {}
  /\ DeletionReachesCache

\* A step of an admin keeps that: a new entry starts the count anew.
LEMMA DeletionAdmin ==
  ASSUME TypeOK, DeletionInv, AdminStep
  PROVE  DeletionInv'
<1> USE DEF DeletionInv, DeletionReachesCache, fileVars, syncVars, history
<1>1. ASSUME NEW g \in Grants, UpsertWhitelist(g) PROVE DeletionInv'
  BY <1>1 DEF UpsertWhitelist
<1>2. ASSUME NEW scope \in Scopes, DeleteWhitelist(scope) PROVE DeletionInv'
  BY <1>2 DEF DeleteWhitelist, NoRow, TypeOK
<1>3. ASSUME NEW g \in Grants, BeginGrant(g) \/ GrantReadBack(g) PROVE DeletionInv'
  BY <1>3 DEF BeginGrant, GrantReadBack
<1>4. CASE Revoke
  BY <1>4 DEF Revoke, grantVars
<1>5. QED
  BY <1>1, <1>2, <1>3, <1>4 DEF AdminStep

\* A step of a sync keeps that.
LEMMA DeletionSync ==
  ASSUME TypeOK, DeletionInv, NEW s \in Syncs, SyncStep(s)
  PROVE  DeletionInv'
<1> USE NoFileAssumption DEF SyncRunning, fileVars, history
<1>1. CASE BeginSync(s)
  <2> DEFINE first == \A t \in Syncs : spc[t] \notin SyncRunning
             empty == \A scope \in Scopes : table[scope].id = None
  <2>1. /\ spc[s] = "idle" /\ spc' = [spc EXCEPT ![s] = "auth"]
        /\ cleared' = IF ~ first THEN {} ELSE IF empty THEN cleared \cup {s} ELSE cleared
        /\ UNCHANGED <<table, path, tmp, content, list, fd>>
    BY <1>1 DEF BeginSync
  <2>2. CASE cleared' = {}
    BY <2>1, <2>2 DEF DeletionInv, DeletionReachesCache
  <2>3. CASE first /\ empty /\ cleared' = cleared \cup {s}
    BY <2>1, <2>3 DEF DeletionInv, DeletionReachesCache, TypeOK
  <2>4. cleared' = {} \/ (first /\ empty /\ cleared' = cleared \cup {s})
    BY <2>1 DEF DeletionInv
  <2>5. QED
    BY <2>2, <2>3, <2>4
<1>2. CASE SyncAuth(s)
  BY <1>2 DEF SyncAuth, DeletionInv, DeletionReachesCache, TypeOK
<1>3. CASE ListDelete(s)
  <2>1. \A scope \in Scopes : table[scope].id = None => table'[scope].id = None
    BY <1>3 DEF ListDelete, NoRow
  <2>2. QED
    BY <1>3, <2>1 DEF ListDelete, DeletionInv, DeletionReachesCache, TypeOK
<1>4. CASE ListSelect(s)
  <2>1. cleared # {} => Listed(snow[s]) = {}
    BY DEF DeletionInv, Listed
  <2>2. QED
    BY <1>4, <2>1 DEF ListSelect, DeletionInv, DeletionReachesCache, TypeOK
<1>5. CASE OpenTmp(s)
  <2> DEFINE inode == IF tmp = None THEN s ELSE tmp
  <2>1. /\ tmp' = inode
        /\ content' = [content EXCEPT ![inode] = EmptyFile]
        /\ fd' = [fd EXCEPT ![s] = inode]
        /\ spc[s] = "open"
        /\ spc' = [spc EXCEPT ![s] = "write"]
        /\ UNCHANGED <<table, path, list, cleared>>
    BY <1>5 DEF OpenTmp
  <2>2. inode \in Syncs
    BY DEF None, TypeOK
  <2> HIDE DEF inode
  <2>3. content'[inode] = EmptyFile /\ EmptyFile.entries = {}
    BY <2>1, <2>2 DEF TypeOK, EmptyFile
  <2>4. path # None /\ content[path].entries = {} => content'[path].entries = {}
    BY <2>1, <2>3 DEF TypeOK
  <2>5. QED
    BY <2>1, <2>2, <2>3, <2>4 DEF DeletionInv, DeletionReachesCache, TypeOK
<1>6. CASE WriteTmp(s)
  <2>1. /\ spc[s] = "write" /\ spc' = [spc EXCEPT ![s] = "rename"]
        /\ UNCHANGED <<table, path, tmp, list, fd, cleared>>
    BY <1>6 DEF WriteTmp
  <2>2. PICK new \in {Whole(list[s]), Torn} : content' = [content EXCEPT ![fd[s]] = new]
    BY <1>6 DEF WriteTmp
  <2>3. cleared # {} => new.entries = {}
    BY <2>1 DEF DeletionInv, Whole, Torn
  <2>4. cleared # {} => content'[fd[s]].entries = {}
    BY <2>2, <2>3 DEF TypeOK
  <2>5. cleared # {} /\ path # None /\ content[path].entries = {} => content'[path].entries = {}
    BY <2>2, <2>4 DEF TypeOK
  <2>6. QED
    BY <2>1, <2>4, <2>5 DEF DeletionInv, DeletionReachesCache, TypeOK
<1>7. CASE RenameTmp(s)
  <2>1. spc[s] = "rename" /\ UNCHANGED <<table, content, list, fd, cleared>>
    BY <1>7 DEF RenameTmp
  <2>2. cleared # {} => s \in cleared /\ tmp # None /\ content[tmp].entries = {}
    BY <2>1 DEF DeletionInv, TypeOK, None
  <2>3. CASE tmp # None /\ path' = tmp /\ spc' = [spc EXCEPT ![s] = "done"]
    BY <2>1, <2>2, <2>3 DEF DeletionInv, DeletionReachesCache, TypeOK
  <2>4. CASE tmp = None /\ spc' = [spc EXCEPT ![s] = "failed"]
    BY <2>1, <2>2, <2>4 DEF DeletionInv, DeletionReachesCache, TypeOK
  <2>5. QED
    BY <1>7, <2>3, <2>4 DEF RenameTmp
<1>8. CASE SyncFails(s)
  <2>1. /\ spc[s] \in SyncRunning /\ spc' = [spc EXCEPT ![s] = "failed"]
        /\ UNCHANGED <<table, path, list, fd, cleared>>
    BY <1>8 DEF SyncFails
  <2>2. path # None /\ content[path].entries = {} => content'[path].entries = {}
    BY <1>8 DEF SyncFails, TypeOK, Torn
  <2>3. QED
    BY <2>1, <2>2 DEF DeletionInv, DeletionReachesCache, TypeOK
<1>9. QED
  BY <1>1, <1>2, <1>3, <1>4, <1>5, <1>6, <1>7, <1>8 DEF SyncStep

\* Nothing else touches the table, the files or the count.
LEMMA OthersLeaveTable ==
  ASSUME Next, ~ AdminStep, ~ \E s \in Syncs : SyncStep(s)
  PROVE  UNCHANGED <<table, cleared>>
<1> USE DEF history
<1>1. ASSUME NEW k \in Checks, BeginCheck(k) \/ ServerStep(k) \/ CallStep(k) \/ CheckStep(k)
      PROVE  UNCHANGED <<table, cleared>>
  BY <1>1
     DEF BeginCheck, ServerStep, ServerReceives, ServerCloses, CallStep, AnswerArrives,
         AnswerRejected, CallFails, NoAnswer, CheckStep, CallTimesOut, LoadCache, DecideFromCache
<1>2. CASE Tick
  BY <1>2 DEF Tick
<1>3. CASE Quiescent
  BY <1>3 DEF Quiescent, vars
<1>4. QED
  BY <1>1, <1>2, <1>3 DEF Next

\* A deletion of the last entry reaches the cache file with the first sync that
\* begins after it and succeeds, whatever else the admins and earlier syncs did
\* (DeletionReachesCache).
THEOREM DeletionArrives == Spec => []DeletionReachesCache
<1> DEFINE Inv == ClosedInv /\ DeletionInv
<1>1. Init => Inv
  BY ClosedInit DEF Init, DeletionInv, DeletionReachesCache
<1>2. Inv /\ [Next]_vars => Inv'
  <2> SUFFICES ASSUME Inv, [Next]_vars PROVE Inv'
    OBVIOUS
  <2>1. ClosedInv'
    BY ClosedStep
  <2>2. CASE AdminStep
    BY <2>1, <2>2, DeletionAdmin DEF ClosedInv
  <2>3. CASE \E s \in Syncs : SyncStep(s)
    BY <2>1, <2>3, DeletionSync DEF ClosedInv
  <2>4. CASE ~ AdminStep /\ ~ \E s \in Syncs : SyncStep(s)
    <3>1. UNCHANGED <<FileVars, table, cleared>>
      BY <2>4, OthersLeaveFiles, OthersLeaveTable DEF FileVars, vars, fileVars, syncVars, history
    <3>2. QED
      BY <2>1, <3>1 DEF FileVars, DeletionInv, DeletionReachesCache
  <2>5. QED
    BY <2>2, <2>3, <2>4
<1>3. Inv => DeletionReachesCache
  BY DEF DeletionInv
<1>4. QED
  BY <1>1, <1>2, <1>3, PTL DEF Spec

-----------------------------------------------------------------------------
(* The backend as the agent sees it *)

\* The server meets the backend only as the write-once decision register that
\* RequestLifecycle implements (theorem Refinement there): a login is decided
\* once and its check is told only that decision, whatever the whitelist, the
\* syncs and the cache do around it.
THEOREM BackendIsRegister == Spec => Backend!Spec
<1>1. [Next]_vars => [Backend!Next]_(Backend!vars)
  <2> SUFFICES ASSUME [Next]_vars PROVE [Backend!Next]_(Backend!vars)
    OBVIOUS
  <2>1. CASE AdminStep \/ Tick \/ UNCHANGED vars
    BY <2>1 DEF AdminStep, BeginGrant, UpsertWhitelist, GrantReadBack, DeleteWhitelist, Revoke,
                Tick, vars, backend, Backend!vars
  <2>2. ASSUME NEW s \in Syncs, SyncStep(s) PROVE UNCHANGED Backend!vars
    BY <2>2 DEF SyncStep, BeginSync, SyncAuth, ListDelete, ListSelect, OpenTmp, WriteTmp,
                RenameTmp, SyncFails, backend, Backend!vars
  <2>3. ASSUME NEW k \in Checks,
               \/ BeginCheck(k) \/ AnswerRejected(k) \/ CallFails(k) \/ CheckStep(k)
        PROVE  UNCHANGED Backend!vars
    BY <2>3 DEF BeginCheck, AnswerRejected, CallFails, NoAnswer, CheckStep, CallTimesOut,
                LoadCache, DecideFromCache, backend, Backend!vars
  <2>4. ASSUME NEW k \in Checks, ServerStep(k) \/ AnswerArrives(k) PROVE Backend!Next
    BY <2>4 DEF ServerStep, ServerReceives, ServerCloses, AnswerArrives, Backend!Next
  <2>5. QED
    BY <2>1, <2>2, <2>3, <2>4 DEF Next, CallStep, Quiescent
<1>2. Init => Backend!Init
  BY DEF Init
<1>3. QED
  BY <1>1, <1>2, PTL DEF Spec, Backend!Spec
===============================================================================
