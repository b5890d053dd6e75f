---------------------------- MODULE AdmissionProofs ----------------------------
(***************************************************************************)
(* Theorems about Admission, for every number of requests, admin calls,    *)
(* addresses and countries.                                                *)
(***************************************************************************)
EXTENDS Admission, TLAPS

\* The parts of TypeOK: the tables, the requests and the admin calls.
TableTypes ==
  /\ now \in Time
  /\ changes \in 0 .. MaxChanges
  /\ rules \in [Countries -> Creates \cup {None}]
  /\ block \in [Addrs -> Expiry]
  /\ whitelist \in Expiry
ReqTypes ==
  /\ rpc \in [Reqs -> {"new", "insert", "row", "500"} \cup Evaluating]
  /\ source \in [Reqs -> [addr : Addrs, canonical : {TRUE}] \cup {NoSource}]
  /\ country \in [Reqs -> Countries \cup {None}]
  /\ clock \in [Reqs -> Time]
  /\ status \in [Reqs -> {None, "blocked_ip", "blocked_geo", "whitelisted", "notified",
                          "pending"}]
AdminTypes ==
  /\ create \in [Creates -> [country : Countries \cup {None},
                             answer : {None, "201", "409", "500"}]]
  /\ delete \in [Deletes -> [id : Creates \cup {None}, answer : {None, "204", "404", "500"}]]
  /\ asked \subseteq Creates
HistoryTypes ==
  /\ held \in [Reqs -> SUBSET {"ip", "geo", "whitelist"}]
  /\ ever \in [Reqs -> SUBSET {"ip", "geo", "whitelist"}]

Obeyed(r) ==
  /\ "ip" \in held[r] => status[r] = "blocked_ip"
  /\ "geo" \in held[r] => status[r] \in {"blocked_ip", "blocked_geo"}
  /\ "whitelist" \in held[r] => status[r] \notin {"notified", "pending"}

Founded(r) ==
  /\ status[r] = "blocked_ip" => "ip" \in ever[r]
  /\ status[r] = "blocked_geo" => "geo" \in ever[r]
  /\ status[r] = "whitelisted" => "whitelist" \in ever[r]

\* During an evaluation the present matches lie between those that always held
\* and those that ever did, so a rule that was asked and missed no longer holds
\* throughout, and one that was asked and hit has held once.
RuleInv(r) ==
  /\ rpc[r] \in Evaluating => held[r] \subseteq Matching(r) /\ Matching(r) \subseteq ever[r]
  /\ rpc[r] \in {"ip", "hit"} => source[r] # NoSource
  /\ rpc[r] \in {"geo", "whitelist"} => "ip" \notin held[r]
  /\ rpc[r] = "whitelist" => "geo" \notin held[r]
  /\ rpc[r] = "hit" => "ip" \in ever[r]
  /\ rpc[r] = "insert" => Obeyed(r) /\ Founded(r)

\* An accepted rule stands until a DELETE has its id.
AdminInv ==
  /\ \A c \in Creates : create[c].answer = "201" => create[c].country \in Countries
  /\ \A d \in Deletes : delete[d].id # None => delete[d].id \in asked
  /\ AcceptedRuleHolds

Inv == TypeOK /\ AdminInv /\ \A r \in Reqs : RuleInv(r)

\* Which rules match, one by one.
LEMMA Matches ==
  ASSUME NEW r \in Reqs
  PROVE  /\ Matching(r) \subseteq {"ip", "geo", "whitelist"}
         /\ "ip" \in Matching(r)
              <=> source[r] # NoSource /\ Unexpired(block[source[r].addr], clock[r])
         /\ "geo" \in Matching(r) <=> country[r] # None /\ rules[country[r]] # None
         /\ "whitelist" \in Matching(r) <=> Unexpired(whitelist, clock[r])
BY DEF Matching

\* The same after a step.
LEMMA MatchesNext ==
  ASSUME NEW r \in Reqs
  PROVE  /\ Matching(r)' \subseteq {"ip", "geo", "whitelist"}
         /\ "ip" \in Matching(r)'
              <=> source'[r] # NoSource /\ Unexpired(block'[source'[r].addr], clock'[r])
         /\ "geo" \in Matching(r)' <=> country'[r] # None /\ rules'[country'[r]] # None
         /\ "whitelist" \in Matching(r)' <=> Unexpired(whitelist', clock'[r])
BY DEF Matching, Unexpired

\* TypeOK is the conjunction of its parts.
LEMMA TypeParts == TypeOK <=> TableTypes /\ ReqTypes /\ AdminTypes /\ HistoryTypes
BY DEF TypeOK, TableTypes, ReqTypes, AdminTypes, HistoryTypes

\* The same after a step.
LEMMA TypePartsNext == TypeOK' <=> TableTypes' /\ ReqTypes' /\ AdminTypes' /\ HistoryTypes'
BY DEF TypeOK, TableTypes, ReqTypes, AdminTypes, HistoryTypes

\* The requests keep their types where they are left alone.
LEMMA ReqTypesKept == ASSUME ReqTypes, UNCHANGED reqVars PROVE ReqTypes'
BY DEF ReqTypes, reqVars

\* So do the admin calls.
LEMMA AdminTypesKept == ASSUME AdminTypes, UNCHANGED adminVars PROVE AdminTypes'
BY DEF AdminTypes, adminVars

\* The histories keep their types.
LEMMA ObserveTypes ==
  ASSUME TypeOK, Observe
  PROVE  HistoryTypes'
<1>1. \A r \in Reqs : Matching(r)' \subseteq {"ip", "geo", "whitelist"}
  BY MatchesNext
<1>2. QED
  BY <1>1 DEF TypeOK, Observe, HistoryTypes

\* What Observe records of one request.
LEMMA Observed ==
  ASSUME TypeOK, Observe, NEW r \in Reqs
  PROVE  /\ rpc'[r] \notin Evaluating => held'[r] = held[r] /\ ever'[r] = ever[r]
         /\ rpc'[r] \in Evaluating =>
              /\ held'[r] \subseteq Matching(r)'
              /\ rpc[r] \in Evaluating => held'[r] = held[r] \cap Matching(r)'
              /\ ever'[r] = ever[r] \cup Matching(r)'
<1>1. held'[r] =
        IF rpc'[r] \notin Evaluating THEN held[r]
        ELSE IF rpc[r] \in Evaluating THEN held[r] \cap Matching(r)' ELSE Matching(r)'
  BY DEF Observe
<1>2. ever'[r] = IF rpc'[r] \in Evaluating THEN ever[r] \cup Matching(r)' ELSE ever[r]
  BY DEF Observe
<1>3. CASE rpc'[r] \notin Evaluating
  BY <1>1, <1>2, <1>3
<1>4. CASE rpc'[r] \in Evaluating
  <2>1. CASE rpc[r] \in Evaluating
    BY <1>1, <1>2, <1>4, <2>1
  <2>2. CASE rpc[r] \notin Evaluating
    BY <1>1, <1>2, <1>4, <2>2
  <2>3. QED
    BY <2>1, <2>2
<1>5. QED
  BY <1>3, <1>4

\* A step that leaves a request's locals alone keeps what is known of it.
LEMMA BystanderKeeps ==
  ASSUME TypeOK, Observe, NEW r \in Reqs, RuleInv(r), rpc'[r] = rpc[r],
         source'[r] = source[r], status'[r] = status[r]
  PROVE  RuleInv(r)'
<1>1. CASE rpc[r] \in Evaluating
  BY <1>1, Observed DEF RuleInv, Evaluating, NoSource, None
<1>2. CASE rpc[r] \notin Evaluating
  BY <1>2, Observed DEF RuleInv, Evaluating, Obeyed, Founded
<1>3. QED
  BY <1>1, <1>2

\* A canonical spelling is kept, and there is still none of no address.
LEMMA Normalized ==
  ASSUME NEW raw \in Spelling \cup {NoSource}
  PROVE  /\ Normalize(raw) \in [addr : Addrs, canonical : {TRUE}] \cup {NoSource}
         /\ Normalize(raw) = NoSource <=> raw = NoSource
<1>1. CASE raw = NoSource
  <2>1. /\ DOMAIN NoSource = {"addr", "canonical"}
        /\ NoSource.canonical = TRUE
        /\ NoSource = [f \in {"addr", "canonical"} |-> NoSource[f]]
    BY DEF NoSource
  <2>2. Normalize(NoSource) = NoSource
    BY <2>1 DEF Normalize
  <2>3. QED
    BY <1>1, <2>2
<1>2. CASE raw \in Spelling
  <2>1. raw.addr \in Addrs
    BY <1>2 DEF Spelling
  <2>2. Normalize(raw) \in [addr : Addrs, canonical : {TRUE}] /\ Normalize(raw).addr = raw.addr
    BY <1>2 DEF Normalize, Spelling
  <2>3. NoSource.addr \notin Addrs
    BY NamesAssumption DEF NoSource, None
  <2>4. QED
    BY <2>1, <2>2, <2>3
<1>3. QED
  BY <1>1, <1>2

\* The initial state satisfies the invariant.
LEMMA InitInv == Init => Inv
<1> SUFFICES ASSUME Init PROVE Inv
  OBVIOUS
<1>1. TypeOK
  BY BoundsAssumption
     DEF Init, TypeOK, Time, Expiry, Never, Null, NoSource, None, Evaluating
<1>2. AdminInv
  BY DEF Init, AdminInv, AcceptedRuleHolds, None
<1>3. \A r \in Reqs : RuleInv(r)
  BY DEF Init, RuleInv, Evaluating
<1>4. QED
  BY <1>1, <1>2, <1>3 DEF Inv

\* A step of the evaluation keeps the invariant.
LEMMA EvaluationKeepsInv ==
  ASSUME Inv, NEW r \in Reqs,
         Receive(r) \/ EvaluateIP(r) \/ RecordHit(r) \/ EvaluateGeo(r) \/ EvaluateWhitelist(r)
  PROVE  Inv'
<1>0. TypeOK /\ AdminInv /\ \A x \in Reqs : RuleInv(x)
  BY DEF Inv
<1>1. UNCHANGED <<now, changes, rules, block, whitelist, create, delete, asked>> /\ Observe
  BY DEF Receive, EvaluateIP, RecordHit, EvaluateGeo, EvaluateWhitelist, Rule, tables,
         adminVars
<1>2. AdminInv'
  BY <1>0, <1>1 DEF AdminInv, AcceptedRuleHolds
<1>3. \A x \in Reqs \ {r} : rpc'[x] = rpc[x] /\ source'[x] = source[x] /\ status'[x] = status[x]
  BY <1>0
     DEF Receive, EvaluateIP, RecordHit, EvaluateGeo, EvaluateWhitelist, Rule, Goto,
         TypeOK
<1>4. \A x \in Reqs \ {r} : RuleInv(x)'
  BY <1>0, <1>1, <1>3, BystanderKeeps
<1>5. TypeOK' /\ RuleInv(r)'
  <2>1. CASE Receive(r)
    <3>1. PICK raw \in Spelling \cup {NoSource}, c \in Countries \cup {None} :
            /\ source' = [source EXCEPT ![r] = Normalize(raw)]
            /\ country' = [country EXCEPT ![r] = c]
            /\ rpc' = [rpc EXCEPT ![r] = IF raw = NoSource THEN "geo" ELSE "ip"]
      BY <2>1 DEF Receive, Goto
    <3>2. TypeOK'
      BY <1>0, <1>1, <2>1, <3>1, Normalized, ObserveTypes
         DEF Receive, HistoryTypes, TypeOK, Evaluating
    <3>3. source'[r] = Normalize(raw) /\ rpc'[r] = (IF raw = NoSource THEN "geo" ELSE "ip")
      BY <1>0, <3>1 DEF TypeOK
    <3>4. raw = NoSource => "ip" \notin Matching(r)'
      BY <3>3, Normalized, MatchesNext
    <3>5. RuleInv(r)'
      BY <1>0, <1>1, <3>3, <3>4, Normalized, Observed DEF RuleInv, Evaluating
    <3>6. QED
      BY <3>2, <3>5
  <2>2. CASE EvaluateIP(r)
    <3>1. TypeOK'
      BY <1>0, <1>1, <2>2, ObserveTypes
         DEF HistoryTypes, EvaluateIP, Goto, TypeOK, Evaluating
    <3>2. rpc[r] = "ip" /\ rpc'[r] = (IF BlockedIPByIP(r) THEN "hit" ELSE "geo")
          /\ source' = source /\ clock' = clock
      BY <1>0, <2>2 DEF EvaluateIP, Goto, TypeOK
    <3>3. BlockedIPByIP(r) <=> "ip" \in Matching(r)
      BY <1>0, <3>2, Matches DEF BlockedIPByIP, RuleInv, TypeOK, NoSource
    <3>4. "ip" \in Matching(r) <=> "ip" \in Matching(r)'
      BY <1>1, <3>2, Matches, MatchesNext
    <3>5. RuleInv(r)'
      BY <1>0, <1>1, <3>2, <3>3, <3>4, Observed DEF RuleInv, Evaluating
    <3>6. QED
      BY <3>1, <3>5
  <2>3. CASE RecordHit(r)
    <3>1. TypeOK'
      BY <1>0, <1>1, <2>3, ObserveTypes
         DEF HistoryTypes, RecordHit, Rule, Goto, TypeOK, Evaluating
    <3>2. rpc[r] = "hit" /\ rpc'[r] = "insert" /\ status'[r] = "blocked_ip"
      BY <1>0, <2>3 DEF RecordHit, Rule, Goto, TypeOK
    <3>3. RuleInv(r)'
      BY <1>0, <1>1, <3>2, Observed DEF RuleInv, Evaluating, Obeyed, Founded
    <3>4. QED
      BY <3>1, <3>3
  <2>4. CASE EvaluateGeo(r)
    <3>1. TypeOK'
      BY <1>0, <1>1, <2>4, ObserveTypes
         DEF HistoryTypes, EvaluateGeo, Rule, Goto, TypeOK, Evaluating
    <3>2. /\ rpc[r] = "geo" /\ country' = country
          /\ GeoRuleByCountry(r) => rpc'[r] = "insert" /\ status'[r] = "blocked_geo"
          /\ ~ GeoRuleByCountry(r) => rpc'[r] = "whitelist"
      BY <1>0, <2>4 DEF EvaluateGeo, Rule, Goto, TypeOK
    <3>3. /\ GeoRuleByCountry(r) <=> "geo" \in Matching(r)
          /\ "geo" \in Matching(r) <=> "geo" \in Matching(r)'
      BY <1>1, <3>2, Matches, MatchesNext DEF GeoRuleByCountry
    <3>4. RuleInv(r)'
      BY <1>0, <1>1, <3>2, <3>3, Observed DEF RuleInv, Evaluating, Obeyed, Founded
    <3>5. QED
      BY <3>1, <3>4
  <2>5. CASE EvaluateWhitelist(r)
    <3>0. PICK byMode \in {"notified", "pending"} :
            Rule(r, "whitelist", TRUE,
                 IF FindWhitelist(r) THEN "whitelisted" ELSE byMode, "insert")
      BY <2>5 DEF EvaluateWhitelist
    <3>1. TypeOK'
      <4>1. ReqTypes'
        BY <1>0, <3>0 DEF Rule, Goto, TypeOK, ReqTypes, Evaluating
      <4>2. TableTypes' /\ AdminTypes' /\ HistoryTypes'
        BY <1>0, <1>1, TypeParts, AdminTypesKept, ObserveTypes DEF TableTypes, adminVars
      <4>3. QED
        BY <4>1, <4>2, TypePartsNext
    <3>2. /\ rpc[r] = "whitelist" /\ rpc'[r] = "insert"
          /\ FindWhitelist(r) => status'[r] = "whitelisted"
          /\ ~ FindWhitelist(r) => status'[r] \in {"notified", "pending"}
      BY <1>0, <3>0 DEF Rule, Goto, TypeOK
    <3>3. FindWhitelist(r) <=> "whitelist" \in Matching(r)
      BY Matches DEF FindWhitelist
    <3>4. RuleInv(r)'
      BY <1>0, <1>1, <3>2, <3>3, Observed DEF RuleInv, Evaluating, Obeyed, Founded
    <3>5. QED
      BY <3>1, <3>4
  <2>6. QED
    BY <2>1, <2>2, <2>3, <2>4, <2>5
<1>6. QED
  BY <1>2, <1>4, <1>5 DEF Inv

\* The end of a handler keeps the invariant.
LEMMA LeaveKeepsInv ==
  ASSUME Inv, NEW r \in Reqs, NEW point \in {"row", "500"}, Leave(r, point)
  PROVE  Inv'
<1>0. TypeOK /\ AdminInv /\ \A x \in Reqs : RuleInv(x)
  BY DEF Inv
<1>1. TypeOK'
  <2>1. TableTypes'
    BY <1>0 DEF Leave, TypeOK, TableTypes, tables
  <2>2. 0 \in Time
    BY BoundsAssumption DEF Time
  <2>3. ReqTypes'
    BY <1>0, <2>2 DEF Leave, Goto, TypeOK, ReqTypes
  <2>4. AdminTypes' /\ HistoryTypes'
    BY <1>0, TypeParts, AdminTypesKept DEF Leave, HistoryTypes
  <2>5. QED
    BY <2>1, <2>3, <2>4, TypePartsNext
<1>2. AdminInv'
  BY <1>0 DEF Leave, AdminInv, AcceptedRuleHolds, tables, adminVars
<1>3. rpc'[r] = point
  BY <1>0 DEF Leave, Goto, TypeOK
<1>4. RuleInv(r)'
  BY <1>3 DEF RuleInv, Evaluating
<1>5. ASSUME NEW x \in Reqs \ {r} PROVE RuleInv(x)'
  <2>1. /\ rpc'[x] = rpc[x] /\ source'[x] = source[x] /\ status'[x] = status[x]
        /\ country'[x] = country[x] /\ clock'[x] = clock[x]
        /\ held'[x] = held[x] /\ ever'[x] = ever[x]
        /\ UNCHANGED tables
    BY <1>0, <1>5 DEF Leave, Goto, TypeOK
  <2>2. Matching(x)' = Matching(x)
    BY <2>1 DEF Matching, Unexpired, tables
  <2>3. QED
    BY <1>0, <2>1, <2>2 DEF RuleInv, Obeyed, Founded
<1>6. QED
  BY <1>1, <1>2, <1>4, <1>5 DEF Inv

\* A call of an admin keeps the invariant.
LEMMA AdminKeepsInv ==
  ASSUME Inv,
         \/ \E c \in Creates : CreateGeoRule(c)
         \/ \E d \in Deletes : DeleteGeoRule(d)
         \/ \E a \in Addrs : ChangeBlock(a)
         \/ ChangeWhitelist
  PROVE  Inv'
<1>0. TypeOK /\ AdminInv /\ \A x \in Reqs : RuleInv(x)
  BY DEF Inv
<1>1. UNCHANGED reqVars /\ Observe
  BY DEF CreateGeoRule, DeleteGeoRule, ChangeBlock, ChangeWhitelist
<1>2. \A x \in Reqs : RuleInv(x)'
  BY <1>0, <1>1, BystanderKeeps DEF reqVars
<1>3. ReqTypes' /\ HistoryTypes'
  BY <1>0, <1>1, TypeParts, ReqTypesKept, ObserveTypes
<1>4. ASSUME NEW c \in Creates, CreateGeoRule(c) PROVE TypeOK' /\ AdminInv'
  <2>1. PICK to \in Countries, told \in BOOLEAN, effect \in BOOLEAN :
          /\ told => effect
          /\ create' = [create EXCEPT ![c] = [country |-> to,
               answer |-> IF ~ told THEN "500" ELSE IF rules[to] = None THEN "201" ELSE "409"]]
          /\ rules' = IF rules[to] = None /\ effect THEN [rules EXCEPT ![to] = c] ELSE rules
    BY <1>4 DEF CreateGeoRule
  <2>2. TypeOK'
    BY <1>0, <1>3, <1>4, <2>1, TypePartsNext
       DEF CreateGeoRule, TypeOK, TableTypes, AdminTypes
  <2>3. AdminInv'
    BY <1>0, <1>4, <2>1, NamesAssumption
       DEF CreateGeoRule, TypeOK, AdminInv, AcceptedRuleHolds, None
  <2>4. QED
    BY <2>2, <2>3
<1>5. ASSUME NEW d \in Deletes, DeleteGeoRule(d) PROVE TypeOK' /\ AdminInv'
  <2>1. TypeOK'
    <3>1. rules' \in [Countries -> Creates \cup {None}]
      BY <1>0, <1>5 DEF DeleteGeoRule, TypeOK
    <3>2. TableTypes'
      BY <1>0, <1>5, <3>1 DEF DeleteGeoRule, TypeOK, TableTypes
    <3>3. delete[d] \in [id : Creates \cup {None}, answer : {None, "204", "404", "500"}]
      BY <1>0 DEF TypeOK
    <3>4. delete' \in [Deletes -> [id : Creates \cup {None}, answer : {None, "204", "404", "500"}]]
      BY <1>0, <1>5, <3>3 DEF DeleteGeoRule, TypeOK
    <3>5. AdminTypes'
      BY <1>0, <1>5, <3>4 DEF DeleteGeoRule, TypeOK, AdminTypes
    <3>6. QED
      BY <1>3, <3>2, <3>5, TypePartsNext
  <2>2. AdminInv'
    BY <1>0, <1>5 DEF DeleteGeoRule, Named, TypeOK, AdminInv, AcceptedRuleHolds
  <2>3. QED
    BY <2>1, <2>2
<1>6. ASSUME NEW a \in Addrs, ChangeBlock(a) PROVE TypeOK' /\ AdminInv'
  <2>1. TypeOK'
    <3>1. PICK e \in {Null, now, now + 1} : block' = [block EXCEPT ![a] = e]
      BY <1>6 DEF ChangeBlock
    <3>2. e \in Expiry /\ changes' \in 0 .. MaxChanges
      BY <1>0, <1>6, BoundsAssumption DEF ChangeBlock, TypeOK, Time, Expiry
    <3>3. TableTypes'
      BY <1>0, <1>6, <3>1, <3>2 DEF ChangeBlock, TypeOK, TableTypes
    <3>4. QED
      BY <1>0, <1>3, <1>6, <3>3, TypeParts, TypePartsNext, AdminTypesKept DEF ChangeBlock
  <2>2. AdminInv'
    BY <1>0, <1>6 DEF ChangeBlock, AdminInv, AcceptedRuleHolds, adminVars
  <2>3. QED
    BY <2>1, <2>2
<1>7. CASE ChangeWhitelist
  <2>1. TypeOK'
    <3>1. whitelist' \in Expiry /\ changes' \in 0 .. MaxChanges
      BY <1>0, <1>7, BoundsAssumption DEF ChangeWhitelist, TypeOK, Time, Expiry
    <3>2. TableTypes'
      BY <1>0, <1>7, <3>1 DEF ChangeWhitelist, TypeOK, TableTypes
    <3>3. QED
      BY <1>0, <1>3, <1>7, <3>2, TypeParts, TypePartsNext, AdminTypesKept
         DEF ChangeWhitelist
  <2>2. AdminInv'
    BY <1>0, <1>7 DEF ChangeWhitelist, AdminInv, AcceptedRuleHolds, adminVars
  <2>3. QED
    BY <1>2, <2>1, <2>2 DEF Inv
<1>8. QED
  BY <1>2, <1>4, <1>5, <1>6, <1>7 DEF Inv

\* Every step keeps the invariant.
LEMMA StepKeepsInv == Inv /\ [Next]_vars => Inv'
<1> SUFFICES ASSUME Inv, [Next]_vars PROVE Inv'
  OBVIOUS
<1>0. TypeOK /\ AdminInv /\ \A x \in Reqs : RuleInv(x)
  BY DEF Inv
<1>1. ASSUME UNCHANGED <<tables, reqVars, history>> PROVE \A x \in Reqs : RuleInv(x)'
  BY <1>0, <1>1
     DEF RuleInv, Obeyed, Founded, Matching, Unexpired, tables, reqVars, history
<1>2. ASSUME NEW d \in Deletes, ListGeoRules(d) PROVE Inv'
  <2>1. PICK to \in Countries :
          /\ rules[to] # None
          /\ delete' = [delete EXCEPT ![d].id = rules[to]]
          /\ asked' = asked \cup {rules[to]}
    BY <1>2 DEF ListGeoRules
  <2>2. TypeOK'
    <3>1. rules[to] \in Creates
      BY <1>0, <2>1 DEF TypeOK
    <3>2. delete[d] \in [id : Creates \cup {None}, answer : {None, "204", "404", "500"}]
      BY <1>0 DEF TypeOK
    <3>3. delete' \in [Deletes -> [id : Creates \cup {None}, answer : {None, "204", "404", "500"}]]
      BY <1>0, <2>1, <3>1, <3>2 DEF TypeOK
    <3>4. AdminTypes'
      BY <1>0, <1>2, <2>1, <3>1, <3>3 DEF ListGeoRules, TypeOK, AdminTypes
    <3>5. TableTypes' /\ ReqTypes' /\ HistoryTypes'
      BY <1>0, <1>2, ReqTypesKept, TypeParts
         DEF ListGeoRules, TableTypes, HistoryTypes, tables, history
    <3>6. QED
      BY <3>4, <3>5, TypePartsNext
  <2>3. AdminInv'
    BY <1>0, <1>2, <2>1 DEF ListGeoRules, TypeOK, AdminInv, AcceptedRuleHolds, tables
  <2>4. QED
    BY <1>1, <1>2, <2>2, <2>3 DEF ListGeoRules, Inv
<1>3. CASE Tick
  <2>1. TypeOK'
    <3>1. now' \in Time
      BY <1>0, <1>3, BoundsAssumption DEF Tick, TypeOK, Time
    <3>2. TableTypes' /\ HistoryTypes'
      BY <1>0, <1>3, <3>1, TypeParts DEF Tick, TableTypes, HistoryTypes, tables, history
    <3>3. QED
      BY <1>0, <1>3, <3>2, TypeParts, TypePartsNext, ReqTypesKept, AdminTypesKept DEF Tick
  <2>2. AdminInv'
    BY <1>0, <1>3 DEF Tick, AdminInv, AcceptedRuleHolds, tables, adminVars
  <2>3. QED
    BY <1>1, <1>3, <2>1, <2>2 DEF Tick, Inv
<1>4. CASE UNCHANGED vars
  <2>1. TypeOK' /\ AdminInv'
    BY <1>0, <1>4
       DEF vars, TypeOK, AdminInv, AcceptedRuleHolds, tables, adminVars, reqVars, history
  <2>2. QED
    BY <1>1, <1>4, <2>1 DEF vars, Inv
<1>5. ASSUME NEW r \in Reqs, CreateRequest(r) \/ StoreFails(r) PROVE Inv'
  BY <1>5, LeaveKeepsInv DEF CreateRequest, StoreFails
<1>6. QED
  BY <1>2, <1>3, <1>4, <1>5, EvaluationKeepsInv, AdminKeepsInv DEF Next, Quiescent

\* The invariant holds in every reachable state.
LEMMA AlwaysInv == Spec => []Inv
BY InitInv, StepKeepsInv, PTL DEF Spec

\* Every source address that reaches the rules is in its canonical spelling, and
\* the rest keeps to its types.
THEOREM AdmissionTypes == Spec => []TypeOK
<1>1. Inv => TypeOK
  BY DEF Inv
<1>2. QED
  BY <1>1, AlwaysInv, PTL

\* A rule that stood through the whole evaluation is obeyed, in the order of the
\* rules, however the tables change meanwhile (StandingRuleApplies).
THEOREM StandingRules == Spec => []StandingRuleApplies
<1>1. Inv => StandingRuleApplies
  BY DEF Inv, RuleInv, Obeyed, StandingRuleApplies
<1>2. QED
  BY <1>1, AlwaysInv, PTL

\* No request is decided by a rule that never matched (OutcomeHadItsRule).
THEOREM FoundedOutcome == Spec => []OutcomeHadItsRule
<1>1. Inv => OutcomeHadItsRule
  BY DEF Inv, RuleInv, Founded, OutcomeHadItsRule
<1>2. QED
  BY <1>1, AlwaysInv, PTL

\* A geo rule accepted with 201 stands until a DELETE names it
\* (AcceptedRuleHolds).
THEOREM AcceptedRules == Spec => []AcceptedRuleHolds
<1>1. Inv => AcceptedRuleHolds
  BY DEF Inv, AdminInv
<1>2. QED
  BY <1>1, AlwaysInv, PTL
===============================================================================
