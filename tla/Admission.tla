------------------------------- MODULE Admission -------------------------------
(***************************************************************************)
(* What POST /access-request does before there is a row: the body is       *)
(* normalised, and the rules engine (rules/rules.go) asks the blocked IPs, *)
(* the geo rules and the whitelist, in this order, one statement each.     *)
(* Meanwhile admins add and remove geo rules (handler/geo_rules.go), and   *)
(* blocks and whitelist entries come and go.                               *)
(*                                                                         *)
(* The country comes from GeoLookup.  What happens to a pending request    *)
(* afterwards is RequestLifecycle; blocks are made in AutoBlock, whitelist *)
(* entries in AgentAccess.                                                 *)
(***************************************************************************)
EXTENDS Integers

CONSTANTS
  Reqs,           \* calls of POST /access-request
  Creates,        \* calls of POST /geo-rules; each names the rule it creates
  Deletes,        \* calls of DELETE /geo-rules/{id}
  Addrs,          \* source addresses
  Countries,      \* the assigned country codes
  MaxTime, MaxChanges      \* bounds: the clock, changes to blocks and whitelist

ASSUME NamesAssumption ==
  /\ "none" \notin Addrs
  /\ "none" \notin Creates
  /\ "none" \notin Countries
ASSUME BoundsAssumption == MaxTime \in Nat /\ MaxChanges \in Nat

VARIABLES
  now,            \* the wall clock
  changes,        \* changes made to blocks and whitelist so far
  rules,          \* the geo_rules table: the rule of each country
  block,          \* until when each address is blocked
  whitelist,      \* until when the user is whitelisted, on this server or globally
  rpc,            \* control point of each request
  source,         \* its source_ip
  country,        \* the country the lookup gave
  clock,          \* the clock reading its Evaluate works with
  status,         \* the outcome, which is the status of its row
  create, delete, \* of each admin call: what it names and its answer
  held, ever,     \* history: the rules that matched at every instant, and at
                  \* some instant, of the request's evaluation
  asked           \* history: the rules a DELETE has named

tables    == <<rules, block, whitelist>>
adminVars == <<create, delete, asked>>
reqVars   == <<rpc, source, country, clock, status>>
history   == <<held, ever>>
vars == <<now, changes, tables, adminVars, reqVars, history>>

-----------------------------------------------------------------------------
Time == 0 .. MaxTime
None == "none"                  \* no country, no rule, no answer yet
Never == -2                     \* no such row
Null == -1                      \* without expiry
Expiry == {Never, Null} \cup Nat
Unexpired(expiresAt, at) == expiresAt = Null \/ expiresAt > at

\* An address in its canonical spelling, or another: IPv4 mapped, with a zone.
Spelling == [addr : Addrs, canonical : BOOLEAN]
NoSource == [addr |-> None, canonical |-> TRUE]         \* sudo has no source_ip

Evaluating == {"ip", "hit", "geo", "whitelist"}
Goto(r, point) == rpc' = [rpc EXCEPT ![r] = point]

\* The rules that match request r, whatever the spelling of its address.
Matching(r) ==
  {rule \in {"ip", "geo", "whitelist"} :
     CASE rule = "ip" -> source[r] # NoSource /\ Unexpired(block[source[r].addr], clock[r])
       [] rule = "geo" -> country[r] # None /\ rules[country[r]] # None
       [] rule = "whitelist" -> Unexpired(whitelist, clock[r])}

\* The history of every evaluation under way, after a step.
Observe ==
  /\ held' = [r \in Reqs |->
       IF rpc'[r] \notin Evaluating THEN held[r]
       ELSE IF rpc[r] \in Evaluating THEN held[r] \cap Matching(r)' ELSE Matching(r)']
  /\ ever' = [r \in Reqs |->
       IF rpc'[r] \in Evaluating THEN ever[r] \cup Matching(r)' ELSE ever[r]]

-----------------------------------------------------------------------------
(* The request: normalizeAccessRequest, Evaluate, CreateRequest *)

\* normalizeAccessRequest: Unmap and WithZone.
Normalize(raw) == [raw EXCEPT !.canonical = TRUE]

\* The body, the answer of the lookup and the clock that Evaluate reads.  A body
\* that is answered 400 changes nothing and is no step; the mode is looked at last.
Receive(r) ==
  /\ rpc[r] = "new"
  /\ \E raw \in Spelling \cup {NoSource}, c \in Countries \cup {None} :
       /\ raw = NoSource => c = None
       /\ source' = [source EXCEPT ![r] = Normalize(raw)]
       /\ country' = [country EXCEPT ![r] = c]
       /\ Goto(r, IF raw = NoSource THEN "geo" ELSE "ip")
  /\ clock' = [clock EXCEPT ![r] = now]
  /\ UNCHANGED <<now, changes, tables, adminVars, status>>
  /\ Observe

\* A rule that matches ends the evaluation with its outcome.
Rule(r, point, matches, outcome, next) ==
  /\ rpc[r] = point
  /\ status' = [status EXCEPT ![r] = IF matches THEN outcome ELSE @]
  /\ Goto(r, IF matches THEN "insert" ELSE next)
  /\ UNCHANGED <<now, changes, tables, adminVars, source, country, clock>>
  /\ Observe

BlockedIPByIPAnyAge(r) == source[r].canonical /\ block[source[r].addr] # Never

\* BlockedIPByIP compares inet values: a mapped spelling is another address.
BlockedIPByIP(r) ==
  source[r].canonical /\ Unexpired(block[source[r].addr], clock[r])

EvaluateIP(r) ==
  /\ rpc[r] = "ip"
  /\ Goto(r, IF BlockedIPByIP(r) THEN "hit" ELSE "geo")
  /\ UNCHANGED <<now, changes, tables, adminVars, source, country, clock, status>>
  /\ Observe

\* The hit counter itself is in AutoBlock.
RecordHit(r) == Rule(r, "hit", TRUE, "blocked_ip", "insert")

FindWhitelist(r) == Unexpired(whitelist, clock[r])

GeoRuleByCountry(r) == country[r] # None /\ rules[country[r]] # None
EvaluateGeoTrusting(r) ==
  Rule(r, "geo", GeoRuleByCountry(r) /\ ~ FindWhitelist(r), "blocked_geo", "whitelist")
EvaluateGeo(r) == Rule(r, "geo", GeoRuleByCountry(r), "blocked_geo", "whitelist")

\* Without an entry the mode decides between a notice and a question.
EvaluateWhitelist(r) ==
  \E byMode \in {"notified", "pending"} :
    Rule(r, "whitelist", TRUE, IF FindWhitelist(r) THEN "whitelisted" ELSE byMode, "insert")

\* The handler's locals go with it; what follows is RequestLifecycle.
Leave(r, point) ==
  /\ Goto(r, point)
  /\ source' = [source EXCEPT ![r] = NoSource]
  /\ country' = [country EXCEPT ![r] = None]
  /\ clock' = [clock EXCEPT ![r] = 0]
  /\ status' = [status EXCEPT ![r] = None]
  /\ held' = [held EXCEPT ![r] = {}]
  /\ ever' = [ever EXCEPT ![r] = {}]
  /\ UNCHANGED <<now, changes, tables, adminVars>>

CreateRequest(r) == rpc[r] = "insert" /\ Leave(r, "row")

\* A statement that fails, or meets the cancelled context of a hang-up: a 500.
StoreFails(r) == rpc[r] \in Evaluating \cup {"insert"} /\ Leave(r, "500")

-----------------------------------------------------------------------------
(* The admins: POST, GET and DELETE /geo-rules *)

\* createGeoRule: a second rule for a country is a 409; an INSERT whose result is
\* an error or does not come is a 500, whether it took effect or not.
CreateGeoRule(c) ==
  /\ create[c].answer = None
  /\ \E to \in Countries, told, effect \in BOOLEAN :
       LET free == rules[to] = None IN
       /\ told => effect
       /\ create' = [create EXCEPT ![c] = [country |-> to,
              answer |-> IF ~ told THEN "500" ELSE IF free THEN "201" ELSE "409"]]
       /\ rules' = IF free /\ effect THEN [rules EXCEPT ![to] = c] ELSE rules
  /\ UNCHANGED <<now, changes, block, whitelist, delete, asked, reqVars>>
  /\ Observe

\* listGeoRules: the admin picks a rule of the list, and has its id.
ListGeoRules(d) ==
  /\ delete[d].id = None
  /\ \E to \in Countries :
       /\ rules[to] # None
       /\ delete' = [delete EXCEPT ![d].id = rules[to]]
       /\ asked' = asked \cup {rules[to]}
  /\ UNCHANGED <<now, changes, tables, create, reqVars, history>>

NamedByCountry(d) == {create[delete[d].id].country}
Named(d) == {to \in Countries : rules[to] = delete[d].id}

\* deleteGeoRule: DELETE ... WHERE id, a 404 when it is gone already, a 500 as above.
DeleteGeoRule(d) ==
  /\ delete[d].id # None
  /\ delete[d].answer = None
  /\ \E told, effect \in BOOLEAN :
       /\ told => effect
       /\ rules' = [to \in Countries |-> IF effect /\ to \in Named(d) THEN None ELSE rules[to]]
       /\ delete' = [delete EXCEPT ![d].answer =
              IF ~ told THEN "500" ELSE IF Named(d) = {} THEN "404" ELSE "204"]
  /\ UNCHANGED <<now, changes, block, whitelist, create, asked, reqVars>>
  /\ Observe

\* UpsertBlockedIP and UnblockIP of another call.
ChangeBlock(a) ==
  /\ changes < MaxChanges
  /\ changes' = changes + 1
  /\ \E expiresAt \in {Null, now, now + 1} :
       /\ expiresAt = now => Unexpired(block[a], now)
       /\ block' = [block EXCEPT ![a] = expiresAt]
  /\ UNCHANGED <<now, rules, whitelist, adminVars, reqVars>>
  /\ Observe

\* UpsertWhitelist and DeleteWhitelist of another call.
ChangeWhitelist ==
  /\ changes < MaxChanges
  /\ changes' = changes + 1
  /\ whitelist' \in {Never, Null, now + 1}
  /\ UNCHANGED <<now, rules, block, adminVars, reqVars>>
  /\ Observe

Tick ==
  /\ now < MaxTime
  /\ now' = now + 1
  /\ UNCHANGED <<changes, tables, adminVars, reqVars, history>>

\* Every call has returned and the bounds are reached.
Quiescent ==
  /\ now = MaxTime
  /\ changes = MaxChanges
  /\ \A r \in Reqs : rpc[r] \in {"row", "500"}
  /\ \A d \in Deletes : delete[d].id = None \/ delete[d].answer # None
  /\ UNCHANGED vars

-----------------------------------------------------------------------------
Init ==
  /\ now = 0
  /\ changes = 0
  /\ rules = [to \in Countries |-> None]
  /\ block \in [Addrs -> {Never, Null}]
  /\ whitelist \in {Never, Null}
  /\ rpc = [r \in Reqs |-> "new"]
  /\ source = [r \in Reqs |-> NoSource]
  /\ country = [r \in Reqs |-> None]
  /\ clock = [r \in Reqs |-> 0]
  /\ status = [r \in Reqs |-> None]
  /\ create = [c \in Creates |-> [country |-> None, answer |-> None]]
  /\ delete = [d \in Deletes |-> [id |-> None, answer |-> None]]
  /\ held = [r \in Reqs |-> {}]
  /\ ever = [r \in Reqs |-> {}]
  /\ asked = {}

Next ==
  \/ \E r \in Reqs :
       \/ Receive(r) \/ EvaluateIP(r) \/ RecordHit(r) \/ EvaluateGeo(r)
       \/ EvaluateWhitelist(r) \/ CreateRequest(r) \/ StoreFails(r)
  \/ \E c \in Creates : CreateGeoRule(c)
  \/ \E d \in Deletes : ListGeoRules(d) \/ DeleteGeoRule(d)
  \/ \E a \in Addrs : ChangeBlock(a)
  \/ ChangeWhitelist
  \/ Tick
  \/ Quiescent

Spec == Init /\ [][Next]_vars

-----------------------------------------------------------------------------
(* Properties *)

TypeOK ==
  /\ now \in Time
  /\ changes \in 0 .. MaxChanges
  /\ rules \in [Countries -> Creates \cup {None}]
  /\ block \in [Addrs -> Expiry]
  /\ whitelist \in Expiry
  /\ rpc \in [Reqs -> {"new", "insert", "row", "500"} \cup Evaluating]
  /\ source \in [Reqs -> [addr : Addrs, canonical : {TRUE}] \cup {NoSource}]
  /\ country \in [Reqs -> Countries \cup {None}]
  /\ clock \in [Reqs -> Time]
  /\ status \in [Reqs -> {None, "blocked_ip", "blocked_geo", "whitelisted", "notified",
                          "pending"}]
  /\ create \in [Creates -> [country : Countries \cup {None},
                             answer : {None, "201", "409", "500"}]]
  /\ delete \in [Deletes -> [id : Creates \cup {None}, answer : {None, "204", "404", "500"}]]
  /\ held \in [Reqs -> SUBSET {"ip", "geo", "whitelist"}]
  /\ ever \in [Reqs -> SUBSET {"ip", "geo", "whitelist"}]
  /\ asked \subseteq Creates

\* A rule that matched through the whole of a request's evaluation is obeyed:
\* a block that stood is not passed by a whitelist entry or by another
\* spelling of the address, a geo rule that stood is not passed by a whitelist
\* entry, and an entry that stood spares the phones (rules.go Evaluate).
StandingRuleApplies ==
  \A r \in Reqs :
    rpc[r] = "insert" =>
      CASE "ip" \in held[r] -> status[r] = "blocked_ip"
        [] "geo" \in held[r] -> status[r] \in {"blocked_ip", "blocked_geo"}
        [] "whitelist" \in held[r] -> status[r] \notin {"notified", "pending"}
        [] OTHER -> TRUE

\* Nobody is refused or let in by a rule that matched at no instant of the
\* evaluation, although the three tables are read one after the other.
OutcomeHadItsRule ==
  \A r \in Reqs :
    rpc[r] = "insert" =>
      /\ status[r] = "blocked_ip" => "ip" \in ever[r]
      /\ status[r] = "blocked_geo" => "geo" \in ever[r]
      /\ status[r] = "whitelisted" => "whitelist" \in ever[r]

\* A country whose rule was accepted with 201 stays blocked until a DELETE
\* names that very rule: neither a second POST for the country nor a late
\* DELETE of an earlier rule of it ends the block (geo_rules.go).
AcceptedRuleHolds ==
  \A c \in Creates :
    create[c].answer = "201" => rules[create[c].country] = c \/ c \in asked
===============================================================================
