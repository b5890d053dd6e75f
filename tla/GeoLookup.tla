------------------------------- MODULE GeoLookup -------------------------------
(***************************************************************************)
(* The geolocation client of the backend (geo/geo.go): concurrent lookups  *)
(* of source addresses share a cache of the provider's answers.  The mutex *)
(* covers one read and one write of the map, not the fetch in between.     *)
(*                                                                         *)
(* What the rules engine does with the country is Admission.               *)
(***************************************************************************)
EXTENDS Integers, FiniteSets

CONSTANTS
  Lookups,        \* calls of Lookup, one per access request with a source_ip
  Addrs,          \* source addresses
  Private,        \* the ones that are loopback, private, link-local...
  Countries,      \* two-letter codes a provider may give
  PositiveTTL, NegativeTTL, MaxEntries,
  MaxTime         \* bound on the clock

ASSUME AddrsAssumption == Private \subseteq Addrs /\ "none" \notin Addrs
ASSUME CountriesAssumption ==
  \A other \in {"none", "unknown", "nocountry", "name"} : other \notin Countries
ASSUME BoundsAssumption ==
  /\ PositiveTTL \in Nat \ {0}
  /\ NegativeTTL \in Nat \ {0}
  /\ MaxEntries \in Nat \ {0}
  /\ MaxTime \in Nat
  /\ IsFiniteSet(Addrs)

VARIABLES
  now,            \* the wall clock
  cache,          \* the client's map: the answer for an address and its expiry
  lpc, addr,      \* of each lookup: control point and address
  geo,            \* the answer it holds, or has returned
  given,          \* history: when an answer of the provider for an address was
                  \* last remembered, per answer
  overlap         \* history: the lookups of an address that were fetching when
                  \* its present entry was stored
vars == <<now, cache, lpc, addr, geo, given, overlap>>

-----------------------------------------------------------------------------
Time == 0 .. MaxTime
None == "none"
Unknown == "unknown"            \* nil
NoCountry == "nocountry"        \* located, but without a country code
Geos == Countries \cup {Unknown, NoCountry}
Never == -1
NoEntry == [geo |-> Unknown, expiresAt |-> Never]
Cached == {a \in Addrs : cache[a].expiresAt # Never}
Goto(l, point) == lpc' = [lpc EXCEPT ![l] = point]

\* Lookup: a private address is not asked about, with or without an endpoint.
Begin(l) ==
  /\ lpc[l] = "new"
  /\ \E a \in Addrs :
       /\ addr' = [addr EXCEPT ![l] = a]
       /\ Goto(l, IF a \in Private THEN "returned" ELSE "cached")
  /\ UNCHANGED <<now, cache, geo, given, overlap>>

Fresh(entry) == now < entry.expiresAt

ReadCacheNever(l) ==
  /\ lpc[l] = "cached"
  /\ Goto(l, "fetch")
  /\ UNCHANGED <<now, cache, addr, geo, given, overlap>>

\* cached: a fresh answer is returned, whether positive or negative.
ReadCache(l) ==
  LET entry == cache[addr[l]] IN
  /\ lpc[l] = "cached"
  /\ geo' = [geo EXCEPT ![l] = IF Fresh(entry) THEN entry.geo ELSE Unknown]
  /\ Goto(l, IF Fresh(entry) THEN "returned" ELSE "fetch")
  /\ UNCHANGED <<now, cache, addr, given, overlap>>

\* The fields of a body that parse reads: the three a country may be in, as a
\* code or (in the last) as a name, and a city or AS number (rest) or none.
Fields == [country_code : Countries \cup {None}, countryCode : Countries \cup {None},
           country : Countries \cup {"name", None}, rest : BOOLEAN]

\* country: the first of the fields that holds a two-letter code.
CountryOf(f) ==
  CASE f.country_code \in Countries -> f.country_code
    [] f.countryCode \in Countries -> f.countryCode
    [] f.country \in Countries -> f.country
    [] OTHER -> NoCountry

Parse(f) == IF CountryOf(f) = NoCountry /\ ~ f.rest THEN Unknown ELSE CountryOf(f)

\* fetch: no answer within lookupTimeout, a status other than 2xx and a body
\* that is no JSON object all end it without an answer.
Fetch(l) ==
  /\ lpc[l] = "fetch"
  /\ \E g \in {Unknown} \cup {Parse(f) : f \in Fields} : geo' = [geo EXCEPT ![l] = g]
  /\ Goto(l, "remember")
  /\ UNCHANGED <<now, cache, addr, given, overlap>>

HangUpRemembers(l) ==
  /\ lpc[l] = "fetch"
  /\ cache' = [cache EXCEPT ![addr[l]] = [geo |-> Unknown, expiresAt |-> now + NegativeTTL]]
  /\ Goto(l, "returned")
  /\ UNCHANGED <<now, addr, geo, given, overlap>>

\* The agent hung up during the fetch, so it failed, and the cache is left alone.
HangUp(l) ==
  /\ lpc[l] = "fetch"
  /\ Goto(l, "returned")
  /\ UNCHANGED <<now, cache, addr, geo, given, overlap>>

TTL(g) == IF g = Unknown THEN NegativeTTL ELSE PositiveTTL
Full == Cardinality(Cached) >= MaxEntries

\* remember: a full map is dropped, even to store a key it has.
Remember(l) ==
  LET a == addr[l] IN
  /\ lpc[l] = "remember"
  /\ cache' = [b \in Addrs |->
                 IF b = a THEN [geo |-> geo[l], expiresAt |-> now + TTL(geo[l])]
                          ELSE IF Full THEN NoEntry ELSE cache[b]]
  /\ given' = [given EXCEPT ![a][geo[l]] = now]
  /\ overlap' = [overlap EXCEPT ![a] = {m \in Lookups \ {l} :
                                         addr[m] = a /\ lpc[m] \in {"fetch", "remember"}}]
  /\ Goto(l, "returned")
  /\ UNCHANGED <<now, addr, geo>>

Tick ==
  /\ now < MaxTime
  /\ now' = now + 1
  /\ UNCHANGED <<cache, lpc, addr, geo, given, overlap>>

Quiescent ==
  /\ now = MaxTime
  /\ \A l \in Lookups : lpc[l] = "returned"
  /\ UNCHANGED vars

Init ==
  /\ now = 0
  /\ cache = [a \in Addrs |-> NoEntry]
  /\ lpc = [l \in Lookups |-> "new"]
  /\ addr = [l \in Lookups |-> None]
  /\ geo = [l \in Lookups |-> Unknown]
  /\ given = [a \in Addrs |-> [g \in Geos |-> Never]]
  /\ overlap = [a \in Addrs |-> {}]

Next ==
  \/ \E l \in Lookups :
       Begin(l) \/ ReadCache(l) \/ Fetch(l) \/ HangUp(l) \/ Remember(l)
  \/ Tick
  \/ Quiescent

Spec == Init /\ [][Next]_vars

-----------------------------------------------------------------------------
(* Properties *)

TypeOK ==
  /\ now \in Time
  /\ cache \in [Addrs -> [geo : Geos, expiresAt : Nat \cup {Never}]]
  /\ lpc \in [Lookups -> {"new", "cached", "fetch", "remember", "returned"}]
  /\ addr \in [Lookups -> Addrs \cup {None}]
  /\ geo \in [Lookups -> Geos]
  /\ given \in [Addrs -> [Geos -> Time \cup {Never}]]
  /\ overlap \in [Addrs -> SUBSET Lookups]

\* A lookup that hits the cache returns what the provider last told about this
\* very address less than positiveTTL before, and nil only when the provider
\* failed to locate it less than negativeTTL before: no expired answer, no
\* other address's country and no failure that was a caller's hang-up ever
\* decides a geo rule (geo.go Lookup).
CachedAnswerIsFresh ==
  [][\A l \in Lookups :
       (lpc[l] = "cached" /\ lpc'[l] = "returned") =>
         LET at == given[addr[l]][geo'[l]] IN
         at # Never /\ now < at + TTL(geo'[l])]_vars

\* A fresh answer is lost only when a full map is dropped, or to a lookup of
\* the same address that was already fetching when it was stored: a provider
\* that fails later does not undo what it told before (geo.go remember).
AnswerOutlivesFailures ==
  [][\A a \in Addrs :
       (Fresh(cache[a]) /\ cache'[a] # cache[a] /\ ~ Full) =>
         \E l \in overlap[a] : lpc[l] = "remember" /\ lpc'[l] = "returned"]_vars

\* The map never outgrows maxEntries, whatever lookups overlap between their
\* miss and their store (geo.go remember).
CacheBounded == Cardinality(Cached) <= MaxEntries
===============================================================================
