---------------------------- MODULE GeoLookupProofs ----------------------------
(***************************************************************************)
(* Theorems about GeoLookup, for every number of overlapping lookups, any  *)
(* addresses, and every size and age limit of the cache.                   *)
(***************************************************************************)
EXTENDS GeoLookup, FiniteSetTheorems, TLAPS

Fetching(l) == lpc[l] \in {"fetch", "remember"}

\* A lookup that is past its first step has an address.
LookupInv == \A l \in Lookups : lpc[l] = "cached" \/ Fetching(l) => addr[l] \in Addrs

\* An entry is the answer last remembered for its address, with that answer's
\* age limit.
EntryInv ==
  \A a \in Cached :
    LET at == given[a][cache[a].geo] IN
    at # Never /\ cache[a].expiresAt = at + TTL(cache[a].geo)

\* The lookups that are fetching in spite of a fresh entry began before it.
OverlapInv ==
  \A a \in Addrs, l \in Lookups : Fresh(cache[a]) /\ Fetching(l) /\ addr[l] = a => l \in overlap[a]

Inv == TypeOK /\ LookupInv /\ EntryInv /\ OverlapInv /\ CacheBounded

-----------------------------------------------------------------------------
\* What parse gives is a country, a place without one, or nothing.
LEMMA ParseType == ASSUME NEW f \in Fields PROVE Parse(f) \in Geos
<1>1. CountryOf(f) \in Countries \cup {NoCountry}
  BY DEF CountryOf
<1>2. QED
  BY <1>1 DEF Parse, Geos

\* The age limits are positive.
LEMMA TTLType == ASSUME NEW g \in Geos PROVE TTL(g) \in Nat \ {0}
BY BoundsAssumption DEF TTL

\* The initial state satisfies the invariant.
LEMMA InitInv == Init => Inv
<1> SUFFICES ASSUME Init PROVE Inv
  OBVIOUS
<1>1. TypeOK
  BY BoundsAssumption DEF Init, TypeOK, Time, NoEntry, Geos
<1>2. Cached = {}
  BY DEF Init, Cached, NoEntry
<1>3. LookupInv /\ OverlapInv
  BY DEF Init, LookupInv, OverlapInv, Fetching
<1>4. EntryInv /\ CacheBounded
  BY <1>2, FS_EmptySet, BoundsAssumption DEF EntryInv, CacheBounded
<1>5. QED
  BY <1>1, <1>3, <1>4 DEF Inv

\* The addresses in the map are finitely many.
LEMMA CachedFinite == IsFiniteSet(Cached) /\ Cardinality(Cached) \in Nat
BY BoundsAssumption, FS_Subset, FS_CardinalityType DEF Cached

\* A step that leaves the map and the clock alone, and starts no fetch of an
\* address with a fresh entry, keeps what is known of the map.
LEMMA MapKept ==
  ASSUME Inv, UNCHANGED <<now, cache, given, overlap>>,
         \A l \in Lookups : lpc'[l] \in {"fetch", "remember"} =>
           /\ addr'[l] = addr[l]
           /\ Fetching(l) \/ ~ Fresh(cache[addr[l]])
  PROVE  EntryInv' /\ OverlapInv' /\ CacheBounded'
<1>1. EntryInv' /\ CacheBounded'
  BY DEF Inv, EntryInv, CacheBounded, Cached, TTL
<1>2. OverlapInv'
  BY DEF Inv, OverlapInv, Fetching, Fresh
<1>3. QED
  BY <1>1, <1>2

\* A lookup's steps up to its store keep the invariant.
LEMMA LookupKeepsInv ==
  ASSUME Inv, NEW l \in Lookups, Begin(l) \/ ReadCache(l) \/ Fetch(l) \/ HangUp(l)
  PROVE  Inv'
<1>0. TypeOK /\ LookupInv
  BY DEF Inv
<1>1. UNCHANGED <<now, cache, given, overlap>>
  BY DEF Begin, ReadCache, Fetch, HangUp
<1>2. CASE Begin(l)
  <2>1. PICK a \in Addrs :
          /\ addr' = [addr EXCEPT ![l] = a]
          /\ lpc' = [lpc EXCEPT ![l] = IF a \in Private THEN "returned" ELSE "cached"]
    BY <1>2 DEF Begin, Goto
  <2>2. TypeOK' /\ LookupInv'
    BY <1>0, <1>2, <2>1 DEF Begin, TypeOK, LookupInv, Fetching
  <2>3. EntryInv' /\ OverlapInv' /\ CacheBounded'
    BY <1>0, <1>1, <2>1, MapKept DEF TypeOK, Fetching
  <2>4. QED
    BY <2>2, <2>3 DEF Inv
<1>3. CASE ReadCache(l)
  <2>1. addr[l] \in Addrs
    BY <1>0, <1>3 DEF ReadCache, LookupInv
  <2>2. cache[addr[l]].geo \in Geos /\ Unknown \in Geos
    BY <1>0, <2>1 DEF TypeOK, Geos
  <2>3. TypeOK' /\ LookupInv'
    BY <1>0, <1>3, <2>1, <2>2 DEF ReadCache, Goto, TypeOK, LookupInv, Fetching
  <2>4. EntryInv' /\ OverlapInv' /\ CacheBounded'
    BY <1>0, <1>1, <1>3, MapKept DEF ReadCache, Goto, TypeOK, Fetching
  <2>5. QED
    BY <2>3, <2>4 DEF Inv
<1>4. CASE Fetch(l)
  <2>1. PICK g \in {Unknown} \cup {Parse(f) : f \in Fields} : geo' = [geo EXCEPT ![l] = g]
    BY <1>4 DEF Fetch
  <2>2. g \in Geos
    BY ParseType DEF Geos
  <2>3. TypeOK' /\ LookupInv'
    BY <1>0, <1>4, <2>1, <2>2 DEF Fetch, Goto, TypeOK, LookupInv, Fetching
  <2>4. EntryInv' /\ OverlapInv' /\ CacheBounded'
    BY <1>0, <1>1, <1>4, MapKept DEF Fetch, Goto, TypeOK, Fetching
  <2>5. QED
    BY <2>3, <2>4 DEF Inv
<1>5. CASE HangUp(l)
  <2>1. TypeOK' /\ LookupInv'
    BY <1>0, <1>5 DEF HangUp, Goto, TypeOK, LookupInv, Fetching
  <2>2. EntryInv' /\ OverlapInv' /\ CacheBounded'
    BY <1>0, <1>1, <1>5, MapKept DEF HangUp, Goto, TypeOK, Fetching
  <2>3. QED
    BY <2>1, <2>2 DEF Inv
<1>6. QED
  BY <1>2, <1>3, <1>4, <1>5

\* A store keeps the map within its bound.
LEMMA RememberKeepsBound ==
  ASSUME Inv, NEW l \in Lookups, Remember(l)
  PROVE  CacheBounded'
<1> DEFINE a == addr[l]
<1>1. a \in Addrs
  BY DEF Remember, Inv, LookupInv, Fetching
<1>2. CASE Full
  <2>1. Cached' \subseteq {a}
    BY <1>2 DEF Remember, Cached, NoEntry
  <2>2. IsFiniteSet({a}) /\ Cardinality({a}) = 1
    BY FS_Singleton
  <2>3. Cardinality(Cached') <= 1 /\ Cardinality(Cached') \in Nat
    BY <2>1, <2>2, FS_Subset, FS_CardinalityType
  <2>4. QED
    BY <2>3, BoundsAssumption DEF CacheBounded
<1>3. CASE ~ Full
  <2>1. Cached' \subseteq Cached \cup {a}
    BY <1>3 DEF Remember, Cached
  <2>2. IsFiniteSet(Cached \cup {a})
    BY CachedFinite, FS_AddElement
  <2>3. Cardinality(Cached \cup {a}) <= Cardinality(Cached) + 1
    BY CachedFinite, FS_AddElement
  <2>4. /\ Cardinality(Cached') <= Cardinality(Cached \cup {a})
        /\ Cardinality(Cached') \in Nat
        /\ Cardinality(Cached \cup {a}) \in Nat
    BY <2>1, <2>2, FS_Subset, FS_CardinalityType
  <2>5. QED
    BY <1>3, <2>3, <2>4, CachedFinite, BoundsAssumption DEF CacheBounded, Full
<1>4. QED
  BY <1>2, <1>3

\* A store keeps the invariant.
LEMMA RememberKeepsInv ==
  ASSUME Inv, NEW l \in Lookups, Remember(l)
  PROVE  Inv'
<1> DEFINE a == addr[l]
           entry == [geo |-> geo[l], expiresAt |-> now + TTL(geo[l])]
<1>0. TypeOK /\ LookupInv /\ EntryInv /\ OverlapInv
  BY DEF Inv
<1>1. a \in Addrs /\ geo[l] \in Geos /\ now \in Nat
  BY <1>0, BoundsAssumption DEF Remember, LookupInv, Fetching, TypeOK, Time
<1>2. TTL(geo[l]) \in Nat \ {0}
  BY <1>1, TTLType
<1>3. entry \in [geo : Geos, expiresAt : Nat \cup {Never}] /\ entry.expiresAt > now
  BY <1>1, <1>2
<1>4. cache'[a] = entry /\ \A b \in Addrs \ {a} : cache'[b] = cache[b] \/ cache'[b] = NoEntry
  BY <1>1 DEF Remember
<1>5. /\ given'[a][geo[l]] = now
      /\ \A b \in Addrs \ {a} : given'[b] = given[b]
  BY <1>0, <1>1 DEF Remember, TypeOK
<1>6. lpc'[l] = "returned" /\ \A m \in Lookups \ {l} : lpc'[m] = lpc[m]
  BY <1>0 DEF Remember, Goto, TypeOK
<1>7. TypeOK'
  <2>1. cache' \in [Addrs -> [geo : Geos, expiresAt : Nat \cup {Never}]]
    <3>1. NoEntry \in [geo : Geos, expiresAt : Nat \cup {Never}]
      BY DEF NoEntry, Geos
    <3>2. QED
      BY <1>0, <1>3, <3>1 DEF Remember, TypeOK
  <2>2. given' \in [Addrs -> [Geos -> Time \cup {Never}]]
    BY <1>0, <1>1 DEF Remember, TypeOK
  <2>3. /\ overlap' \in [Addrs -> SUBSET Lookups]
        /\ lpc' \in [Lookups -> {"new", "cached", "fetch", "remember", "returned"}]
    BY <1>0, <1>1 DEF Remember, Goto, TypeOK
  <2>4. QED
    BY <1>0, <2>1, <2>2, <2>3 DEF Remember, TypeOK
<1>8. LookupInv'
  BY <1>0, <1>6 DEF Remember, LookupInv, Fetching
<1>9. EntryInv'
  <2> SUFFICES ASSUME NEW b \in Addrs, cache'[b].expiresAt # Never
               PROVE  /\ given'[b][cache'[b].geo] # Never
                      /\ cache'[b].expiresAt = given'[b][cache'[b].geo] + TTL(cache'[b].geo)
    BY DEF EntryInv, Cached, TTL
  <2>1. CASE b = a
    BY <1>1, <1>4, <1>5, <2>1 DEF Never
  <2>2. CASE b # a
    <3>1. cache'[b] = cache[b] /\ given'[b] = given[b]
      BY <1>4, <1>5, <2>2 DEF NoEntry
    <3>2. QED
      BY <1>0, <3>1 DEF EntryInv, Cached
  <2>3. QED
    BY <2>1, <2>2
<1>10. OverlapInv'
  <2> SUFFICES ASSUME NEW b \in Addrs, NEW m \in Lookups, now' < cache'[b].expiresAt,
                      lpc'[m] \in {"fetch", "remember"}, addr'[m] = b
               PROVE  m \in overlap'[b]
    BY DEF OverlapInv, Fetching, Fresh
  <2>1. m # l /\ lpc'[m] = lpc[m] /\ addr'[m] = addr[m] /\ now' = now
    BY <1>6 DEF Remember
  <2>2. CASE b = a
    BY <1>0, <1>1, <2>1, <2>2 DEF Remember, TypeOK
  <2>3. CASE b # a
    <3>1. cache'[b] = cache[b]
      BY <1>1, <1>4, <2>1, <2>3 DEF NoEntry, Never
    <3>2. overlap'[b] = overlap[b]
      BY <1>0, <2>3 DEF Remember, TypeOK
    <3>3. QED
      BY <1>0, <2>1, <3>1, <3>2 DEF OverlapInv, Fetching, Fresh
  <2>4. QED
    BY <2>2, <2>3
<1>11. QED
  BY <1>7, <1>8, <1>9, <1>10, RememberKeepsBound DEF Inv

\* Every step keeps the invariant.
LEMMA StepKeepsInv == Inv /\ [Next]_vars => Inv'
<1> SUFFICES ASSUME Inv, [Next]_vars PROVE Inv'
  OBVIOUS
<1>1. CASE Tick
  <2>1. now \in Nat /\ now' = now + 1 /\ now' \in Time
    BY <1>1, BoundsAssumption DEF Inv, TypeOK, Tick, Time
  <2>2. TypeOK' /\ LookupInv'
    BY <1>1, <2>1 DEF Inv, TypeOK, LookupInv, Fetching, Tick
  <2>3. EntryInv' /\ CacheBounded'
    BY <1>1 DEF Inv, EntryInv, CacheBounded, Cached, TTL, Tick
  <2>4. \A a \in Addrs : cache[a].expiresAt \in Int
    BY DEF Inv, TypeOK, Never
  <2>5. OverlapInv'
    BY <1>1, <2>1, <2>4 DEF Inv, OverlapInv, Fetching, Fresh, Tick
  <2>6. QED
    BY <2>2, <2>3, <2>5 DEF Inv
<1>2. CASE UNCHANGED vars
  BY <1>2 DEF vars, Inv, TypeOK, LookupInv, EntryInv, OverlapInv, CacheBounded, Cached, TTL,
              Fetching, Fresh
<1>3. QED
  BY <1>1, <1>2, LookupKeepsInv, RememberKeepsInv DEF Next, Quiescent

\* The invariant holds in every reachable state.
LEMMA AlwaysInv == Spec => []Inv
BY InitInv, StepKeepsInv, PTL DEF Spec

\* The types of GeoLookup hold for every number of lookups (TypeOK).
THEOREM GeoTypes == Spec => []TypeOK
<1>1. Inv => TypeOK
  BY DEF Inv
<1>2. QED
  BY <1>1, AlwaysInv, PTL

\* However many lookups miss together, the map keeps to maxEntries
\* (CacheBounded).
THEOREM MapBounded == Spec => []CacheBounded
<1>1. Inv => CacheBounded
  BY DEF Inv
<1>2. QED
  BY <1>1, AlwaysInv, PTL

\* A hit gives what the provider last told of this address, within the age limit
\* of that answer (CachedAnswerIsFresh).
THEOREM HitsAreFresh == Spec => CachedAnswerIsFresh
<1>1. ASSUME Inv, [Next]_vars, NEW l \in Lookups, lpc[l] = "cached", lpc'[l] = "returned"
      PROVE  LET at == given[addr[l]][geo'[l]] IN at # Never /\ now < at + TTL(geo'[l])
  <2>1. ReadCache(l)
    BY <1>1 DEF Next, Begin, ReadCache, Fetch, HangUp, Remember, Tick, Quiescent, Goto, vars,
                Inv, TypeOK
  <2>2. addr[l] \in Addrs /\ now \in Nat
    BY <1>1, BoundsAssumption DEF Inv, LookupInv, TypeOK, Time
  <2>3. Fresh(cache[addr[l]]) /\ geo'[l] = cache[addr[l]].geo
    BY <1>1, <2>1 DEF ReadCache, Goto, Inv, TypeOK
  <2>4. addr[l] \in Cached
    BY <2>2, <2>3 DEF Cached, Fresh, Never
  <2>5. QED
    BY <1>1, <2>3, <2>4 DEF Inv, EntryInv, Fresh
<1>2. Inv /\ [Next]_vars =>
        [\A l \in Lookups :
           (lpc[l] = "cached" /\ lpc'[l] = "returned") =>
             LET at == given[addr[l]][geo'[l]] IN at # Never /\ now < at + TTL(geo'[l])]_vars
  BY <1>1
<1>3. QED
  BY <1>2, AlwaysInv, PTL DEF Spec, CachedAnswerIsFresh

\* While the map is not full, a fresh answer gives way only to a lookup that was
\* fetching the same address when it was stored (AnswerOutlivesFailures).
THEOREM AnswersKept == Spec => AnswerOutlivesFailures
<1>1. ASSUME Inv, [Next]_vars, NEW a \in Addrs, Fresh(cache[a]), cache'[a] # cache[a], ~ Full
      PROVE  \E l \in overlap[a] : lpc[l] = "remember" /\ lpc'[l] = "returned"
  <2>1. PICK l \in Lookups : Remember(l)
    BY <1>1 DEF Next, Begin, ReadCache, Fetch, HangUp, Tick, Quiescent, vars
  <2>2. addr[l] = a
    BY <1>1, <2>1 DEF Remember
  <2>3. lpc[l] = "remember" /\ lpc'[l] = "returned"
    BY <1>1, <2>1 DEF Remember, Goto, Inv, TypeOK
  <2>4. l \in overlap[a]
    BY <1>1, <2>2, <2>3 DEF Inv, OverlapInv, Fetching
  <2>5. QED
    BY <2>3, <2>4
<1>2. Inv /\ [Next]_vars =>
        [\A a \in Addrs :
           (Fresh(cache[a]) /\ cache'[a] # cache[a] /\ ~ Full) =>
             \E l \in overlap[a] : lpc[l] = "remember" /\ lpc'[l] = "returned"]_vars
  BY <1>1
<1>3. QED
  BY <1>2, AlwaysInv, PTL DEF Spec, AnswerOutlivesFailures
===============================================================================
