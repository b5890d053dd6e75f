------------------------------- MODULE AutoBlock -------------------------------
(***************************************************************************)
(* The auto-block of one source IP: RecordDenial (rules/rules.go) runs at  *)
(* the end of every POST /verdict that denied a request from that IP,      *)
(* Evaluate at the start of every access request from it, and              *)
(* DELETE /blocked-ips/{id} ends the block.  Each is several statements on *)
(* the database, with a clock reading taken before them; calls overlap     *)
(* freely.  All statements select by IP, so one IP stands for every IP.    *)
(***************************************************************************)
EXTENDS Integers, FiniteSets

CONSTANTS
  Denials,        \* verdict calls that deny, each on a request of its own
  Arrivals,       \* access requests from the IP
  Unblocks,       \* DELETE /blocked-ips calls
  Threshold, Window, BlockDuration,   \* rules.Config; BlockDuration 0: no expiry
  StoreFails,     \* whether a statement may fail
  MaxTime         \* bound on the clock

ASSUME ActorsAssumption == IsFiniteSet(Denials)
ASSUME RulesAssumption ==
  /\ Threshold \in Nat \ {0}
  /\ Window \in Nat \ {0}
  /\ BlockDuration \in Nat
ASSUME BoundsAssumption == StoreFails \in BOOLEAN /\ MaxTime \in Nat

VARIABLES
  now,          \* the wall clock
  deniedAt,     \* decided_at of the request each denial decided
  block,        \* the blocked_ips row of the IP
  dpc, dnow,    \* control point and clock reading of each denial
  since,        \* where its count starts
  seen,         \* the denials CountDenials returned to it
  apc, anow,    \* control point and clock reading of each Evaluate
  outcome,      \* what it returned
  upc, unow,    \* control point and clock reading of each unblock
  \* History since the last block ended, for the properties:
  endedAt,      \* the instant the last block ended, by unblock or expiry
  fresh,        \* denials whose call began after it
  armedBy,      \* calls that have written a block since
  sheltered     \* arrivals that began after such a write

vars == <<now, deniedAt, block, dpc, dnow, since, seen, apc, anow, outcome,
          upc, unow, endedAt, fresh, armedBy, sheltered>>
denialVars  == <<deniedAt, dpc, dnow, since, seen>>
arrivalVars == <<apc, anow, outcome>>
unblockVars == <<upc, unow>>
history     == <<endedAt, fresh, armedBy, sheltered>>

-----------------------------------------------------------------------------
Time == 0 .. MaxTime
Null == -1                      \* SQL NULL, and a time nobody read yet

\* basis stands for denial_count, first_denied_at and last_denied_at.
Block == [exists : BOOLEAN, expiresAt : Int, basis : SUBSET Denials, hits : Nat]
NoBlock == [exists |-> FALSE, expiresAt |-> Null, basis |-> {}, hits |-> 0]

\* BlockedIP.Active
Active(at) == block.exists /\ (block.expiresAt = Null \/ block.expiresAt > at)

\* Mutant: the window only, so the denials of the last block count again.
SinceIgnoresBlock(at) == at - Window

\* RecordDenial's since: the window, cut at the end of the previous block.
Since(at) ==
  IF block.exists /\ block.expiresAt # Null /\ block.expiresAt > at - Window
  THEN block.expiresAt
  ELSE at - Window

\* Mutant: decided_at > since.
CountDenialsStrict(from) == {e \in Denials : deniedAt[e] # Null /\ deniedAt[e] > from}

\* CountDenials: WHERE status = 'denied' AND decided_at >= since
CountDenials(from) == {e \in Denials : deniedAt[e] # Null /\ deniedAt[e] >= from}

\* The term of a block that d writes counts from d's own clock reading.
TermEnd(d) == dnow[d] + BlockDuration

\* A statement that took effect may be reported as failed all the same.
LastAnswers(good) == {good} \cup (IF StoreFails THEN {"failed"} ELSE {})

-----------------------------------------------------------------------------
(* POST /verdict, a denial *)

BeginDenial(d) ==
  /\ dpc[d] = "idle"
  /\ dnow' = [dnow EXCEPT ![d] = now]
  /\ dpc' = [dpc EXCEPT ![d] = "decide"]
  /\ fresh' = fresh \cup {d}
  /\ UNCHANGED <<now, deniedAt, block, since, seen, arrivalVars, unblockVars,
                 endedAt, armedBy, sheltered>>

\* DecideRequest: the denial is in the table before anything is counted.
CommitDenial(d) ==
  /\ dpc[d] = "decide"
  /\ deniedAt' = [deniedAt EXCEPT ![d] = dnow[d]]
  /\ dpc' = [dpc EXCEPT ![d] = "lookup"]
  /\ UNCHANGED <<now, block, dnow, since, seen, arrivalVars, unblockVars, history>>

\* BlockedIPByIP: an active block ends the matter, an ended one moves since.
LookupBlock(d) ==
  /\ dpc[d] = "lookup"
  /\ \/ /\ Active(dnow[d])
        /\ dpc' = [dpc EXCEPT ![d] = "done"]
        /\ UNCHANGED since
     \/ /\ ~ Active(dnow[d])
        /\ since' = [since EXCEPT ![d] = Since(dnow[d])]
        /\ dpc' = [dpc EXCEPT ![d] = "count"]
  /\ UNCHANGED <<now, deniedAt, block, dnow, seen, arrivalVars, unblockVars, history>>

CountStep(d) ==
  /\ dpc[d] = "count"
  /\ seen' = [seen EXCEPT ![d] = CountDenials(since[d])]
  /\ dpc' = [dpc EXCEPT ![d] =
               IF Cardinality(CountDenials(since[d])) < Threshold THEN "done" ELSE "upsert"]
  /\ UNCHANGED <<now, deniedAt, block, dnow, since, arrivalVars, unblockVars, history>>

\* Mutant: a re-arm leaves the expires_at of the row as it was.
UpsertBlockKeepsExpiry(d) ==
  /\ dpc[d] = "upsert"
  /\ block' = [exists |-> TRUE,
               expiresAt |-> IF block.exists THEN block.expiresAt ELSE TermEnd(d),
               basis |-> seen[d], hits |-> 0]
  /\ armedBy' = armedBy \cup {d}
  /\ dpc' = [dpc EXCEPT ![d] = "done"]
  /\ UNCHANGED <<now, deniedAt, dnow, since, seen, arrivalVars, unblockVars,
                 endedAt, fresh, sheltered>>

\* UpsertBlockedIP, insert or re-arm alike; the answer reports auto_blocked,
\* or is a 500 when only the result of the statement was lost.
UpsertBlock(d) ==
  /\ dpc[d] = "upsert"
  /\ block' = [exists |-> TRUE,
               expiresAt |-> IF BlockDuration > 0 THEN TermEnd(d) ELSE Null,
               basis |-> seen[d], hits |-> 0]
  /\ armedBy' = armedBy \cup {d}
  /\ \E end \in LastAnswers("done") : dpc' = [dpc EXCEPT ![d] = end]
  /\ UNCHANGED <<now, deniedAt, dnow, since, seen, arrivalVars, unblockVars,
                 endedAt, fresh, sheltered>>

\* A statement fails without effect: 500.  The request stays denied.
DenialFails(d) ==
  /\ StoreFails
  /\ dpc[d] \in {"decide", "lookup", "count", "upsert"}
  /\ dpc' = [dpc EXCEPT ![d] = "failed"]
  /\ UNCHANGED <<now, deniedAt, block, dnow, since, seen, arrivalVars, unblockVars, history>>

-----------------------------------------------------------------------------
(* rules.Evaluate for a request from the IP *)

BeginEvaluate(a) ==
  /\ apc[a] = "idle"
  /\ anow' = [anow EXCEPT ![a] = now]
  /\ apc' = [apc EXCEPT ![a] = "lookup"]
  /\ sheltered' = IF armedBy = {} THEN sheltered ELSE sheltered \cup {a}
  /\ UNCHANGED <<now, block, outcome, denialVars, unblockVars, endedAt, fresh, armedBy>>

\* Not blocked: the geo rules, the whitelist and the mode decide, elsewhere.
LaterOutcomes == {"blocked_geo", "whitelisted", "notified", "pending"}

EvaluateLookup(a) ==
  /\ apc[a] = "lookup"
  /\ \/ /\ Active(anow[a])
        /\ apc' = [apc EXCEPT ![a] = "hit"]
        /\ UNCHANGED outcome
     \/ /\ ~ Active(anow[a])
        /\ \E o \in LaterOutcomes : outcome' = [outcome EXCEPT ![a] = o]
        /\ apc' = [apc EXCEPT ![a] = "done"]
  /\ UNCHANGED <<now, block, anow, denialVars, unblockVars, history>>

\* RecordBlockedIPHit: by id, and the row is never deleted.
RecordHit(a) ==
  /\ apc[a] = "hit"
  /\ block' = [block EXCEPT !.hits = block.hits + 1]
  /\ outcome' = [outcome EXCEPT ![a] = "blocked_ip"]
  /\ apc' = [apc EXCEPT ![a] = "done"]
  /\ UNCHANGED <<now, anow, denialVars, unblockVars, history>>

\* A lookup or the hit count fails: 500, no outcome.
EvaluateFails(a) ==
  /\ StoreFails
  /\ apc[a] \in {"lookup", "hit"}
  /\ apc' = [apc EXCEPT ![a] = "failed"]
  /\ UNCHANGED <<now, block, anow, outcome, denialVars, unblockVars, history>>

-----------------------------------------------------------------------------
(* DELETE /blocked-ips/{id} *)

\* The history starts again when a block ends.
BlockEnds(at) ==
  /\ endedAt' = at
  /\ fresh' = {}
  /\ armedBy' = {}
  /\ sheltered' = {}

BeginUnblock(u) ==
  /\ upc[u] = "idle"
  /\ block.exists               \* the app knows the id from the list
  /\ unow' = [unow EXCEPT ![u] = now]
  /\ upc' = [upc EXCEPT ![u] = "update"]
  /\ UNCHANGED <<now, block, denialVars, arrivalVars, history>>

\* UnblockIP: an active block ends at the clock reading, else 404.
UnblockIP(u) ==
  /\ upc[u] = "update"
  /\ \/ /\ Active(unow[u])
        /\ block' = [block EXCEPT !.expiresAt = unow[u]]
        /\ \E end \in LastAnswers("204") : upc' = [upc EXCEPT ![u] = end]
        /\ BlockEnds(unow[u])
     \/ /\ ~ Active(unow[u])
        /\ upc' = [upc EXCEPT ![u] = "404"]
        /\ UNCHANGED <<block, history>>
  /\ UNCHANGED <<now, unow, denialVars, arrivalVars>>

\* The statement fails: 500.
UnblockFails(u) ==
  /\ StoreFails
  /\ upc[u] = "update"
  /\ upc' = [upc EXCEPT ![u] = "failed"]
  /\ UNCHANGED <<now, block, unow, denialVars, arrivalVars, history>>

-----------------------------------------------------------------------------
Tick ==
  /\ now < MaxTime
  /\ now' = now + 1
  /\ IF block.exists /\ block.expiresAt = now + 1
     THEN BlockEnds(now + 1)
     ELSE UNCHANGED history
  /\ UNCHANGED <<block, denialVars, arrivalVars, unblockVars>>

\* Every call has returned and the bounded clock is at its end.
Quiescent ==
  /\ now = MaxTime
  /\ \A d \in Denials : dpc[d] \in {"done", "failed"}
  /\ \A a \in Arrivals : apc[a] \in {"done", "failed"}
  /\ \A u \in Unblocks : upc[u] # "update" /\ (upc[u] = "idle" => ~ block.exists)
  /\ UNCHANGED vars

Init ==
  /\ now = 0
  /\ deniedAt = [d \in Denials |-> Null]
  /\ block = NoBlock
  /\ dpc = [d \in Denials |-> "idle"]
  /\ dnow = [d \in Denials |-> Null]
  /\ since = [d \in Denials |-> Null]
  /\ seen = [d \in Denials |-> {}]
  /\ apc = [a \in Arrivals |-> "idle"]
  /\ anow = [a \in Arrivals |-> Null]
  /\ outcome = [a \in Arrivals |-> "none"]
  /\ upc = [u \in Unblocks |-> "idle"]
  /\ unow = [u \in Unblocks |-> Null]
  /\ endedAt = Null
  /\ fresh = {}
  /\ armedBy = {}
  /\ sheltered = {}

DenialStep(d) ==
  \/ BeginDenial(d) \/ CommitDenial(d) \/ LookupBlock(d) \/ CountStep(d)
  \/ UpsertBlock(d) \/ DenialFails(d)
ArrivalStep(a) ==
  BeginEvaluate(a) \/ EvaluateLookup(a) \/ RecordHit(a) \/ EvaluateFails(a)
UnblockStep(u) == BeginUnblock(u) \/ UnblockIP(u) \/ UnblockFails(u)

Next ==
  \/ \E d \in Denials : DenialStep(d)
  \/ \E a \in Arrivals : ArrivalStep(a)
  \/ \E u \in Unblocks : UnblockStep(u)
  \/ Tick
  \/ Quiescent

Spec == Init /\ [][Next]_vars

-----------------------------------------------------------------------------
(* Properties *)

\* Types of the database row, the calls' locals and the history.
TypeOK ==
  /\ now \in Time
  /\ deniedAt \in [Denials -> Time \cup {Null}]
  /\ block \in Block
  /\ dpc \in [Denials -> {"idle", "decide", "lookup", "count", "upsert", "done", "failed"}]
  /\ dnow \in [Denials -> Time \cup {Null}]
  /\ since \in [Denials -> Int]
  /\ seen \in [Denials -> SUBSET Denials]
  /\ apc \in [Arrivals -> {"idle", "lookup", "hit", "done", "failed"}]
  /\ anow \in [Arrivals -> Time \cup {Null}]
  /\ outcome \in [Arrivals -> {"none", "blocked_ip"} \cup LaterOutcomes]
  /\ upc \in [Unblocks -> {"idle", "update", "204", "404", "failed"}]
  /\ unow \in [Unblocks -> Time \cup {Null}]
  /\ endedAt \in Time \cup {Null}
  /\ fresh \subseteq Denials
  /\ armedBy \subseteq Denials
  /\ sheltered \subseteq Arrivals

\* However their calls overlap, Threshold denials inside one Window that began
\* after the last block ended and were all answered 200 have blocked the IP:
\* one of the overlapping RecordDenial calls counted them all.
ThresholdBlocks ==
  \A F \in SUBSET fresh :
    (/\ Cardinality(F) = Threshold
     /\ \A d \in F : dpc[d] = "done"
     /\ \A d, e \in F : deniedAt[d] - deniedAt[e] <= Window)
    => armedBy # {}

\* RecordDenial called after a block ended, by unblock or expiry, never counts
\* a denial decided before that end, whatever older calls write to the row
\* meanwhile.  The one way out: blocks expire, and a call with an older clock has
\* since written a block whose own term was over before that end.
FreshDenialsCountAfterUnblock ==
  \A d \in fresh : \A e \in seen[d] :
    \/ deniedAt[e] >= endedAt
    \/ BlockDuration > 0 /\ \E w \in armedBy : TermEnd(w) < endedAt

\* Once a denial has written the block and it has not ended, Evaluate lets a
\* later arrival past it only when blocks expire and the term of some call that
\* wrote the row was over at the arrival's clock: overlapping denials may cut a
\* block to the oldest of their terms, never below, and a permanent one not at all.
BlockHoldsItsTerm ==
  \A a \in sheltered :
    (apc[a] = "done" /\ outcome[a] # "blocked_ip")
      => BlockDuration > 0 /\ \E w \in armedBy : TermEnd(w) <= anow[a]
===============================================================================
