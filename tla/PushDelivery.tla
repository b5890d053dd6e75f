----------------------------- MODULE PushDelivery ------------------------------
(***************************************************************************)
(* A round of pushes (handler/push.go pushAll): the registered phones are  *)
(* listed and each gets the message from a goroutine of its own, through   *)
(* the FCM client (fcm/fcm.go Send).  The sends share one OAuth access     *)
(* token and the mutex around it (fcm/token.go).  Phones register and are  *)
(* retired meanwhile (handler/devices.go, db/postgres_devices.go).         *)
(*                                                                         *)
(* RequestLifecycle takes a round as one step whose outcome nobody awaits. *)
(***************************************************************************)
EXTENDS Integers

CONSTANTS
  Rounds,         \* calls of pushAll
  Phones,         \* FCM tokens of phones, the key of the devices table
  Lifetime,       \* expires_in of an access token
  Margin,         \* refreshMargin
  Timeout,        \* PushTimeout
  MaxTokens, MaxTime      \* bounds: access tokens minted, the clock

ASSUME TimesAssumption ==
  /\ Lifetime \in Nat
  /\ Timeout \in Nat
  /\ Margin \in Nat
  /\ Timeout <= Margin          \* 5 s and a minute
  /\ Timeout < Lifetime
  /\ MaxTokens \in Nat
  /\ MaxTime \in Nat

VARIABLES
  now,            \* the wall clock
  devices,        \* the devices table
  cached, expiresAt,      \* the client's access token, and when it ends
  lock, lockedAt, \* who holds the client's mutex to mint, and since when
  minted, validUntil,     \* the token endpoint: tokens given, and their ends
  revoked,        \* tokens Google stopped accepting early
  rpc, deadline,  \* of each round: control point, end of its context
  spc, token,     \* of each send: control point and the access token it uses
  delivered,      \* history: how often FCM accepted the message of a send
  rejected,       \* history: tokens a send got a 401 for
  listed          \* history: rounds that listed the phone before its deletion

clientVars == <<cached, expiresAt, lock, lockedAt>>
google     == <<minted, validUntil, revoked>>
sendVars   == <<spc, token>>
vars == <<now, devices, clientVars, google, rpc, deadline, sendVars, delivered, rejected,
          listed>>

-----------------------------------------------------------------------------
Sends == Rounds \X Phones
NoSend == <<>>
NoToken == 0
Tokens == 1 .. MaxTokens
EndUnknown == MaxTime + Lifetime + 1    \* of a token given without expires_in
Time == 0 .. MaxTime

Goto(s, point) == spc' = [spc EXCEPT ![s] = point]
Ended == {"none", "ok", "unregistered", "failed"}
CtxDone(rd) == now >= deadline[rd]

-----------------------------------------------------------------------------
(* The devices table *)

\* UpsertDevice: a new phone, or a known one, which is no longer deleted.
RegisterDevice(p) ==
  /\ devices[p] # "active"
  /\ devices' = [devices EXCEPT ![p] = "active"]
  /\ listed' = [listed EXCEPT ![p] = {}]
  /\ UNCHANGED <<now, clientVars, google, rpc, deadline, sendVars, delivered, rejected>>

\* DeleteDevice only sets deleted_at; a phone deleted already is a 404.
DeleteDevice(p) ==
  /\ devices[p] = "active"
  /\ devices' = [devices EXCEPT ![p] = "deleted"]
  /\ listed' = [listed EXCEPT ![p] = {rd \in Rounds : rpc[rd] # "idle"}]
  /\ UNCHANGED <<now, clientVars, google, rpc, deadline, sendVars, delivered, rejected>>

-----------------------------------------------------------------------------
(* pushAll *)

ListDevicesAll == {p \in Phones : devices[p] # "none"}
ListDevices == {p \in Phones : devices[p] = "active"}

\* A round starts with time for its deadline before the bounded clock ends.
BeginRound(rd) ==
  /\ rpc[rd] = "idle"
  /\ now + Timeout <= MaxTime
  /\ rpc' = [rpc EXCEPT ![rd] = "sending"]
  /\ deadline' = [deadline EXCEPT ![rd] = now + Timeout]
  /\ spc' = [s \in Sends |-> IF s[1] = rd /\ s[2] \in ListDevices THEN "lock" ELSE spc[s]]
  /\ UNCHANGED <<now, devices, clientVars, google, token, delivered, rejected, listed>>

\* The list cannot be read: nobody is told.
ListFails(rd) ==
  /\ rpc[rd] = "idle"
  /\ rpc' = [rpc EXCEPT ![rd] = "done"]
  /\ UNCHANGED <<now, devices, clientVars, google, deadline, sendVars, delivered, rejected,
                 listed>>

\* The request whose round this is was given up: its context ends.
Cancel(rd) ==
  /\ rpc[rd] = "sending"
  /\ ~ CtxDone(rd)
  /\ deadline' = [deadline EXCEPT ![rd] = now]
  /\ UNCHANGED <<now, devices, clientVars, google, rpc, sendVars, delivered, rejected,
                 listed>>

EndRound(rd) ==
  /\ rpc[rd] = "sending"
  /\ \A p \in Phones : spc[<<rd, p>>] \in Ended
  /\ rpc' = [rpc EXCEPT ![rd] = "done"]
  /\ UNCHANGED <<now, devices, clientVars, google, deadline, sendVars, delivered, rejected,
                 listed>>

-----------------------------------------------------------------------------
(* The access token: accessTokenFor, mint and forget *)

Posting(s) == IF spc[s] = "lock" THEN "post" ELSE "repost"

UsableToExpiry == cached # NoToken /\ now < expiresAt
Usable == cached # NoToken /\ now < expiresAt - Margin

\* accessTokenFor with a token to reuse: lock, read, unlock.
ReuseToken(s) ==
  /\ spc[s] \in {"lock", "relock"}
  /\ lock = NoSend
  /\ Usable
  /\ token' = [token EXCEPT ![s] = cached]
  /\ Goto(s, Posting(s))
  /\ UNCHANGED <<now, devices, clientVars, google, rpc, deadline, delivered, rejected,
                 listed>>

NotLocked(s) == lock' = lock /\ lockedAt' = now
Locked(s) == lock' = s /\ lockedAt' = now

\* accessTokenFor without one: the mutex stays locked during the mint.
BeginMint(s) ==
  /\ spc[s] \in {"lock", "relock"}
  /\ lock = NoSend
  /\ ~ Usable
  /\ Locked(s)
  /\ Goto(s, IF spc[s] = "lock" THEN "mint" ELSE "remint")
  /\ UNCHANGED <<now, devices, cached, expiresAt, google, rpc, deadline, token, delivered,
                 rejected, listed>>

\* mint: a token with its lifetime, or one without expires_in, which ends whenever
\* Google likes (Revoke) and which accessTokenFor stores as ended already.
Mint(s) ==
  /\ spc[s] \in {"mint", "remint"}
  /\ ~ CtxDone(s[1])
  /\ minted < MaxTokens
  /\ minted' = minted + 1
  /\ \E known \in BOOLEAN :
       /\ validUntil' = [validUntil EXCEPT ![minted + 1] =
                           IF known THEN now + Lifetime ELSE EndUnknown]
       /\ expiresAt' = IF known THEN lockedAt + Lifetime ELSE lockedAt
  /\ cached' = minted + 1
  /\ token' = [token EXCEPT ![s] = minted + 1]
  /\ lock' = NoSend
  /\ lockedAt' = 0
  /\ Goto(s, IF spc[s] = "mint" THEN "post" ELSE "repost")
  /\ UNCHANGED <<now, devices, revoked, rpc, deadline, delivered, rejected, listed>>

MintFailsLocked(s) ==
  /\ spc[s] \in {"mint", "remint"}
  /\ Goto(s, "failed")
  /\ UNCHANGED <<now, devices, clientVars, google, rpc, deadline, token, delivered, rejected,
                 listed>>

\* The token endpoint refuses or fails, or the context ends while it is silent.
MintFails(s) ==
  /\ spc[s] \in {"mint", "remint"}
  /\ lock' = NoSend
  /\ lockedAt' = 0
  /\ Goto(s, "failed")
  /\ UNCHANGED <<now, devices, cached, expiresAt, google, rpc, deadline, token, delivered,
                 rejected, listed>>

ForgottenAlways(s) == TRUE
Forgotten(s) == cached = token[s]

\* forget: only the token that was rejected, another may be there by now.
Forget(s) ==
  /\ spc[s] = "forget"
  /\ lock = NoSend
  /\ cached' = IF Forgotten(s) THEN NoToken ELSE cached
  /\ expiresAt' = IF Forgotten(s) THEN 0 ELSE expiresAt
  /\ Goto(s, "relock")
  /\ UNCHANGED <<now, devices, lock, lockedAt, google, rpc, deadline, token, delivered,
                 rejected, listed>>

-----------------------------------------------------------------------------
(* Send: one post, and a second one after a 401 *)

Untimed(t) == t # NoToken /\ validUntil[t] = EndUnknown
Accepted(t) == t \notin revoked /\ now < validUntil[t]

\* FCM takes the message or not; checkResponse maps the answer.
PostAnswered(s) ==
  /\ spc[s] \in {"post", "repost"}
  /\ ~ CtxDone(s[1])
  /\ Accepted(token[s])
  /\ \E point \in {"ok", "unregistered", "failed"} :
       /\ Goto(s, point)
       /\ delivered' = [delivered EXCEPT ![s] = IF point = "ok" THEN @ + 1 ELSE @]
  /\ UNCHANGED <<now, devices, clientVars, google, rpc, deadline, token, rejected, listed>>

RetriesOnce(s) == IF spc[s] = "post" THEN "forget" ELSE "failed"

\* A 401: forget the token and try once more.
PostUnauthorized(s) ==
  /\ spc[s] \in {"post", "repost"}
  /\ ~ CtxDone(s[1])
  /\ ~ Accepted(token[s])
  /\ rejected' = rejected \cup {token[s]}
  /\ Goto(s, RetriesOnce(s))
  /\ UNCHANGED <<now, devices, clientVars, google, rpc, deadline, token, delivered, listed>>

AfterLostRetry(s) == IF spc[s] = "post" THEN "forget" ELSE "failed"
AfterLost(s) == "failed"

\* No answer arrives, whether FCM took the message or not.
PostFails(s) ==
  /\ spc[s] \in {"post", "repost"}
  /\ \E taken \in IF Accepted(token[s]) THEN {0, 1} ELSE {0} :
       delivered' = [delivered EXCEPT ![s] = @ + taken]
  /\ Goto(s, AfterLost(s))
  /\ UNCHANGED <<now, devices, clientVars, google, rpc, deadline, token, rejected, listed>>

Revoke(t) ==
  /\ t \in 1 .. minted
  /\ t \notin revoked
  /\ revoked' = revoked \cup {t}
  /\ UNCHANGED <<now, devices, clientVars, minted, validUntil, rpc, deadline, sendVars,
                 delivered, rejected, listed>>

Tick ==
  /\ now < MaxTime
  /\ now' = now + 1
  /\ UNCHANGED <<devices, clientVars, google, rpc, deadline, sendVars, delivered, rejected,
                 listed>>

Quiescent ==
  /\ now = MaxTime
  /\ \A rd \in Rounds : rpc[rd] # "sending"
  /\ UNCHANGED vars

-----------------------------------------------------------------------------
Init ==
  /\ now = 0
  /\ devices \in [Phones -> {"none", "active"}]
  /\ cached = NoToken
  /\ expiresAt = 0
  /\ lock = NoSend
  /\ lockedAt = 0
  /\ minted = 0
  /\ validUntil = [t \in Tokens |-> 0]
  /\ revoked = {}
  /\ rpc = [rd \in Rounds |-> "idle"]
  /\ deadline = [rd \in Rounds |-> 0]
  /\ spc = [s \in Sends |-> "none"]
  /\ token = [s \in Sends |-> NoToken]
  /\ delivered = [s \in Sends |-> 0]
  /\ rejected = {}
  /\ listed = [p \in Phones |-> {}]

\* What a send does by itself, the end of its context included.
SendStep(s) ==
  \/ ReuseToken(s) \/ BeginMint(s) \/ Forget(s)
  \/ CtxDone(s[1]) /\ (MintFails(s) \/ PostFails(s))

Next ==
  \/ \E p \in Phones : RegisterDevice(p) \/ DeleteDevice(p)
  \/ \E rd \in Rounds : BeginRound(rd) \/ ListFails(rd) \/ Cancel(rd) \/ EndRound(rd)
  \/ \E s \in Sends :
       \/ SendStep(s) \/ Mint(s) \/ MintFails(s)
       \/ PostAnswered(s) \/ PostUnauthorized(s) \/ PostFails(s)
  \/ \E t \in Tokens : Revoke(t)
  \/ Tick
  \/ Quiescent

Spec == Init /\ [][Next]_vars

\* The clock advances and goroutines run; Google owes no answer.
FairSpec ==
  /\ Spec
  /\ WF_vars(Tick)
  /\ \A s \in Sends : WF_vars(SendStep(s))
  /\ \A rd \in Rounds : WF_vars(EndRound(rd))

-----------------------------------------------------------------------------
(* Properties *)

TypeOK ==
  /\ now \in Time
  /\ devices \in [Phones -> {"none", "active", "deleted"}]
  /\ cached \in 0 .. minted
  /\ expiresAt \in Nat
  /\ lock \in {s \in Sends : spc[s] \in {"mint", "remint"}} \cup {NoSend}
  /\ lockedAt \in Time
  /\ minted \in 0 .. MaxTokens
  /\ validUntil \in [Tokens -> Nat]
  /\ revoked \subseteq 1 .. minted
  /\ rpc \in [Rounds -> {"idle", "sending", "done"}]
  /\ deadline \in [Rounds -> Nat]
  /\ spc \in [Sends -> Ended \cup {"lock", "mint", "post", "forget", "relock", "remint",
                                   "repost"}]
  /\ token \in [Sends -> 0 .. minted]
  /\ delivered \in [Sends -> Nat]
  /\ rejected \subseteq 1 .. minted
  /\ listed \in [Phones -> SUBSET Rounds]

\* A send that got its 401 late never drops a newer access token: the client
\* loses a token only after FCM rejected that very token (token.go forget).
OnlyRejectedForgotten ==
  [][(cached # NoToken /\ cached' = NoToken) => cached \in rejected]_vars

\* Sends that need a token at the same time share one token request: two never
\* mint together, in one round or in two, nor does one mint while the cache
\* holds a usable token (token.go accessTokenFor).
OneMintForAll ==
  LET Minting == {s \in Sends : spc[s] \in {"mint", "remint"}} IN
  \A s \in Minting : Minting = {s} /\ ~ Usable

\* A phone gets the message of a round at most once, although the first post may
\* have been taken before it was retried or its answer was lost (fcm.go Send).
DeliveredOnce == \A s \in Sends : delivered[s] <= 1

\* No access token runs out in the middle of a push round: until the round's
\* deadline, included, a send holds a token that has not expired, wherever it got
\* it from (token.go refreshMargin).  Nothing can be said of a token without
\* expires_in, so it serves the send that asked for it and no other (mint).
TokenOutlivesRound ==
  /\ \A s \in Sends :
       (spc[s] \in {"post", "repost"} /\ now <= deadline[s[1]] /\ ~ Untimed(token[s]))
         => now < validUntil[token[s]]
  /\ \A s, t \in Sends : Untimed(token[s]) /\ token[t] = token[s] => s = t

\* A retired phone is left alone by every round that begins after its DELETE.
\* Not "at once", as the comment of deleteDevice has it: a round that had listed
\* the phone before its DELETE, and no other, still reaches it (devices.go, push.go).
DeletedPhoneLeftAlone ==
  [][\A s \in Sends :
       (delivered'[s] # delivered[s] /\ devices[s[2]] # "active")
         => s[1] \in listed[s[2]]]_vars

\* pushAll returns: a token endpoint or FCM that never answers, and a mutex held
\* by a send of another round, delay a round but never hang the handler that
\* waits for it (push.go).
RoundEnds == \A rd \in Rounds : rpc[rd] = "sending" ~> rpc[rd] = "done"
===============================================================================
