-------------------------- MODULE PushDeliveryProofs ---------------------------
(***************************************************************************)
(* Theorems about PushDelivery, for every number of rounds and phones and  *)
(* every lifetime, margin and timeout that the assumptions allow.          *)
(***************************************************************************)
EXTENDS PushDelivery, TLAPS

\* What a send may rely on: the mutex while it mints, a listed phone, a message
\* not sent yet, a token that outlasts the round, a rejection before it forgets.
SendInv ==
  \A s \in Sends :
    /\ spc[s] \in {"mint", "remint"} => lock = s
    /\ spc[s] # "none" => rpc[s[1]] # "idle"
    /\ spc[s] # "none" => devices[s[2]] = "active" \/ s[1] \in listed[s[2]]
    /\ spc[s] \notin {"ok", "failed"} => delivered[s] = 0
    /\ delivered[s] <= 1
    /\ spc[s] \in {"post", "repost"} =>
         token[s] # NoToken /\ deadline[s[1]] < validUntil[token[s]]
    /\ spc[s] = "forget" => token[s] \in rejected

\* The client's token: nobody replaces a usable one, and the client believes it
\* to end no later than Google does.
TokenInv ==
  /\ lock # NoSend => ~ Usable
  /\ cached # NoToken => expiresAt <= validUntil[cached]
  /\ lockedAt <= now
  /\ \A rd \in Rounds : deadline[rd] <= now + Timeout

Inv == TypeOK /\ SendInv /\ TokenInv

\* A send is a round and a phone, and never the absent one.
LEMMA SendPair ==
  ASSUME NEW s \in Sends
  PROVE  s[1] \in Rounds /\ s[2] \in Phones /\ s # NoSend
BY DEF Sends, NoSend

\* The initial state satisfies the invariant.
LEMMA InitInv == Init => Inv
<1> SUFFICES ASSUME Init PROVE Inv
  OBVIOUS
<1>1. TypeOK
  BY TimesAssumption DEF Init, TypeOK, Time, Tokens, NoToken, NoSend, Ended
<1>2. SendInv
  BY SendPair DEF Init, SendInv
<1>3. TokenInv
  BY TimesAssumption DEF Init, TokenInv, NoSend, NoToken
<1>4. QED
  BY <1>1, <1>2, <1>3 DEF Inv

\* A registration or a deletion keeps the invariant.
LEMMA DevicesKeepInv ==
  ASSUME Inv, NEW p \in Phones,
         RegisterDevice(p) \/ DeleteDevice(p)
  PROVE  Inv'
<1> USE TimesAssumption, SendPair DEF NoToken, Tokens
<1>0. TypeOK /\ SendInv /\ TokenInv
  BY DEF Inv
<1>1. CASE RegisterDevice(p)
  <2>1. TypeOK'
    BY <1>0, <1>1
       DEF RegisterDevice, TypeOK, SendInv, Time, Ended, clientVars, google, sendVars
  <2>2. SendInv'
    BY <1>0, <1>1
       DEF RegisterDevice, TypeOK, SendInv, TokenInv, Time, Ended, clientVars, google,
           sendVars
  <2>3. TokenInv'
    BY <1>0, <1>1
       DEF RegisterDevice, Usable, TypeOK, SendInv, TokenInv, Time, clientVars, google,
           sendVars
  <2>4. QED
    BY <2>1, <2>2, <2>3 DEF Inv
<1>2. CASE DeleteDevice(p)
  <2>1. TypeOK'
    BY <1>0, <1>2
       DEF DeleteDevice, TypeOK, SendInv, Time, Ended, clientVars, google, sendVars
  <2>2. SendInv'
    BY <1>0, <1>2
       DEF DeleteDevice, TypeOK, SendInv, TokenInv, Time, Ended, clientVars, google,
           sendVars
  <2>3. TokenInv'
    BY <1>0, <1>2
       DEF DeleteDevice, Usable, TypeOK, SendInv, TokenInv, Time, clientVars, google,
           sendVars
  <2>4. QED
    BY <2>1, <2>2, <2>3 DEF Inv
<1>3. QED
  BY <1>1, <1>2

\* A step of a round keeps the invariant.
LEMMA RoundKeepsInv ==
  ASSUME Inv, NEW rd \in Rounds,
         BeginRound(rd) \/ ListFails(rd) \/ Cancel(rd) \/ EndRound(rd)
  PROVE  Inv'
<1> USE TimesAssumption, SendPair DEF NoToken, Tokens
<1>0. TypeOK /\ SendInv /\ TokenInv
  BY DEF Inv
<1>1. CASE BeginRound(rd)
  <2>1. TypeOK'
    <3>1. spc' \in [Sends -> Ended \cup {"lock", "mint", "post", "forget", "relock", "remint",
                                         "repost"}]
      BY <1>0, <1>1 DEF BeginRound, TypeOK, Ended
    <3>2. lock' \in {s \in Sends : spc'[s] \in {"mint", "remint"}} \cup {NoSend}
      <4>1. \A s \in Sends : spc[s] # "none" => spc'[s] = spc[s]
        BY <1>0, <1>1 DEF BeginRound, TypeOK, SendInv
      <4>2. QED
        BY <1>0, <1>1, <4>1 DEF BeginRound, TypeOK, clientVars
    <3>3. deadline' \in [Rounds -> Nat]
      BY <1>0, <1>1 DEF BeginRound, TypeOK, Time
    <3>4. QED
      BY <1>0, <1>1, <3>1, <3>2, <3>3 DEF BeginRound, TypeOK, clientVars, google
  <2>2. SendInv'
    BY <1>0, <1>1
       DEF BeginRound, ListDevices, TypeOK, SendInv, TokenInv, Time, Ended, clientVars,
           google, sendVars
  <2>3. TokenInv'
    BY <1>0, <1>1
       DEF BeginRound, ListDevices, Usable, TypeOK, SendInv, TokenInv, Time, clientVars,
           google, sendVars
  <2>4. QED
    BY <2>1, <2>2, <2>3 DEF Inv
<1>2. CASE ListFails(rd)
  <2>1. TypeOK'
    BY <1>0, <1>2 DEF ListFails, TypeOK, SendInv, Time, Ended, clientVars, google, sendVars
  <2>2. SendInv'
    BY <1>0, <1>2
       DEF ListFails, TypeOK, SendInv, TokenInv, Time, Ended, clientVars, google, sendVars
  <2>3. TokenInv'
    BY <1>0, <1>2
       DEF ListFails, Usable, TypeOK, SendInv, TokenInv, Time, clientVars, google,
           sendVars
  <2>4. QED
    BY <2>1, <2>2, <2>3 DEF Inv
<1>3. CASE Cancel(rd)
  <2>1. TypeOK'
    BY <1>0, <1>3
       DEF Cancel, CtxDone, TypeOK, SendInv, Time, Ended, clientVars, google, sendVars
  <2>2. SendInv'
    BY <1>0, <1>3
       DEF Cancel, CtxDone, TypeOK, SendInv, TokenInv, Time, Ended, clientVars, google,
           sendVars
  <2>3. TokenInv'
    BY <1>0, <1>3
       DEF Cancel, CtxDone, Usable, TypeOK, SendInv, TokenInv, Time, clientVars, google,
           sendVars
  <2>4. QED
    BY <2>1, <2>2, <2>3 DEF Inv
<1>4. CASE EndRound(rd)
  <2>1. TypeOK'
    BY <1>0, <1>4 DEF EndRound, TypeOK, SendInv, Time, Ended, clientVars, google, sendVars
  <2>2. SendInv'
    BY <1>0, <1>4
       DEF EndRound, TypeOK, SendInv, TokenInv, Time, Ended, clientVars, google, sendVars
  <2>3. TokenInv'
    BY <1>0, <1>4
       DEF EndRound, Usable, TypeOK, SendInv, TokenInv, Time, clientVars, google, sendVars
  <2>4. QED
    BY <2>1, <2>2, <2>3 DEF Inv
<1>5. QED
  BY <1>1, <1>2, <1>3, <1>4

\* A step of a send on the access token keeps the invariant.
LEMMA TokenKeepsInv ==
  ASSUME Inv, NEW s \in Sends,
         ReuseToken(s) \/ BeginMint(s) \/ Mint(s) \/ MintFails(s) \/ Forget(s)
  PROVE  Inv'
<1> USE TimesAssumption, SendPair DEF NoToken, Tokens
<1>0. TypeOK /\ SendInv /\ TokenInv
  BY DEF Inv
<1>1. CASE ReuseToken(s)
  <2>1. TypeOK'
    BY <1>0, <1>1
       DEF ReuseToken, Posting, Usable, Goto, TypeOK, SendInv, Time, Ended, clientVars,
           google, sendVars
  <2>2. SendInv'
    BY <1>0, <1>1
       DEF ReuseToken, Posting, Usable, Goto, TypeOK, SendInv, TokenInv, Time, Ended,
           clientVars, google, sendVars
  <2>3. TokenInv'
    BY <1>0, <1>1
       DEF ReuseToken, Posting, Usable, Goto, TypeOK, SendInv, TokenInv, Time, clientVars,
           google, sendVars
  <2>4. QED
    BY <2>1, <2>2, <2>3 DEF Inv
<1>2. CASE BeginMint(s)
  <2>1. TypeOK'
    BY <1>0, <1>2
       DEF BeginMint, Locked, Usable, Goto, TypeOK, SendInv, Time, Ended, clientVars,
           google, sendVars
  <2>2. SendInv'
    BY <1>0, <1>2
       DEF BeginMint, Locked, Usable, Goto, TypeOK, SendInv, TokenInv, Time, Ended,
           clientVars, google, sendVars
  <2>3. TokenInv'
    BY <1>0, <1>2
       DEF BeginMint, Locked, Usable, Goto, TypeOK, SendInv, TokenInv, Time, clientVars,
           google, sendVars
  <2>4. QED
    BY <2>1, <2>2, <2>3 DEF Inv
<1>3. CASE Mint(s)
  <2>1. TypeOK'
    BY <1>0, <1>3, SMTT(40)
       DEF Mint, CtxDone, EndUnknown, Goto, TypeOK, SendInv, Time, Ended, clientVars, google,
           sendVars
  <2>2. SendInv'
    <3>1. minted \in Nat /\ minted + 1 \in Tokens /\ now < deadline[s[1]]
          /\ deadline[s[1]] <= now + Timeout
      BY <1>0, <1>3 DEF Mint, CtxDone, TypeOK, TokenInv, Time
    <3>2. validUntil'[minted + 1] \in {now + Lifetime, EndUnknown}
      BY <1>0, <1>3, <3>1 DEF Mint, TypeOK
    <3>3. deadline[s[1]] < validUntil'[minted + 1]
      BY <1>0, <3>1, <3>2 DEF EndUnknown, TypeOK, Time
    <3>4. ASSUME NEW t \in Sends, t # s
          PROVE  /\ spc'[t] = spc[t] /\ token'[t] = token[t]
                 /\ spc[t] \notin {"mint", "remint"}
                 /\ token[t] # NoToken => validUntil'[token[t]] = validUntil[token[t]]
      BY <1>0, <1>3, <3>1, <3>4 DEF Mint, Goto, TypeOK, SendInv
    <3>5. token'[s] = minted + 1 /\ spc'[s] \in {"post", "repost"}
      BY <1>0, <1>3 DEF Mint, Goto, TypeOK
    <3>6. ASSUME NEW t \in Sends, t # s PROVE SendInv!(t)'
      BY <1>0, <1>3, <3>4, <3>6 DEF Mint, SendInv
    <3>7. SendInv!(s)'
      BY <1>0, <1>3, <3>1, <3>3, <3>5 DEF Mint, SendInv
    <3>8. QED
      BY <3>6, <3>7 DEF SendInv
  <2>3. TokenInv'
    BY <1>0, <1>3
       DEF Mint, CtxDone, EndUnknown, Goto, Usable, TypeOK, SendInv, TokenInv, Time,
           clientVars, google, sendVars
  <2>4. QED
    BY <2>1, <2>2, <2>3 DEF Inv
<1>4. CASE MintFails(s)
  <2>1. TypeOK'
    BY <1>0, <1>4
       DEF MintFails, Goto, TypeOK, SendInv, Time, Ended, clientVars, google, sendVars
  <2>2. SendInv'
    BY <1>0, <1>4
       DEF MintFails, Goto, TypeOK, SendInv, TokenInv, Time, Ended, clientVars, google,
           sendVars
  <2>3. TokenInv'
    BY <1>0, <1>4
       DEF MintFails, Goto, Usable, TypeOK, SendInv, TokenInv, Time, clientVars, google,
           sendVars
  <2>4. QED
    BY <2>1, <2>2, <2>3 DEF Inv
<1>5. CASE Forget(s)
  <2>1. TypeOK'
    BY <1>0, <1>5
       DEF Forget, Forgotten, Goto, TypeOK, SendInv, Time, Ended, clientVars, google,
           sendVars
  <2>2. SendInv'
    BY <1>0, <1>5
       DEF Forget, Forgotten, Goto, TypeOK, SendInv, TokenInv, Time, Ended, clientVars,
           google, sendVars
  <2>3. TokenInv'
    BY <1>0, <1>5
       DEF Forget, Forgotten, Goto, Usable, TypeOK, SendInv, TokenInv, Time, clientVars,
           google, sendVars
  <2>4. QED
    BY <2>1, <2>2, <2>3 DEF Inv
<1>6. QED
  BY <1>1, <1>2, <1>3, <1>4, <1>5

\* A post keeps the invariant.
LEMMA PostKeepsInv ==
  ASSUME Inv, NEW s \in Sends,
         PostAnswered(s) \/ PostUnauthorized(s) \/ PostFails(s)
  PROVE  Inv'
<1> USE TimesAssumption, SendPair DEF NoToken, Tokens
<1>0. TypeOK /\ SendInv /\ TokenInv
  BY DEF Inv
<1>1. CASE PostAnswered(s)
  <2>1. TypeOK'
    <3>1. PICK point \in {"ok", "unregistered", "failed"} :
            /\ Goto(s, point)
            /\ delivered' = [delivered EXCEPT ![s] = IF point = "ok" THEN @ + 1 ELSE @]
      BY <1>1 DEF PostAnswered
    <3>2. delivered' \in [Sends -> Nat]
      BY <1>0, <3>1 DEF TypeOK
    <3>3. spc' \in [Sends -> Ended \cup {"lock", "mint", "post", "forget", "relock",
                                        "remint", "repost"}]
      BY <1>0, <3>1 DEF TypeOK, Goto, Ended
    <3>4. lock' \in {q \in Sends : spc'[q] \in {"mint", "remint"}} \cup {NoSend}
      BY <1>0, <1>1, <3>1 DEF PostAnswered, Goto, TypeOK, clientVars
    <3>5. QED
      BY <1>0, <1>1, <3>2, <3>3, <3>4 DEF PostAnswered, TypeOK, clientVars, google
  <2>2. SendInv'
    BY <1>0, <1>1
       DEF PostAnswered, Goto, TypeOK, SendInv, TokenInv, Time, Ended, clientVars, google,
           sendVars
  <2>3. TokenInv'
    BY <1>0, <1>1
       DEF PostAnswered, Goto, Usable, TypeOK, SendInv, TokenInv, Time, clientVars,
           google, sendVars
  <2>4. QED
    BY <2>1, <2>2, <2>3 DEF Inv
<1>2. CASE PostUnauthorized(s)
  <2>1. TypeOK'
    <3>1. rejected' \subseteq 1 .. minted
      <4>1. token[s] \in 1 .. minted
        BY <1>0, <1>2 DEF PostUnauthorized, TypeOK, SendInv
      <4>2. QED
        BY <1>0, <1>2, <4>1 DEF PostUnauthorized, TypeOK
    <3>2. QED
      BY <1>0, <1>2, <3>1
         DEF PostUnauthorized, RetriesOnce, Goto, TypeOK, Ended, clientVars, google
  <2>2. SendInv'
    BY <1>0, <1>2
       DEF PostUnauthorized, RetriesOnce, Goto, TypeOK, SendInv, TokenInv, Time, Ended,
           clientVars, google, sendVars
  <2>3. TokenInv'
    BY <1>0, <1>2
       DEF PostUnauthorized, RetriesOnce, Goto, Usable, TypeOK, SendInv, TokenInv, Time,
           clientVars, google, sendVars
  <2>4. QED
    BY <2>1, <2>2, <2>3 DEF Inv
<1>3. CASE PostFails(s)
  <2>1. TypeOK'
    <3>1. PICK taken \in {0, 1} : delivered' = [delivered EXCEPT ![s] = @ + taken]
      BY <1>3 DEF PostFails
    <3>2. delivered' \in [Sends -> Nat]
      BY <1>0, <3>1 DEF TypeOK
    <3>3. spc' \in [Sends -> Ended \cup {"lock", "mint", "post", "forget", "relock",
                                        "remint", "repost"}]
      BY <1>0, <1>3 DEF PostFails, AfterLost, TypeOK, Goto, Ended
    <3>4. lock' \in {q \in Sends : spc'[q] \in {"mint", "remint"}} \cup {NoSend}
      BY <1>0, <1>3 DEF PostFails, AfterLost, Goto, TypeOK, clientVars
    <3>5. QED
      BY <1>0, <1>3, <3>2, <3>3, <3>4 DEF PostFails, TypeOK, clientVars, google
  <2>2. SendInv'
    BY <1>0, <1>3
       DEF PostFails, AfterLost, Goto, TypeOK, SendInv, TokenInv, Time, Ended, clientVars,
           google, sendVars
  <2>3. TokenInv'
    BY <1>0, <1>3
       DEF PostFails, AfterLost, Goto, Usable, TypeOK, SendInv, TokenInv, Time,
           clientVars, google, sendVars
  <2>4. QED
    BY <2>1, <2>2, <2>3 DEF Inv
<1>4. QED
  BY <1>1, <1>2, <1>3

\* Every step keeps the invariant.
LEMMA StepKeepsInv == Inv /\ [Next]_vars => Inv'
<1> SUFFICES ASSUME Inv, [Next]_vars PROVE Inv'
  OBVIOUS
<1> USE TimesAssumption, SendPair DEF NoToken, Tokens
<1>0. TypeOK /\ SendInv /\ TokenInv
  BY DEF Inv
<1>1. ASSUME NEW t \in Tokens, Revoke(t) PROVE Inv'
  <2>1. TypeOK'
    BY <1>0, <1>1 DEF Revoke, TypeOK, clientVars, sendVars
  <2>2. SendInv' /\ TokenInv'
    BY <1>0, <1>1 DEF Revoke, SendInv, TokenInv, Usable, clientVars, sendVars
  <2>3. QED
    BY <2>1, <2>2 DEF Inv
<1>2. CASE Tick
  <2>1. TypeOK'
    BY <1>0, <1>2 DEF Tick, TypeOK, Time, clientVars, google, sendVars
  <2>2. SendInv'
    BY <1>0, <1>2 DEF Tick, SendInv, clientVars, google, sendVars
  <2>3. TokenInv'
    BY <1>0, <1>2 DEF Tick, TypeOK, TokenInv, Usable, Time, clientVars, google
  <2>4. QED
    BY <2>1, <2>2, <2>3 DEF Inv
<1>3. CASE UNCHANGED vars
  <2>1. TypeOK'
    BY <1>0, <1>3 DEF vars, TypeOK, clientVars, google, sendVars
  <2>2. SendInv' /\ TokenInv'
    BY <1>0, <1>3 DEF vars, SendInv, TokenInv, Usable, clientVars, google, sendVars
  <2>3. QED
    BY <2>1, <2>2 DEF Inv
<1>4. QED
  BY <1>1, <1>2, <1>3, DevicesKeepInv, RoundKeepsInv, TokenKeepsInv, PostKeepsInv
     DEF Next, SendStep, Quiescent

\* The invariant holds in every reachable state.
LEMMA AlwaysInv == Spec => []Inv
BY InitInv, StepKeepsInv, PTL DEF Spec

\* Tables, tokens, the mutex and its holder keep to their types.
THEOREM PushTypes == Spec => []TypeOK
<1>1. Inv => TypeOK
  BY DEF Inv
<1>2. QED
  BY <1>1, AlwaysInv, PTL

\* Any number of sends that need a token share one request for it
\* (OneMintForAll).
THEOREM OneMint == Spec => []OneMintForAll
<1>1. Inv => OneMintForAll
  <2> SUFFICES ASSUME Inv, NEW s \in Sends, spc[s] \in {"mint", "remint"}
               PROVE  {t \in Sends : spc[t] \in {"mint", "remint"}} = {s} /\ ~ Usable
    BY DEF OneMintForAll
  <2>1. \A t \in Sends : spc[t] \in {"mint", "remint"} => t = s
    BY DEF Inv, SendInv
  <2>2. ~ Usable
    BY SendPair DEF Inv, SendInv, TokenInv
  <2>3. QED
    BY <2>1, <2>2
<1>2. QED
  BY <1>1, AlwaysInv, PTL

\* No phone gets the message of a round twice (DeliveredOnce).
THEOREM NoDuplicate == Spec => []DeliveredOnce
<1>1. Inv => DeliveredOnce
  BY DEF Inv, SendInv, DeliveredOnce
<1>2. QED
  BY <1>1, AlwaysInv, PTL

\* A token of unknown lifetime is never cached as usable, and one send has it.
UntimedInv ==
  /\ Untimed(cached) => expiresAt <= now
  /\ \A s, t \in Sends : Untimed(token[s]) /\ token[t] = token[s] => s = t

\* Every step keeps a token of unknown lifetime to one send.
LEMMA UntimedStep ==
  ASSUME Inv, UntimedInv, [Next]_vars
  PROVE  UntimedInv'
<1> USE TimesAssumption, SendPair DEF NoToken, Tokens
<1>0. TypeOK /\ lockedAt <= now
  BY DEF Inv, TokenInv
<1>1. ASSUME NEW s \in Sends, Mint(s) PROVE UntimedInv'
  <2>1. /\ minted \in Nat /\ minted + 1 \in Tokens /\ now \in Time
        /\ cached' = minted + 1 /\ now' = now
        /\ token' = [token EXCEPT ![s] = minted + 1]
        /\ \A n \in Tokens : n <= minted => validUntil'[n] = validUntil[n]
    BY <1>0, <1>1 DEF Mint, TypeOK
  <2>2. Untimed(cached)' => expiresAt' <= now
    <3>1. CASE expiresAt' = lockedAt
      BY <1>0, <3>1
    <3>2. CASE expiresAt' # lockedAt
      <4>1. validUntil'[minted + 1] = now + Lifetime
        BY <1>0, <1>1, <2>1, <3>2 DEF Mint, TypeOK
      <4>2. QED
        BY <2>1, <4>1 DEF Untimed, EndUnknown, Time
    <3>3. QED
      BY <3>1, <3>2
  <2>3. \A t \in Sends \ {s} :
          token'[t] = token[t] /\ token[t] # minted + 1 /\ (Untimed(token[t])' => Untimed(token[t]))
    BY <1>0, <2>1 DEF TypeOK, Untimed
  <2>4. token'[s] = minted + 1
    BY <1>0, <2>1 DEF TypeOK
  <2>5. ASSUME NEW t \in Sends, NEW u \in Sends, Untimed(token[t])', token'[u] = token'[t]
        PROVE  t = u
    BY <2>3, <2>4, <2>5 DEF UntimedInv, Untimed
  <2>6. QED
    BY <2>1, <2>2, <2>5 DEF UntimedInv
<1>2. ASSUME NEW s \in Sends, ReuseToken(s) PROVE UntimedInv'
  <2>1. /\ ~ Untimed(cached)
        /\ token' = [token EXCEPT ![s] = cached]
        /\ UNCHANGED <<now, cached, expiresAt, validUntil>>
    BY <1>0, <1>2 DEF ReuseToken, Usable, UntimedInv, TypeOK, Time, clientVars, google
  <2>2. \A t \in Sends : token'[t] = (IF t = s THEN cached ELSE token[t])
    BY <1>0, <2>1 DEF TypeOK
  <2>3. QED
    BY <2>1, <2>2 DEF UntimedInv, Untimed
<1>3. ASSUME UNCHANGED <<token, validUntil>>, now' \in {now, now + 1},
             cached' = NoToken \/ UNCHANGED <<cached, expiresAt>>
      PROVE  UntimedInv'
  BY <1>0, <1>3 DEF UntimedInv, Untimed, TypeOK, Time
<1>4. CASE ~ \E s \in Sends : Mint(s) \/ ReuseToken(s)
  <2>1. UNCHANGED <<token, validUntil>> /\ now' \in {now, now + 1}
    BY <1>4
       DEF Next, vars, clientVars, google, sendVars, SendStep, RegisterDevice, DeleteDevice,
           BeginRound, ListFails, Cancel, EndRound, BeginMint, MintFails, Forget,
           PostAnswered, PostUnauthorized, PostFails, Revoke, Tick, Quiescent
  <2>2. cached' = NoToken \/ UNCHANGED <<cached, expiresAt>>
    BY <1>4
       DEF Next, vars, clientVars, google, sendVars, SendStep, RegisterDevice, DeleteDevice,
           BeginRound, ListFails, Cancel, EndRound, BeginMint, MintFails, Forget,
           PostAnswered, PostUnauthorized, PostFails, Revoke, Tick, Quiescent
  <2>3. QED
    BY <1>3, <2>1, <2>2
<1>5. QED
  BY <1>1, <1>2, <1>4

\* With a margin of at least the push timeout no token with an expires_in runs
\* out before its round's deadline, and one without serves a single send
\* (TokenOutlivesRound).
THEOREM MarginSuffices == Spec => []TokenOutlivesRound
<1>1. Init => UntimedInv
  BY DEF Init, UntimedInv, Untimed
<1>2. Inv /\ UntimedInv => TokenOutlivesRound
  <2> SUFFICES ASSUME Inv, UntimedInv,
                      NEW s \in Sends, spc[s] \in {"post", "repost"}, now <= deadline[s[1]]
               PROVE  now < validUntil[token[s]]
    BY DEF TokenOutlivesRound, UntimedInv
  <2>1. deadline[s[1]] < validUntil[token[s]] /\ token[s] \in Tokens
    BY TimesAssumption, SendPair DEF Inv, SendInv, TypeOK, Tokens, NoToken
  <2>2. QED
    BY <2>1, TimesAssumption, SendPair DEF Inv, TypeOK, Time
<1>3. QED
  BY <1>1, <1>2, UntimedStep, AlwaysInv, PTL DEF Spec

\* The client drops a token only after that token was rejected
\* (OnlyRejectedForgotten).
THEOREM NewerTokenKept == Spec => OnlyRejectedForgotten
<1>1. ASSUME Inv, [Next]_vars, cached # NoToken, cached' = NoToken PROVE cached \in rejected
  <2>1. ASSUME NEW s \in Sends, Forget(s) PROVE cached \in rejected
    BY <1>1, <2>1 DEF Forget, Forgotten, Inv, SendInv
  <2>2. ASSUME NEW s \in Sends, Mint(s) PROVE FALSE
    BY <1>1, <2>2, TimesAssumption DEF Mint, Inv, TypeOK, NoToken
  <2>3. QED
    BY <1>1, <2>1, <2>2
       DEF Next, vars, clientVars, SendStep, RegisterDevice, DeleteDevice, BeginRound,
           ListFails,
           Cancel, EndRound, ReuseToken, BeginMint, MintFails, PostAnswered, PostUnauthorized,
           PostFails, Revoke, Tick, Quiescent
<1>2. Inv /\ [Next]_vars => [(cached # NoToken /\ cached' = NoToken) => cached \in rejected]_vars
  BY <1>1
<1>3. QED
  BY <1>2, AlwaysInv, PTL DEF Spec, OnlyRejectedForgotten

\* Only a round that listed a phone before its deletion reaches it afterwards
\* (DeletedPhoneLeftAlone).
THEOREM DeletionHolds == Spec => DeletedPhoneLeftAlone
<1>1. ASSUME Inv, [Next]_vars, NEW s \in Sends, delivered'[s] # delivered[s],
             devices[s[2]] # "active"
      PROVE  s[1] \in listed[s[2]]
  <2>1. ASSUME NEW t \in Sends, PostAnswered(t) \/ PostFails(t) PROVE s[1] \in listed[s[2]]
    <3>1. t = s
      BY <1>1, <2>1 DEF PostAnswered, PostFails, Inv, TypeOK
    <3>2. spc[s] # "none"
      BY <2>1, <3>1 DEF PostAnswered, PostFails
    <3>3. QED
      BY <1>1, <3>2 DEF Inv, SendInv
  <2>2. QED
    BY <1>1, <2>1
       DEF Next, vars, SendStep, RegisterDevice, DeleteDevice, BeginRound, ListFails,
           Cancel,
           EndRound, ReuseToken, BeginMint, Mint, MintFails, Forget, PostUnauthorized, Revoke,
           Tick, Quiescent
<1>2. Inv /\ [Next]_vars =>
        [\A s \in Sends : (delivered'[s] # delivered[s] /\ devices[s[2]] # "active")
                            => s[1] \in listed[s[2]]]_vars
  BY <1>1
<1>3. QED
  BY <1>2, AlwaysInv, PTL DEF Spec, DeletedPhoneLeftAlone
===============================================================================
