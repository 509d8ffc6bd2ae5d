------------------------------ MODULE Ice_proofs ------------------------------
(* For any number of pages, any lifetime and any timeout: relay credentials  *)
(* are served while they are good for a while, and asked for no sooner.      *)
EXTENDS IceProvider, TLAPS

\* A call is no longer than the timeout, there is one at a time, and the
\* credentials in hand were past their refresh when it began.
CallsInv ==
  /\ \A p \in Pages : request[p].at = "calling" =>
       /\ request[p].since <= now /\ now <= request[p].since + Timeout
       /\ now >= expiry \/ cached = Nothing
  /\ cached = Nothing => expiry = 0
  /\ \A p, q \in Pages : request[p].at = "calling" /\ request[q].at = "calling" => p = q

\* Credentials outlast their refresh by a quarter of their lifetime, less the
\* call that got them.
CachedInv == cached.is = "relay" => cached.until + Timeout >= expiry + Ttl \div 4

IceInv == TypeOK /\ CallsInv /\ CachedInv

LEMMA Quarter == Ttl \div 4 \in Nat /\ Ttl \div 4 <= Ttl
  BY IceAssumption

LEMMA IceStart == Init => IceInv
  BY DEF Init, IceInv, TypeOK, CallsInv, CachedInv, Config, Nothing, Asked, Idle

LEMMA IceStep == IceInv /\ [Next]_vars => IceInv'
<1> SUFFICES ASSUME IceInv, [Next]_vars PROVE IceInv'
  OBVIOUS
<1> USE DEF IceInv
<1> USE IceAssumption
<1>1. ASSUME Tick PROVE IceInv'
  <2>1. TypeOK' /\ CachedInv'
    BY <1>1 DEF Tick, TypeOK, CachedInv
  <2>2. CallsInv'
    BY <1>1 DEF Tick, TypeOK, CallsInv
  <2> QED BY <2>1, <2>2
<1>2. ASSUME NEW p \in Pages, Prefetch(p) PROVE IceInv'
  <2>1. TypeOK' /\ CachedInv'
    BY <1>2 DEF Prefetch, TypeOK, CachedInv, Config, Asked
  <2>2. CallsInv'
    BY <1>2 DEF Prefetch, TypeOK, CallsInv
  <2> QED BY <2>1, <2>2
<1>3. ASSUME NEW p \in Pages, GiveUp(p) PROVE IceInv'
  <2>1. TypeOK' /\ CachedInv'
    BY <1>3 DEF GiveUp, TypeOK, CachedInv, Config, Bare, Idle
  <2>2. CallsInv'
    BY <1>3 DEF GiveUp, TypeOK, CallsInv, Idle
  <2> QED BY <2>1, <2>2
<1>4. ASSUME NEW p \in Pages, FromCache(p) PROVE IceInv'
  <2>1. TypeOK' /\ CachedInv'
    BY <1>4 DEF FromCache, Responds, TypeOK, CachedInv, Idle
  <2>2. CallsInv'
    BY <1>4 DEF FromCache, Responds, TypeOK, CallsInv, Idle
  <2> QED BY <2>1, <2>2
<1>5. ASSUME NEW p \in Pages, Call(p) PROVE IceInv'
  <2>1. TypeOK' /\ CachedInv'
    BY <1>5 DEF Call, TypeOK, CachedInv
  <2>2. CallsInv'
    BY <1>5 DEF Call, Locked, Fresh, TypeOK, CallsInv
  <2> QED BY <2>1, <2>2
<1>6. ASSUME NEW p \in Pages, Minted(p) PROVE IceInv'
  <2>1. PICK kept \in {Relayed(t + Ttl) : t \in request[p].since .. now} \cup {Bare} :
          cached' = kept /\ Responds(p, kept)
    BY <1>6 DEF Minted
  <2>2. kept \in Config /\ kept # Asked /\ kept # Nothing
    BY <2>1 DEF Relayed, Bare, Config, Asked, Nothing, TypeOK
  <2>3. kept.is = "relay" => kept.until \in Nat /\ kept.until + Timeout >= now + Ttl
    <3> SUFFICES ASSUME kept.is = "relay" PROVE kept.until \in Nat /\ kept.until + Timeout >= now + Ttl
      OBVIOUS
    <3>1. PICK t \in request[p].since .. now : kept = Relayed(t + Ttl)
      BY <2>1 DEF Bare
    <3>2. request[p].at = "calling"
      BY <1>6 DEF Minted
    <3> QED BY <3>1, <3>2 DEF Relayed, CallsInv, TypeOK
  <2>4. expiry' \in Nat /\ expiry' = now + (Ttl - Ttl \div 4)
    BY <1>6, Quarter DEF Minted, Refresh, TypeOK
  <2>5. TypeOK'
    BY <1>6, <2>1, <2>2, <2>4 DEF Minted, Responds, TypeOK, Idle
  <2>6. CachedInv'
    BY <2>1, <2>3, <2>4, Quarter DEF CachedInv, TypeOK
  <2>7. \A q \in Pages : request'[q].at # "calling"
    BY <1>6, <2>1 DEF Minted, Responds, TypeOK, CallsInv, Idle
  <2>8. CallsInv'
    BY <2>1, <2>2, <2>7 DEF CallsInv
  <2> QED BY <2>5, <2>6, <2>8
<1>7. ASSUME NEW p \in Pages, Refused(p) PROVE IceInv'
  <2>1. TypeOK' /\ CachedInv'
    BY <1>7 DEF Refused, Responds, TypeOK, CachedInv, Config, Bare, Idle
  <2>2. CallsInv'
    BY <1>7 DEF Refused, Responds, TypeOK, CallsInv, Idle
  <2> QED BY <2>1, <2>2
<1>8. ASSUME NEW p \in Pages, Reload(p) PROVE IceInv'
  BY <1>8 DEF Reload, TypeOK, CallsInv, CachedInv, Config, Nothing
<1>9. ASSUME UNCHANGED vars PROVE IceInv'
  BY <1>9 DEF vars, TypeOK, CallsInv, CachedInv
<1> QED BY <1>1, <1>2, <1>3, <1>4, <1>5, <1>6, <1>7, <1>8, <1>9 DEF Next

\* Only a request that finds good credentials, or brings new ones, hands a
\* relay to a page.
LEMMA ServedStep ==
  ASSUME IceInv, [Next]_vars, NEW p \in Pages, ice'[p] # ice[p], ice'[p].is = "relay"
  PROVE  ice'[p].until - now >= Ttl \div 4 - Timeout
<1> USE IceAssumption, Quarter
<1>1. ASSUME NEW q \in Pages, FromCache(q) PROVE ice'[p].until - now >= Ttl \div 4 - Timeout
  <2>1. ice'[p] = cached /\ now < expiry
    BY <1>1 DEF FromCache, Responds, Fresh, IceInv, TypeOK
  <2> QED BY <2>1 DEF IceInv, CachedInv, TypeOK, Config
<1>2. ASSUME NEW q \in Pages, Minted(q) PROVE ice'[p].until - now >= Ttl \div 4 - Timeout
  <2>1. PICK kept \in {Relayed(t + Ttl) : t \in request[q].since .. now} \cup {Bare} : Responds(q, kept)
    BY <1>2 DEF Minted
  <2>2. ice'[p] = kept
    BY <2>1 DEF Responds, IceInv, TypeOK
  <2>3. PICK t \in request[q].since .. now : kept = Relayed(t + Ttl)
    BY <2>1, <2>2 DEF Bare
  <2>4. now <= request[q].since + Timeout
    BY <1>2 DEF Minted, IceInv, CallsInv
  <2> QED BY <2>2, <2>3, <2>4 DEF Relayed, IceInv, TypeOK
<1>3. ASSUME NEW q \in Pages, Prefetch(q) \/ GiveUp(q) \/ Refused(q) \/ Reload(q) PROVE FALSE
  BY <1>3 DEF Prefetch, GiveUp, Refused, Reload, Responds, Asked, Bare, Nothing, IceInv, TypeOK
<1>4. ASSUME NEW q \in Pages, Call(q) PROVE FALSE
  BY <1>4 DEF Call
<1> QED BY <1>1, <1>2, <1>3, <1>4 DEF Next, Tick, vars

\* Whatever calls, failures and waits they came through, relay credentials have
\* a quarter of their lifetime left, less one timeout, when a page gets them
\* (ice.go:126, ice.go:183), for any number of pages and any lifetimes.
THEOREM ServedAlive == Spec => AliveWhenServed
<1>1. IceInv /\ [Next]_vars => [\A p \in Pages :
        ice'[p] # ice[p] /\ ice'[p].is = "relay" => ice'[p].until - now >= Ttl \div 4 - Timeout]_vars
  BY ServedStep
<1> QED BY <1>1, IceStart, IceStep, PTL DEF Spec, AliveWhenServed

\* The provider is asked for new credentials only when those in hand are near
\* their end, however many requests wait for the mutex (ice.go:119-128).
THEOREM AskedOnce == Spec => MintedOnce
<1>1. IceInv /\ [Next]_vars => [<<cached, expiry>>' # <<cached, expiry>> => now >= expiry]_vars
  <2> SUFFICES ASSUME IceInv, Next, <<cached, expiry>>' # <<cached, expiry>> PROVE now >= expiry
    BY DEF vars
  <2>1. PICK p \in Pages : Minted(p)
    BY DEF Next, Tick, Prefetch, GiveUp, FromCache, Call, Refused, Reload
  <2> QED BY <2>1 DEF Minted, IceInv, CallsInv, TypeOK
<1> QED BY <1>1, IceStart, IceStep, PTL DEF Spec, MintedOnce
=============================================================================
