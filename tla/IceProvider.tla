----------------------------- MODULE IceProvider -----------------------------
(***************************************************************************)
(* Where relay credentials come from and how long they last: iceProvider   *)
(* of the service (services/signaling/ice.go) and the one fetch a page     *)
(* makes of them (prefetchIce of signaling.ts).                            *)
(*                                                                         *)
(* handleICE runs in a goroutine per request.  turn() holds p.mu across    *)
(* its call to the provider, so a request is "waiting" for the mutex,      *)
(* "calling" with it, or over.  A page may give up on a request the        *)
(* service still works on; the service may or may not hear of that.        *)
(*                                                                         *)
(* The service is one with a TURN key: without it every answer is Bare.    *)
(***************************************************************************)
EXTENDS Integers

CONSTANTS Pages,   \* loaded pages, each asking at most one thing at a time
          Ttl,     \* p.cfTTL, in ticks
          Timeout, \* of p.client, in ticks
          Horizon  \* bound: the clock stops here

ASSUME IceAssumption == Ttl \in Nat /\ Timeout \in Nat /\ Horizon \in Nat

VARIABLES now,
          cached, expiry, \* of iceProvider
          request, \* the goroutine of handleICE that serves each page
          ice      \* icePending of each page, and what it came to

vars == <<now, cached, expiry, request, ice>>

\* What a configuration has beside the service's own STUN: a relay whose
\* credentials lapse at "until", or nothing that helps against a strict NAT.
Relayed(t) == [is |-> "relay", until |-> t]
Bare == [is |-> "stun", until |-> 0]
Nothing == [is |-> "none", until |-> 0]
Asked == [is |-> "asked", until |-> 0]
Config == [is : {"relay", "stun", "none", "asked"}, until : Nat]

Idle == [at |-> "no", since |-> 0]

TypeOK ==
  /\ now \in Nat /\ expiry \in Nat
  /\ cached \in Config /\ cached # Asked
  /\ request \in [Pages -> [at : {"no", "waiting", "calling"}, since : Nat]]
  /\ ice \in [Pages -> Config]

Init ==
  /\ now = 0 /\ expiry = 0
  /\ cached = Nothing
  /\ request = [p \in Pages |-> Idle]
  /\ ice = [p \in Pages |-> Nothing]

\* Mutant: the credentials are kept until they lapse.
FreshToTheEnd == cached # Nothing /\ now < expiry + Ttl \div 4
\* Mutant: the mutex protects the fields, not the call.
NeverLocked == FALSE

Locked == \E p \in Pages : request[p].at = "calling"
Fresh == cached # Nothing /\ now < expiry

\* Three quarters of the lifetime, from when the answer is there.
Refresh == Ttl - Ttl \div 4

\* The response reaches a page that still waits for it.
Responds(p, config) ==
  /\ request' = [request EXCEPT ![p] = Idle]
  /\ ice' = IF ice[p] = Asked THEN [ice EXCEPT ![p] = config] ELSE ice

----------------------------------------------------------------------------
\* prefetchIce(): a page asks once.
Prefetch(p) ==
  /\ ice[p] = Nothing /\ request[p] = Idle
  /\ ice' = [ice EXCEPT ![p] = Asked]
  /\ request' = [request EXCEPT ![p].at = "waiting"]
  /\ UNCHANGED <<now, cached, expiry>>

\* The fetch fails: the fallback stays for the life of the page.  The request
\* goes on, unless the service learns that its client is gone.
GiveUp(p) ==
  /\ ice[p] = Asked
  /\ ice' = [ice EXCEPT ![p] = Bare]
  /\ \/ request' = [request EXCEPT ![p] = Idle]
     \/ UNCHANGED request
  /\ UNCHANGED <<now, cached, expiry>>

\* turn() finds credentials that are good for a while.
FromCache(p) ==
  /\ request[p].at = "waiting" /\ ~Locked
  /\ Fresh
  /\ Responds(p, cached)
  /\ UNCHANGED <<now, cached, expiry>>

\* It does not, and asks the provider, with the mutex held.
Call(p) ==
  /\ request[p].at = "waiting" /\ ~Locked
  /\ ~Fresh
  /\ request' = [request EXCEPT ![p] = [at |-> "calling", since |-> now]]
  /\ UNCHANGED <<now, cached, expiry, ice>>

\* The provider answers with credentials it made at some point of the call, or
\* with its STUN endpoint alone.
Minted(p) ==
  /\ request[p].at = "calling"
  /\ \E kept \in {Relayed(t + Ttl) : t \in request[p].since .. now} \cup {Bare} :
       /\ cached' = kept
       /\ Responds(p, kept)
  /\ expiry' = now + Refresh
  /\ UNCHANGED now

\* Mutant: an error of turn() is passed on to nobody.
RefusedSilently(p) ==
  /\ request[p].at = "calling"
  /\ request' = [request EXCEPT ![p] = Idle]
  /\ UNCHANGED <<now, cached, expiry, ice>>

\* It refuses, times out, or answers with something else: STUN will have to do.
Refused(p) ==
  /\ request[p].at = "calling"
  /\ Responds(p, Bare)
  /\ UNCHANGED <<now, cached, expiry>>

\* The page is loaded again.
Reload(p) ==
  /\ ice[p] # Nothing /\ request[p] = Idle
  /\ ice' = [ice EXCEPT ![p] = Nothing]
  /\ UNCHANGED <<now, cached, expiry, request>>

\* No call outlives the timeout of p.client.
Tick ==
  /\ now < Horizon
  /\ \A p \in Pages : request[p].at = "calling" => now < request[p].since + Timeout
  /\ now' = now + 1
  /\ UNCHANGED <<cached, expiry, request, ice>>

Next ==
  \/ Tick
  \/ \E p \in Pages : \/ Prefetch(p) \/ GiveUp(p) \/ FromCache(p) \/ Call(p)
                      \/ Minted(p) \/ Refused(p) \/ Reload(p)

Spec == Init /\ [][Next]_vars

\* A call ends, by its timeout if nothing else; a mutex of Go is handed to who
\* has waited for long, whatever the others do.
FairSpec ==
  /\ Spec
  /\ \A p \in Pages : /\ WF_vars(Minted(p) \/ Refused(p))
                      /\ SF_vars(FromCache(p) \/ Call(p))

----------------------------------------------------------------------------
\* A page that gets a relay gets it with a quarter of its lifetime left, less
\* what one call may take: through whatever calls, failures and waits the
\* credentials came (ice.go:126, ice.go:183).
AliveWhenServed ==
  [][\A p \in Pages :
       ice'[p] # ice[p] /\ ice'[p].is = "relay" => ice'[p].until - now >= Ttl \div 4 - Timeout]_vars

\* The provider is asked for new credentials only when those in hand are near
\* their end: of all who wait for the mutex one asks and the others find what it
\* got (ice.go:119-121).
MintedOnce == [][<<cached, expiry>>' # <<cached, expiry>> => now >= expiry]_vars

\* Every page that asks gets an answer, or has stopped waiting for one, however
\* many wait for the same mutex and however many calls fail.
EveryoneAnswered == \A p \in Pages : (ice[p] = Asked) ~> (ice[p] # Asked)
=============================================================================
