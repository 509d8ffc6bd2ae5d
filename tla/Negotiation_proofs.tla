-------------------------- MODULE Negotiation_proofs --------------------------
(***************************************************************************)
(* What a session guarantees however often its sockets drop, are dialed    *)
(* again, or are closed: nobody's socket or retry outlives its engine; and *)
(* what the two engines keep true of themselves and of each other from     *)
(* start() to the offer, whatever their promises and messages do.          *)
(***************************************************************************)
EXTENDS Session, SequenceTheorems, WellFoundedInduction, TLAPS

-----------------------------------------------------------------------------
(* engines and channels are records, whatever the methods make of them *)

EngineFields == {"state", "chan", "has", "linked", "cur", "cand", "early", "conns",
                 "cancelled", "unreachable", "heard"}
ChannelFields == {"ws", "first", "closed", "reconnect", "attempt", "timer"}

Shaped(e) ==
  /\ e = [f \in EngineFields |-> e[f]]
  /\ e.chan = [f \in ChannelFields |-> e.chan[f]]

\* An engine without a channel has neither a socket nor a timer; and a socket
\* is only given up while dialing by closing its channel.
Sound(e) ==
  /\ Shaped(e)
  /\ ~e.has => e.chan.ws \in {"none", "aborting"} /\ ~e.chan.timer
  /\ e.chan.ws = "aborting" => e.chan.closed

\* What leaves the channel alone.
Leaves(e, n) == n = [f \in EngineFields |-> n[f]] /\ n.chan = e.chan /\ n.has = e.has

LEMMA LeavesSound ==
  ASSUME NEW e, NEW n, Sound(e), Leaves(e, n)
  PROVE  Sound(n)
BY DEF Sound, Leaves, Shaped

LEMMA CleanupSound ==
  ASSUME NEW e, Sound(e)
  PROVE  Sound(Cleanup(e))
<1>1. CASE e.has
  BY <1>1 DEF Sound, Shaped, Cleanup, Shut, EngineFields, ChannelFields
<1>2. CASE ~e.has
  BY <1>2 DEF Sound, Shaped, Cleanup, EngineFields, ChannelFields
<1> QED BY <1>1, <1>2

LEMMA StateSound ==
  ASSUME NEW e, Sound(e), NEW s
  PROVE  Sound([e EXCEPT !.state = s])
BY LeavesSound DEF Sound, Leaves, Shaped, EngineFields

LEMMA FailSound ==
  ASSUME NEW e, Sound(e), NEW s
  PROVE  Sound(Fail(e, s))
BY StateSound, CleanupSound DEF Fail

-----------------------------------------------------------------------------
(* what the methods leave alone *)

LEMMA ConfiguredLeaves ==
  ASSUME NEW e, Sound(e), NEW p, NEW config
  PROVE  Sound(Configured(e, p, config))
<1>1. Leaves(e, Configured(e, p, config))
  BY DEF Sound, Shaped, Leaves, Configured, EngineFields
<1> QED BY <1>1, LeavesSound

LEMMA CreateSound ==
  ASSUME NEW e, Sound(e), NEW p, NEW offer
  PROVE  Sound(Create(e, p, offer))
<1> DEFINE n == [e EXCEPT !.conns = Append(e.conns, NewConn(offer))]
<1>1. Leaves(e, n)
  BY DEF Sound, Shaped, Leaves, EngineFields
<1>2. Sound(n)
  BY <1>1, LeavesSound
<1>3. Create(e, p, offer) \in {n, Configured(n, p, ice[p])}
  BY DEF Create
<1> QED BY <1>2, <1>3, ConfiguredLeaves

LEMMA NegotiateSound ==
  ASSUME NEW e, Sound(e)
  PROVE  Sound(Negotiate(e))
BY StateSound, CreateSound DEF Negotiate

LEMMA AnswerSound ==
  ASSUME NEW e, Sound(e), NEW offer
  PROVE  Sound(Answer(e, offer))
BY CreateSound DEF Answer

LEMMA RemoteReadySound ==
  ASSUME NEW e, Sound(e)
  PROVE  Sound(RemoteReady(e))
<1>1. Leaves(e, RemoteReady(e))
  BY DEF Sound, Shaped, Leaves, RemoteReady, EngineFields
<1> QED BY <1>1, LeavesSound

LEMMA ApplyAnswerSound ==
  ASSUME NEW e, Sound(e), NEW from
  PROVE  Sound(ApplyAnswer(e, from))
<1> DEFINE n == [e EXCEPT !.conns[e.cur].applying = from]
<1>1. Leaves(e, n)
  BY DEF Sound, Shaped, Leaves, EngineFields
<1>2. Sound(n)
  BY <1>1, LeavesSound
<1> QED BY <1>2, RemoteReadySound, FailSound DEF ApplyAnswer

LEMMA QueueSound ==
  ASSUME NEW e, Sound(e), NEW from
  PROVE  Sound(QueueCandidate(e, from))
<1>1. Leaves(e, QueueCandidate(e, from))
  BY DEF Sound, Shaped, Leaves, QueueCandidate, EngineFields
<1> QED BY <1>1, LeavesSound

LEMMA SignalSound ==
  ASSUME NEW e, Sound(e), NEW p, NEW m
  PROVE  Sound(OnSignal(e, p, m))
<1>1. Sound(PeerLeft(e, p))
  BY FailSound DEF PeerLeft
<1> QED BY <1>1, NegotiateSound, AnswerSound, ApplyAnswerSound, QueueSound DEF OnSignal

LEMMA LinkedSound ==
  ASSUME NEW e, Sound(e), NEW k
  PROVE  Sound(Linked(e, k))
<1> DEFINE n == Linked(e, k)
<1>1. n = [f \in EngineFields |-> n[f]] /\ n.has = e.has
  BY DEF Linked, Sound, Shaped, EngineFields
<1>2. n.chan = IF e.has THEN RetireReconnect(e.chan) ELSE e.chan
  BY DEF Linked, Sound, Shaped, EngineFields
<1>3. /\ n.chan = [f \in ChannelFields |-> n.chan[f]]
      /\ n.chan.ws = e.chan.ws /\ n.chan.closed = e.chan.closed
      /\ n.chan.timer => e.chan.timer
  <2> HIDE DEF n
  <2>1. CASE e.has
    BY <1>2, <2>1 DEF Sound, Shaped, RetireReconnect, ChannelFields
  <2>2. CASE ~e.has
    BY <1>2, <2>2 DEF Sound, Shaped
  <2> QED BY <2>1, <2>2
<1> HIDE DEF n
<1> QED BY <1>1, <1>3 DEF Sound, Shaped, n

-----------------------------------------------------------------------------
(* the channel *)

\* A socket that is gone gives back a channel without one.
LEMMA DroppedShape ==
  ASSUME NEW c, c = [f \in ChannelFields |-> c[f]]
  PROVE  /\ Dropped(c) = [f \in ChannelFields |-> Dropped(c)[f]]
         /\ Dropped(c).ws = "none"
         /\ c.closed => Dropped(c).timer = c.timer
<1>1. CASE c.closed
  BY <1>1 DEF Dropped, ChannelFields
<1>2. CASE ~c.closed /\ c.reconnect
  BY <1>2 DEF Dropped, ScheduleRetry, ChannelFields
<1>3. CASE ~c.closed /\ ~c.reconnect
  BY <1>3 DEF Dropped, ChannelFields
<1> QED BY <1>1, <1>2, <1>3

\* onclose, of an engine that has its channel, or of one that let go of it.
LEMMA DropSound ==
  ASSUME NEW e, Sound(e), e.chan.ws # "none"
  PROVE  Sound([e EXCEPT !.chan = Dropped(e.chan)])
<1> DEFINE t == Dropped(e.chan)
           n == [e EXCEPT !.chan = t]
<1>1. e.has \/ e.chan.closed
  BY DEF Sound
<1>2. t = [f \in ChannelFields |-> t[f]] /\ t.ws = "none" /\ (e.chan.closed => t.timer = e.chan.timer)
  BY DroppedShape DEF Sound, Shaped
<1>3. /\ n = [f \in EngineFields |-> n[f]] /\ n.chan = t /\ n.has = e.has
  <2> HIDE DEF t
  <2> QED BY DEF Sound, Shaped, EngineFields
<1> HIDE DEF t, n
<1>4. Sound(n)
  BY <1>1, <1>2, <1>3 DEF Sound, Shaped
<1> QED BY <1>4 DEF n, t

LEMMA DroppedSound ==
  ASSUME NEW e, Sound(e), NEW p, e.chan.ws # "none"
  PROVE  Sound(Rechannel(e, p, Dropped(e.chan)))
<1> DEFINE n == [e EXCEPT !.chan = Dropped(e.chan)]
<1>1. Sound(n)
  BY DropSound
<1>2. Sound(ContactLost(n, p))
  <2> HIDE DEF n
  <2> QED BY <1>1, FailSound DEF ContactLost
<1> QED BY <1>1, <1>2 DEF Rechannel

LEMMA UnsocketedSound ==
  ASSUME NEW e, Sound(e)
  PROVE  Sound([e EXCEPT !.chan.ws = "none"])
BY DEF Sound, Shaped, EngineFields, ChannelFields

LEMMA RefusedSound ==
  ASSUME NEW p, Sound(eng[p]), eng[p].chan.ws \in {"dialing", "aborting"}
  PROVE  Sound(Refused(p))
<1>1. CASE eng[p].chan.first
  <2> DEFINE n == [eng[p] EXCEPT !.chan.ws = "none"]
  <2>1. Sound(n)
    BY UnsocketedSound
  <2> HIDE DEF n
  <2>2. Sound(Fail(n, "failed")) /\ Sound(Fail(n, "expired"))
    BY <2>1, FailSound
  <2> QED BY <1>1, <2>2 DEF Refused, n
<1>2. CASE ~eng[p].chan.first
  BY <1>2, DroppedSound DEF Refused
<1> QED BY <1>1, <1>2

-----------------------------------------------------------------------------
(* the steps *)

SocketsInv ==
  /\ eng = [p \in Role |-> eng[p]]
  /\ \A p \in Role : Sound(eng[p])

LEMMA BecomesSound ==
  ASSUME SocketsInv, NEW p \in Role, NEW n, NEW inp, NEW msgs, Sound(n), Becomes(p, n, inp, msgs)
  PROVE  SocketsInv'
<1>1. eng' = [eng EXCEPT ![p] = n]
  BY DEF Becomes
<1>2. eng' = [q \in Role |-> IF q = p THEN n ELSE eng[q]]
  BY <1>1 DEF SocketsInv
<1>3. \A q \in Role : Sound(eng'[q])
  BY <1>2 DEF SocketsInv
<1>4. \A e : Sound(e)' <=> Sound(e)
  BY DEF Sound, Shaped
<1> QED BY <1>2, <1>3 DEF SocketsInv, Sound, Shaped

LEMMA TurnsSound ==
  ASSUME SocketsInv, NEW p \in Role, NEW n, Sound(n), Turns(p, n)
  PROVE  SocketsInv'
BY BecomesSound DEF Turns

LEMMA StillSound == ASSUME SocketsInv, UNCHANGED eng PROVE SocketsInv'
BY DEF SocketsInv, Sound, Shaped

\* The session is created and joined.
LEMMA StartSound ==
  ASSUME SocketsInv, Begin \/ SessionCreated \/ CreateFails \/ Open
  PROVE  SocketsInv'
<1> USE DEF Role
<1>1. Sound(eng["sender"]) /\ Sound(eng["receiver"])
  BY DEF SocketsInv
<1>2. CASE Begin
  BY <1>1, <1>2, StateSound, TurnsSound DEF Begin
<1>3. CASE SessionCreated
  <2> DEFINE n == [eng["sender"] EXCEPT !.has = TRUE, !.chan = Connecting]
  <2>1. Sound(n)
    BY <1>1 DEF Sound, Shaped, Connecting, EngineFields, ChannelFields
  <2> HIDE DEF n
  <2> QED BY <1>3, <2>1, TurnsSound DEF SessionCreated, n
<1>4. CASE CreateFails
  BY <1>1, <1>4, FailSound, TurnsSound DEF CreateFails
<1>5. CASE Open
  <2> DEFINE n == [eng["receiver"] EXCEPT !.state = "connecting", !.has = TRUE, !.chan = Connecting]
  <2>1. Sound(n)
    BY <1>1 DEF Sound, Shaped, Connecting, EngineFields, ChannelFields
  <2> HIDE DEF n
  <2> QED BY <1>5, <2>1, TurnsSound DEF Open, n
<1> QED BY <1>2, <1>3, <1>4, <1>5

\* The socket opens, is refused, drops, and is dialed again.
LEMMA SocketSound ==
  ASSUME SocketsInv, NEW p \in Role, Dials(p) \/ Blip(p) \/ TimerFires(p)
  PROVE  SocketsInv'
<1>1. Sound(eng[p])
  BY DEF SocketsInv
<1>2. CASE DialAccepted(p)
  <2> DEFINE n == [eng[p] EXCEPT !.chan = Opened(eng[p].chan)]
             m == [n EXCEPT !.state = "waiting"]
  <2>1. Sound(n)
    BY <1>1, <1>2 DEF DialAccepted, Sound, Shaped, Opened, EngineFields, ChannelFields
  <2>2. Sound(m)
    <3> HIDE DEF n
    <3> QED BY <2>1, StateSound
  <2>3. Turns(p, n) \/ Turns(p, m)
    BY <1>2 DEF DialAccepted
  <2> HIDE DEF n, m
  <2> QED BY <2>1, <2>2, <2>3, TurnsSound
<1>3. CASE DialRefused(p) \/ DialAborted(p)
  <2>1. Sound(Refused(p)) /\ Turns(p, Refused(p))
    BY <1>1, <1>3, RefusedSound DEF DialRefused, DialAborted
  <2> QED BY <2>1, TurnsSound
<1>4. CASE Blip(p)
  <2>1. Sound(Rechannel(eng[p], p, Dropped(eng[p].chan)))
    BY <1>1, <1>4, DroppedSound DEF Blip, Online
  <2> QED BY <1>4, <2>1, TurnsSound DEF Blip
<1>5. CASE TimerFires(p)
  <2> DEFINE n == [eng[p] EXCEPT !.chan = Redialing(eng[p].chan)]
  <2>1. Sound(n)
    BY <1>1, <1>5 DEF TimerFires, Sound, Shaped, Redialing, EngineFields, ChannelFields
  <2>2. Turns(p, n)
    BY <1>5 DEF TimerFires
  <2> HIDE DEF n
  <2> QED BY <2>1, <2>2, TurnsSound
<1> QED BY <1>2, <1>3, <1>4, <1>5 DEF Dials

\* Messages, fetches and the promises of a page.
LEMMA PageSound ==
  ASSUME SocketsInv, NEW p \in Role, Receive(p) \/ IceSettles(p) \/ Awaits(p) \/ Cancel(p)
  PROVE  SocketsInv'
<1>1. Sound(eng[p])
  BY DEF SocketsInv
<1>2. CASE Receive(p)
  BY <1>1, <1>2, SignalSound, BecomesSound DEF Receive
<1>3. CASE IceSettles(p)
  BY <1>1, <1>3, ConfiguredLeaves, TurnsSound DEF IceSettles
<1>4. CASE Cancel(p)
  <2> DEFINE n == [Cleanup(eng[p]) EXCEPT !.cancelled = TRUE]
  <2>1. Sound(Cleanup(eng[p]))
    BY <1>1, CleanupSound
  <2>2. Leaves(Cleanup(eng[p]), n)
    BY <2>1 DEF Sound, Shaped, Leaves, EngineFields
  <2>3. Sound(n)
    BY <2>1, <2>2, LeavesSound
  <2> HIDE DEF n
  <2> QED BY <1>4, <2>3, TurnsSound DEF Cancel, n
<1>5. ASSUME NEW k, Described(p, k) PROVE SocketsInv'
  <2> DEFINE n == [eng[p] EXCEPT !.conns[k].phase = "wait"]
  <2>1. Leaves(eng[p], n)
    BY <1>1 DEF Sound, Shaped, Leaves, EngineFields
  <2>2. Sound(n)
    BY <1>1, <2>1, LeavesSound
  <2>3. Sound(Fail(n, "failed"))
    <3> HIDE DEF n
    <3> QED BY <2>2, FailSound
  <2>4. \/ Turns(p, Fail(n, "failed"))
        \/ \E msgs : Becomes(p, n, inbox[p], msgs)
    BY <1>5 DEF Described
  <2> HIDE DEF n
  <2> QED BY <2>2, <2>3, <2>4, BecomesSound, TurnsSound
<1>6. ASSUME NEW k, Trickle(p, k) PROVE SocketsInv'
  <2> DEFINE n == [eng[p] EXCEPT !.conns[k].trickled = TRUE]
  <2>1. Leaves(eng[p], n)
    BY <1>1 DEF Sound, Shaped, Leaves, EngineFields
  <2>2. Sound(n)
    BY <1>1, <2>1, LeavesSound
  <2>3. \E msgs : Becomes(p, n, inbox[p], msgs)
    BY <1>6 DEF Trickle
  <2> HIDE DEF n
  <2> QED BY <2>2, <2>3, BecomesSound
<1>7. ASSUME NEW k, p = "sender", AnswerApplied(k) PROVE SocketsInv'
  <2> DEFINE n == [eng[p] EXCEPT !.conns[k].remote = eng[p].conns[k].applying]
  <2>1. Leaves(eng[p], n)
    BY <1>1 DEF Sound, Shaped, Leaves, EngineFields
  <2>2. Sound(n)
    BY <1>1, <2>1, LeavesSound
  <2>3. Sound(RemoteReady(n))
    <3> HIDE DEF n
    <3> QED BY <2>2, RemoteReadySound
  <2>4. Turns(p, RemoteReady(n))
    BY <1>7 DEF AnswerApplied
  <2> HIDE DEF n
  <2> QED BY <2>3, <2>4, TurnsSound
<1>8. ASSUME NEW k, p = "sender", SenderOpens(k) PROVE SocketsInv'
  <2>1. Sound([Linked(eng[p], k) EXCEPT !.state = "offering"])
    BY <1>1, LinkedSound, StateSound
  <2> QED BY <1>8, <2>1, TurnsSound DEF SenderOpens
<1>9. ASSUME NEW k, p = "receiver", ReceiverOpens(k) \/ ManifestArrives(k) PROVE SocketsInv'
  <2>1. Sound(Linked(eng[p], k)) /\ Sound([eng[p] EXCEPT !.state = "offered"])
    BY <1>1, LinkedSound, StateSound
  <2> QED BY <1>9, <2>1, TurnsSound DEF ReceiverOpens, ManifestArrives
<1>10. ASSUME NEW k, p = "receiver", OfferApplied(k) PROVE SocketsInv'
  <2> DEFINE n == [eng[p] EXCEPT !.conns[k].phase = "wait"]
             m == [eng[p] EXCEPT !.conns[k].phase = "local", !.conns[k].remote = eng[p].conns[k].offer]
  <2>1. Leaves(eng[p], n) /\ Leaves(eng[p], m)
    BY <1>1 DEF Sound, Shaped, Leaves, EngineFields
  <2>2. Sound(n) /\ Sound(m)
    BY <1>1, <2>1, LeavesSound
  <2>3. Sound(Fail(n, "failed")) /\ Sound(RemoteReady(m))
    <3> HIDE DEF n, m
    <3> QED BY <2>2, FailSound, RemoteReadySound
  <2>4. Turns(p, Fail(n, "failed")) \/ Turns(p, RemoteReady(m))
    BY <1>10 DEF OfferApplied
  <2> HIDE DEF n, m
  <2> QED BY <2>3, <2>4, TurnsSound
<1> QED BY <1>2, <1>3, <1>4, <1>5, <1>6, <1>7, <1>8, <1>9, <1>10 DEF Awaits

\* The connection of the two browsers, and the relay.
LEMMA ConnectSound ==
  ASSUME SocketsInv, NEW i, NEW j, Connect(i, j)
  PROVE  SocketsInv'
<1> USE DEF Role
<1> DEFINE s == [eng["sender"] EXCEPT !.conns[i].phase = "up"]
           r == [eng["receiver"] EXCEPT !.conns[j].phase = "up"]
<1>1. Sound(eng["sender"]) /\ Sound(eng["receiver"])
  BY DEF SocketsInv
<1>2. Leaves(eng["sender"], s) /\ Leaves(eng["receiver"], r)
  BY <1>1 DEF Sound, Shaped, Leaves, EngineFields
<1>3. Sound(s) /\ Sound(r)
  BY <1>1, <1>2, LeavesSound
<1>4. eng' = [q \in Role |-> IF q = "sender" THEN s ELSE r]
  BY DEF Connect, SocketsInv
<1> HIDE DEF s, r
<1>5. \A q \in Role : Sound(eng'[q])
  BY <1>3, <1>4
<1> QED BY <1>4, <1>5 DEF SocketsInv, Sound, Shaped

LEMMA UnreachableSound ==
  ASSUME SocketsInv, NEW p \in Role, NEW k, Unreachable(p, k)
  PROVE  SocketsInv'
<1> DEFINE e == Fail(eng[p], "failed")
           n == [e EXCEPT !.unreachable = e.unreachable \/ ~Ended(eng[p])]
<1>1. Sound(e)
  BY FailSound DEF SocketsInv
<1>2. Turns(p, n)
  BY DEF Unreachable
<1>3. Leaves(e, n)
  <2> HIDE DEF e
  <2> QED BY <1>1 DEF Sound, Shaped, Leaves, EngineFields
<1>4. Sound(n)
  <2> HIDE DEF e, n
  <2> QED BY <1>1, <1>3, LeavesSound
<1> HIDE DEF e, n
<1> QED BY <1>2, <1>4, TurnsSound

LEMMA SocketsStep == SocketsInv /\ [Next]_vars => SocketsInv'
<1> SUFFICES ASSUME SocketsInv, [Next]_vars PROVE SocketsInv'
  OBVIOUS
<1>1. CASE Begin \/ SessionCreated \/ CreateFails \/ Open
  BY <1>1, StartSound
<1>2. CASE Connects
  BY <1>2, ConnectSound DEF Connects
<1>3. CASE Expire \/ \E p \in Role : Greet(p) \/ Depart(p)
  BY <1>3, StillSound DEF Expire, Greet, Depart
<1>4. CASE \E p \in Role : \/ Dials(p) \/ Blip(p) \/ TimerFires(p)
  BY <1>4, SocketSound
<1>5. CASE \E p \in Role : \/ Receive(p) \/ IceSettles(p) \/ Awaits(p) \/ Cancel(p)
  BY <1>5, PageSound
<1>6. CASE \E p \in Role : \E k \in DOMAIN eng[p].conns : Unreachable(p, k)
  BY <1>6, UnreachableSound
<1>7. CASE UNCHANGED vars
  BY <1>7, StillSound DEF vars
<1> QED BY <1>1, <1>2, <1>3, <1>4, <1>5, <1>6, <1>7 DEF Next

\* However often sockets drop, are refused and are dialed again, and whoever
\* fails or cancels meanwhile: an engine that let go of its channel leaves no
\* socket and no timer behind (cleanup, SignalingChannel.close).
THEOREM NobodyIsOrphaned == Spec => []NoOrphanSocket
<1>1. Init => SocketsInv
  BY DEF Init, SocketsInv, Sound, Shaped, NewEngine, NoChannel, EngineFields, ChannelFields
<1>2. SocketsInv => NoOrphanSocket
  BY DEF SocketsInv, Sound, NoOrphanSocket
<1> QED BY <1>1, <1>2, SocketsStep, PTL DEF Spec

-----------------------------------------------------------------------------
(* one engine *)

Engine == [state : State, chan : Channel, has : BOOLEAN, linked : BOOLEAN,
           cur : Nat, cand : Nat, early : SUBSET Nat, conns : Seq(Conn),
           cancelled : BOOLEAN, unreachable : BOOLEAN, heard : SUBSET Nat]

Typed(e) == e \in Engine /\ e.cur \in 0 .. Len(e.conns) /\ e.cand \in 0 .. Len(e.conns)

Final == {"served", "fallback"}
Said == {"wait", "up", "open"}
Up == {"up", "open"}

\* A connection is past its configuration exactly when the page's fetch, which
\* came to i, has settled.
Fetched(e, i) ==
  \A k \in DOMAIN e.conns :
     IF e.conns[k].phase = "config" THEN i \notin Final
     ELSE i \in Final /\ e.conns[k].config = i

\* Before the first socket, and after the last.
Begun(e) ==
  /\ e.state = "idle" => e = NewEngine
  /\ e.state = "creating" => /\ e.conns = <<>>
                             /\ IF e.has THEN e.chan = Connecting ELSE e.chan = NoChannel \/ e.cancelled
  /\ e.has => ~Ended(e)
  /\ ~e.has => e.chan.closed \/ (e.chan = NoChannel /\ e.conns = <<>>)
  /\ e.chan.ws = "dialing" /\ e.chan.first => e.conns = <<>>
  /\ e.chan.ws = "aborting" => ~e.has

\* this.pc and addCandidate refer to a connection that has its configuration,
\* until cleanup() forgets the first.
Referring(e) ==
  e.has => e.cur = e.cand /\ (e.cur = 0 => \A k \in DOMAIN e.conns : e.conns[k].phase = "config")

\* How far the connections are.
Advanced(e, p) ==
  /\ e.linked <=> \E k \in DOMAIN e.conns : e.conns[k].phase = "open"
  /\ \A k \in DOMAIN e.conns :
       /\ e.conns[k].phase \in Up => e.conns[k].remote # 0
       /\ p = "sender" => e.conns[k].remote \in {0, e.conns[k].applying}
       /\ p = "receiver" => e.conns[k].offer # 0 /\ e.conns[k].remote \in {0, e.conns[k].offer}

\* An engine of one connection that let go of its channel says so, and has
\* closed that connection if the other side may know of it.
LetGo(e) ==
  Len(e.conns) <= 1 =>
    /\ ~e.has => e.state \in {"idle", "creating"} \/ Ended(e) \/ e.cancelled
    /\ \A k \in DOMAIN e.conns : e.conns[k].phase \in Up => e.has \/ e.conns[k].shut

\* Where the candidates heard of are, in an engine of one connection.
Keeping(e) ==
  /\ e.cand = 0 => e.heard \subseteq e.early
  /\ Len(e.conns) <= 1 =>
       \A k \in DOMAIN e.conns :
          /\ e.conns[k].ready => e.conns[k].remote # 0
          /\ e.cand # 0 => e.heard \subseteq e.early \cup e.conns[k].buffered \cup e.conns[k].added

Good(e, p, i) ==
  /\ Typed(e) /\ Fetched(e, i) /\ Begun(e) /\ Referring(e)
  /\ Advanced(e, p) /\ LetGo(e) /\ Keeping(e)

\* A linked sender: only an unreachable peer fails it now.
Past(e) == /\ e.linked /\ e.state \notin {"waiting", "connecting"}
           /\ FailedFor(e, e.unreachable)

\* A linked receiver: that, or its own expiry.
Kept(e) == e.linked => FailedFor(e, e.unreachable \/ e.state = "expired")

Firm(e, n, p) == IF p = "sender" THEN Past(e) => Past(n) ELSE Kept(e) => Kept(n)

-----------------------------------------------------------------------------
(* the two engines and the messages between them *)

Few(box, t) == \A a, b \in DOMAIN box : box[a].type = t /\ box[b].type = t => a = b
Carries(box, t, f) == \E a \in DOMAIN box : box[a].type = t /\ box[a].from = f

\* Connection k of e told the other side of itself, and is closed if e let go.
Stands(e, k) ==
  /\ k \in DOMAIN e.conns /\ e.conns[k].phase \in Said
  /\ Len(e.conns) <= 1 => e.has \/ e.conns[k].shut

\* Sender s and receiver r, with sbox and rbox on their way to them: whatever
\* offer the receiver has seen, or will, and whatever answer the sender has, is
\* of a connection that stands.
Traced(s, r, sbox, rbox) ==
  /\ \A i \in Nat \ {0} : Carries(rbox, "offer", i) => Stands(s, i)
  /\ \A i \in Nat \ {0}, j \in DOMAIN r.conns : r.conns[j].offer = i => Stands(s, i)
  /\ \A j \in Nat \ {0} : Carries(sbox, "answer", j) => Stands(r, j)
  /\ \A j \in Nat \ {0}, i \in DOMAIN s.conns : s.conns[i].applying = j => Stands(r, j)

FormedBy(s) == \E k \in DOMAIN s.conns : s.conns[k].phase \in Up

\* A sender of one connection makes one offer, and is answered once.
Once(s, r, sbox, rbox) ==
  /\ Len(r.conns) <= 1
  /\ Few(rbox, "offer") /\ Few(sbox, "answer")
  /\ \A i \in Nat : Carries(rbox, "offer", i) => r.conns = <<>>
  /\ \A j \in Nat : Carries(sbox, "answer", j) =>
       \A k \in DOMAIN s.conns : s.conns[k].applying = 0
  /\ \A j \in DOMAIN r.conns : r.conns[j].phase \in Up => FormedBy(s)

\* Both have come so far that only an unreachable peer fails them.
Reached(s, r) == (s.linked => Past(s)) /\ Kept(r)

Pair(s, r, sbox, rbox) ==
  /\ Traced(s, r, sbox, rbox)
  /\ Len(s.conns) <= 1 => Once(s, r, sbox, rbox) /\ Reached(s, r)

Wire == [type : {"peer-joined", "peer-left"}]
          \cup [type : {"offer", "answer", "ice"}, from : Nat \ {0}]

\* What the relay and the pages' own variables are.
Plain ==
  /\ inbox \in [Role -> Seq(Wire)]
  /\ ice \in [Role -> {"none", "pending", "served", "fallback"}]
  /\ registered \in [Role -> BOOLEAN] /\ greeting \in [Role -> BOOLEAN]
  /\ manifest \in {"none", "sent", "read"}
  /\ shared \in BOOLEAN /\ expired \in BOOLEAN
  /\ spent \in 0 .. MaxEvents

EnginesGood == \A p \in Role : Good(eng[p], p, ice[p])
PairGood == Pair(eng["sender"], eng["receiver"], inbox["sender"], inbox["receiver"])

NegotiationInv == SocketsInv /\ Plain /\ EnginesGood /\ PairGood

-----------------------------------------------------------------------------
(* the connections of an engine *)

LEMMA ConnsExcept ==
  ASSUME NEW cs \in Seq(Conn), NEW k \in DOMAIN cs, NEW c \in Conn
  PROVE  /\ [cs EXCEPT ![k] = c] \in Seq(Conn)
         /\ Len([cs EXCEPT ![k] = c]) = Len(cs)
         /\ DOMAIN [cs EXCEPT ![k] = c] = DOMAIN cs
         /\ \A j \in DOMAIN cs : [cs EXCEPT ![k] = c][j] = IF j = k THEN c ELSE cs[j]
<1>1. k \in 1 .. Len(cs)
  BY LenProperties
<1> QED BY <1>1, ExceptSeq

LEMMA ConnsMapped ==
  ASSUME NEW cs \in Seq(Conn), NEW ds, ds = [k \in DOMAIN cs |-> ds[k]],
         \A k \in DOMAIN cs : ds[k] \in Conn
  PROVE  ds \in Seq(Conn) /\ Len(ds) = Len(cs) /\ DOMAIN ds = DOMAIN cs
<1>1. DOMAIN cs = 1 .. Len(cs) /\ Len(cs) \in Nat
  BY LenProperties
<1>2. ds \in [1 .. Len(cs) -> Conn]
  BY <1>1
<1> QED BY <1>1, <1>2, IsASeq, LenProperties

LEMMA ConnsAppended ==
  ASSUME NEW cs \in Seq(Conn), NEW c \in Conn
  PROVE  /\ Append(cs, c) \in Seq(Conn) /\ Len(Append(cs, c)) = Len(cs) + 1
         /\ DOMAIN Append(cs, c) = DOMAIN cs \cup {Len(cs) + 1}
         /\ \A k \in DOMAIN cs : Append(cs, c)[k] = cs[k]
         /\ Append(cs, c)[Len(cs) + 1] = c
BY AppendProperties, LenProperties

-----------------------------------------------------------------------------
(* cleanup() and fail() *)

\* The same connection, closed or not.
Alike(c, d) ==
  /\ d.phase = c.phase /\ d.config = c.config /\ d.offer = c.offer
  /\ d.applying = c.applying /\ d.remote = c.remote /\ d.ready = c.ready
  /\ d.buffered = c.buffered /\ d.added = c.added

LEMMA ShutTyped ==
  ASSUME NEW c \in Channel
  PROVE  /\ Shut(c) \in Channel /\ Shut(c).closed /\ ~Shut(c).timer
         /\ Shut(c).ws \in {"none", "aborting"}
BY DEF Shut, Channel, Socket

LEMMA CleanupFacts ==
  ASSUME NEW e, Typed(e)
  PROVE  /\ Typed(Cleanup(e))
         /\ \A f \in {"state", "linked", "cand", "early", "heard", "cancelled", "unreachable"} :
              Cleanup(e)[f] = e[f]
         /\ ~Cleanup(e).has /\ Cleanup(e).cur = 0
         /\ Cleanup(e).chan = IF e.has THEN Shut(e.chan) ELSE e.chan
         /\ Len(Cleanup(e).conns) = Len(e.conns) /\ DOMAIN Cleanup(e).conns = DOMAIN e.conns
         /\ \A k \in DOMAIN e.conns : Alike(e.conns[k], Cleanup(e).conns[k])
         /\ \A k \in DOMAIN e.conns :
              Cleanup(e).conns[k].shut <=> (e.conns[k].shut \/ k = e.cur)
<1> DEFINE cs == [k \in DOMAIN e.conns |-> [e.conns[k] EXCEPT !.shut = e.conns[k].shut \/ k = e.cur]]
           ch == IF e.has THEN Shut(e.chan) ELSE e.chan
           n == [e EXCEPT !.chan = ch, !.has = FALSE, !.cur = 0, !.conns = cs]
<1>1. Cleanup(e) = n
  BY DEF Cleanup
<1>2. e.conns \in Seq(Conn) /\ ch \in Channel
  BY ShutTyped DEF Typed, Engine
<1>3. \A k \in DOMAIN e.conns : e.conns[k] \in Conn
  BY <1>2, ElementOfSeq, LenProperties
<1>4. \A k \in DOMAIN e.conns : cs[k] \in Conn
  BY <1>3 DEF Conn
<1>5. cs = [k \in DOMAIN e.conns |-> cs[k]]
  OBVIOUS
<1>6. /\ \A k \in DOMAIN e.conns : Alike(e.conns[k], cs[k])
      /\ \A k \in DOMAIN e.conns : cs[k].shut <=> (e.conns[k].shut \/ k = e.cur)
  BY <1>3 DEF Conn, Alike
<1> HIDE DEF cs, ch
<1>10. cs \in Seq(Conn) /\ Len(cs) = Len(e.conns) /\ DOMAIN cs = DOMAIN e.conns
  BY <1>2, <1>4, <1>5, ConnsMapped
<1>7. n \in Engine
  BY <1>2, <1>10 DEF Typed, Engine
<1>8. /\ \A f \in {"state", "linked", "cand", "early", "heard", "cancelled", "unreachable"} : n[f] = e[f]
      /\ ~n.has /\ n.cur = 0 /\ n.chan = ch /\ n.conns = cs
  BY DEF Typed, Engine
<1>9. Typed(n)
  BY <1>7, <1>8, <1>10, LenProperties DEF Typed
<1> QED BY <1>1, <1>6, <1>8, <1>9, <1>10 DEF ch

\* e became n by giving up its channel and its connection.
Cleaned(e, n) ==
  /\ Typed(n) /\ ~n.has /\ n.cur = 0
  /\ n.chan = IF e.has THEN Shut(e.chan) ELSE e.chan
  /\ n.linked = e.linked /\ n.cand = e.cand /\ n.early = e.early /\ n.heard = e.heard
  /\ Len(n.conns) = Len(e.conns) /\ DOMAIN n.conns = DOMAIN e.conns
  /\ \A k \in DOMAIN e.conns : Alike(e.conns[k], n.conns[k])
  /\ \A k \in DOMAIN e.conns : n.conns[k].shut <=> (e.conns[k].shut \/ k = e.cur)

\* Where the engine is in Rendezvous, if its sender negotiates once.
SideOf(e) == IF Ended(e) \/ Stopped(e) THEN "gone"
             ELSE IF e.linked THEN "linked"
             ELSE IF e.state = "idle" THEN "out" ELSE "looking"

\* A step of one engine that Rendezvous does not see, or that leaves it.
Moves(e, n) == SideOf(n) \in {SideOf(e)} \cup (IF SideOf(e) \in {"looking", "linked"} THEN {"gone"} ELSE {})

\* What the other side may know of e still holds of n.
Keeps(e, n) ==
  /\ Len(n.conns) = Len(e.conns)
  /\ \A k \in DOMAIN e.conns :
       /\ n.conns[k].offer = e.conns[k].offer /\ n.conns[k].applying = e.conns[k].applying
       /\ n.conns[k].phase \in Up <=> e.conns[k].phase \in Up
       /\ e.conns[k].phase \in Said => n.conns[k].phase \in Said
       /\ (Len(e.conns) <= 1 /\ e.conns[k].phase \in Said /\ (e.has \/ e.conns[k].shut))
             => n.has \/ n.conns[k].shut

LEMMA ConnsAre ==
  ASSUME NEW e, Typed(e)
  PROVE  /\ e.conns \in Seq(Conn) /\ Len(e.conns) \in Nat /\ DOMAIN e.conns = 1 .. Len(e.conns)
         /\ \A k \in DOMAIN e.conns : e.conns[k] \in Conn
         /\ (\A k \in DOMAIN e.conns : Len(e.conns) <= 1 => k = 1 /\ Len(e.conns) = 1)
         /\ e.conns = <<>> <=> Len(e.conns) = 0
<1>1. e.conns \in Seq(Conn)
  BY DEF Typed, Engine
<1>2. Len(e.conns) \in Nat /\ DOMAIN e.conns = 1 .. Len(e.conns)
  BY <1>1, LenProperties
<1>3. \A k \in DOMAIN e.conns : e.conns[k] \in Conn
  BY <1>1, <1>2, ElementOfSeq
<1>4. \A k \in DOMAIN e.conns : Len(e.conns) <= 1 => k = 1 /\ Len(e.conns) = 1
  <2> DEFINE l == Len(e.conns)
  <2>1. l \in Nat /\ DOMAIN e.conns = 1 .. l
    BY <1>2
  <2> HIDE DEF l
  <2>2. \A k \in DOMAIN e.conns : l <= 1 => k = 1 /\ l = 1
    BY <2>1
  <2> QED BY <2>2 DEF l
<1>5. e.conns = <<>> <=> Len(e.conns) = 0
  BY <1>1, EmptySeq
<1> QED BY <1>1, <1>2, <1>3, <1>4, <1>5

LEMMA CleanedGood ==
  ASSUME NEW e, NEW n, NEW p, NEW i, Good(e, p, i), Sound(e), e.state # "idle", Cleaned(e, n),
         Ended(n) \/ (n.cancelled /\ n.state = e.state),
         e.cancelled => n.cancelled
  PROVE  Good(n, p, i) /\ Moves(e, n) /\ Keeps(e, n) /\ n.linked = e.linked
<1>1. Typed(e) /\ Typed(n)
  BY DEF Good, Cleaned
<1>2. /\ DOMAIN n.conns = DOMAIN e.conns /\ Len(n.conns) = Len(e.conns)
      /\ n.conns = <<>> <=> e.conns = <<>>
  BY <1>1, ConnsAre DEF Cleaned
<1>3. \A k \in DOMAIN e.conns :
        /\ n.conns[k].phase = e.conns[k].phase /\ n.conns[k].config = e.conns[k].config
        /\ n.conns[k].offer = e.conns[k].offer /\ n.conns[k].applying = e.conns[k].applying
        /\ n.conns[k].remote = e.conns[k].remote /\ n.conns[k].ready = e.conns[k].ready
        /\ n.conns[k].buffered = e.conns[k].buffered /\ n.conns[k].added = e.conns[k].added
        /\ n.conns[k].shut <=> (e.conns[k].shut \/ k = e.cur)
  BY <1>2 DEF Cleaned, Alike
<1>4. e.chan \in Channel
  BY <1>1 DEF Typed, Engine
<1>5. Fetched(n, i)
  BY <1>2, <1>3 DEF Good, Fetched
<1>6. Begun(n)
  <2>1. n.state = "creating" => e.state = "creating" /\ n.cancelled
    BY DEF Ended
  <2>2. n.state # "idle"
    BY DEF Ended
  <2>3. n.chan.closed \/ (n.chan = NoChannel /\ n.conns = <<>>)
    BY <1>2, <1>4, ShutTyped DEF Good, Begun, Cleaned
  <2>4. n.chan.ws # "dialing"
    BY <1>4, ShutTyped DEF Cleaned, Sound
  <2> QED BY <1>2, <2>1, <2>2, <2>3, <2>4 DEF Begun, Good, Cleaned
<1>7. Referring(n)
  BY DEF Referring, Cleaned
<1>8. Advanced(n, p)
  BY <1>2, <1>3 DEF Good, Advanced, Cleaned
<1>9. ASSUME NEW k \in DOMAIN e.conns, Len(e.conns) <= 1, e.conns[k].phase \in Said,
             e.has \/ e.conns[k].shut
      PROVE  n.conns[k].shut
  <2>1. CASE e.conns[k].shut
    BY <1>3, <2>1
  <2>2. CASE e.has
    <3>1. k = 1 /\ Len(e.conns) = 1
      BY <1>1, <1>9, ConnsAre
    <3>2. e.cur # 0
      BY <1>9, <2>2 DEF Good, Referring, Said
    <3>3. e.cur = k
      BY <1>1, <3>1, <3>2 DEF Typed
    <3> QED BY <1>3, <3>3
  <2> QED BY <1>9, <2>1, <2>2
<1>10. LetGo(n)
  <2>1. \A k \in DOMAIN e.conns : e.conns[k].phase \in Up => e.conns[k].phase \in Said
    BY DEF Up, Said
  <2> QED BY <1>2, <1>3, <1>9, <2>1 DEF Good, LetGo
<1>11. Keeping(n)
  BY <1>2, <1>3 DEF Good, Keeping, Cleaned
<1>12. Keeps(e, n)
  BY <1>2, <1>3, <1>9 DEF Keeps
<1>13. Moves(e, n)
  <2>1. CASE Ended(n)
    BY <2>1 DEF Moves, SideOf
  <2>2. CASE n.cancelled /\ n.state = e.state /\ n.chan # NoChannel
    BY <2>2 DEF Moves, SideOf, Stopped, Cleaned
  <2>3. CASE n.state = e.state /\ n.chan = NoChannel
    <3>1. ~e.has
      BY <1>4, <2>3, ShutTyped DEF Cleaned, NoChannel
    <3>2. e.chan = NoChannel
      BY <2>3, <3>1 DEF Cleaned
    <3> QED BY <2>3, <3>2 DEF Moves, SideOf, Stopped, Cleaned, Ended
  <2> QED BY <2>1, <2>2, <2>3
<1> QED BY <1>1, <1>5, <1>6, <1>7, <1>8, <1>10, <1>11, <1>12, <1>13 DEF Good, Cleaned

Endings == {"failed", "senderGone", "expired"}

LEMMA CleanupCleans ==
  ASSUME NEW e, Typed(e)
  PROVE  /\ Cleaned(e, [Cleanup(e) EXCEPT !.cancelled = TRUE])
         /\ [Cleanup(e) EXCEPT !.cancelled = TRUE].cancelled
         /\ [Cleanup(e) EXCEPT !.cancelled = TRUE].state = e.state
<1> DEFINE m == Cleanup(e)
           n == [m EXCEPT !.cancelled = TRUE]
<1>1. Typed(m)
  BY CleanupFacts
<1>2. /\ \A f \in EngineFields \ {"cancelled"} : n[f] = m[f]
      /\ n \in Engine /\ n.cancelled
  <2> HIDE DEF m
  <2> QED BY <1>1 DEF Typed, Engine, EngineFields
<1> HIDE DEF n
<1>3. Typed(n)
  BY <1>1, <1>2 DEF Typed, EngineFields
<1> QED BY <1>2, <1>3, CleanupFacts DEF Cleaned, EngineFields, n

\* fail(): the engine is over, and Rendezvous sees it leave.
LEMMA FailGood ==
  ASSUME NEW e, NEW p, NEW i, Good(e, p, i), Sound(e), e.state # "idle", NEW s \in Endings
  PROVE  /\ Good(Fail(e, s), p, i) /\ Moves(e, Fail(e, s)) /\ Keeps(e, Fail(e, s))
         /\ Fail(e, s).linked = e.linked /\ Ended(Fail(e, s))
         /\ Fail(e, s).cancelled = e.cancelled /\ Fail(e, s).unreachable = e.unreachable
         /\ IF Ended(e) THEN Fail(e, s) = e ELSE Fail(e, s).state = s
<1>1. CASE Ended(e)
  BY <1>1 DEF Fail, Moves, Keeps
<1>2. CASE ~Ended(e)
  <2> DEFINE m == [e EXCEPT !.state = s]
             n == Cleanup(m)
  <2>1. /\ \A f \in EngineFields \ {"state"} : m[f] = e[f]
        /\ m \in Engine /\ m.state = s
    BY DEF Good, Typed, Engine, EngineFields, Endings, State
  <2>2. Fail(e, s) = n
    BY <1>2 DEF Fail
  <2> HIDE DEF m
  <2>3. Typed(m)
    BY <2>1 DEF Good, Typed, EngineFields
  <2>4. Cleaned(m, n) /\ n.state = s /\ n.cancelled = e.cancelled /\ n.unreachable = e.unreachable
    BY <2>1, <2>3, CleanupFacts DEF Cleaned, EngineFields
  <2>6. Cleaned(e, n)
    <3> HIDE DEF n
    <3>1. /\ m.has = e.has /\ m.chan = e.chan /\ m.linked = e.linked /\ m.cand = e.cand
          /\ m.early = e.early /\ m.heard = e.heard /\ m.conns = e.conns /\ m.cur = e.cur
      BY <2>1 DEF EngineFields
    <3>3. n.chan = IF e.has THEN Shut(e.chan) ELSE e.chan
      BY <2>4, <3>1 DEF Cleaned
    <3> QED BY <2>4, <3>1, <3>3 DEF Cleaned
  <2> HIDE DEF n
  <2>5. Ended(n)
    BY <2>4 DEF Ended, Endings
  <2>7. e.cancelled => n.cancelled
    BY <2>4
  <2>8. Good(n, p, i) /\ Moves(e, n) /\ Keeps(e, n) /\ n.linked = e.linked
    BY <2>5, <2>6, <2>7, CleanedGood
  <2> QED BY <1>2, <2>2, <2>4, <2>5, <2>8
<1> QED BY <1>1, <1>2

-----------------------------------------------------------------------------
(* a method that touches one connection *)

Touched(e, n, k) ==
  /\ Typed(n) /\ k \in DOMAIN e.conns
  /\ n.state = e.state /\ n.chan = e.chan /\ n.has = e.has /\ n.linked = e.linked
  /\ n.cur = e.cur /\ n.cand = e.cand /\ n.early = e.early
  /\ n.cancelled = e.cancelled /\ n.unreachable = e.unreachable
  /\ Len(n.conns) = Len(e.conns) /\ DOMAIN n.conns = DOMAIN e.conns
  /\ \A j \in DOMAIN e.conns \ {k} : n.conns[j] = e.conns[j]

\* Rendezvous and LinkSurvivesRelay see nothing of it.
Steady(e, n) == SideOf(n) = SideOf(e) /\ n.linked = e.linked
                /\ (Past(n) <=> Past(e)) /\ (Kept(n) <=> Kept(e))

\* It leaves connection d, once c, as good as it was.
Onward(e, c, d, p) ==
  /\ d.phase = "config" <=> c.phase = "config"
  /\ d.config = c.config
  /\ c.phase = "open" <=> d.phase = "open"
  /\ d.phase \in Up => d.remote # 0
  /\ p = "sender" => d.remote \in {0, d.applying}
  /\ p = "receiver" => d.offer # 0 /\ d.remote \in {0, d.offer}
  /\ Len(e.conns) <= 1 =>
       /\ d.phase \in Up => e.has \/ d.shut
       /\ d.ready => d.remote # 0

\* The other side need not know.
Discreet(c, d) ==
  /\ d.offer = c.offer /\ d.applying = c.applying /\ (d.shut <=> c.shut)
  /\ d.phase \in Up <=> c.phase \in Up
  /\ c.phase \in Said => d.phase \in Said

LEMMA TouchedSteady ==
  ASSUME NEW e, NEW n, NEW k, Touched(e, n, k)
  PROVE  Steady(e, n)
BY DEF Touched, Steady, SideOf, Past, Kept, Ended, Stopped, FailedFor

LEMMA TouchedGood ==
  ASSUME NEW e, NEW n, NEW k, NEW p, NEW i, Good(e, p, i), Touched(e, n, k),
         Onward(e, e.conns[k], n.conns[k], p),
         n.cand = 0 => n.heard \subseteq n.early,
         (n.cand # 0 /\ Len(e.conns) <= 1) =>
           n.heard \subseteq n.early \cup n.conns[k].buffered \cup n.conns[k].added
  PROVE  Good(n, p, i)
<1>1. Typed(e) /\ Typed(n) /\ k \in DOMAIN e.conns /\ DOMAIN n.conns = DOMAIN e.conns
  BY DEF Good, Touched
<1>2. e.conns # <<>> /\ n.conns # <<>>
  BY <1>1
<1>3. \A j \in DOMAIN e.conns : j # k => n.conns[j] = e.conns[j]
  BY DEF Touched
<1>4. Fetched(n, i)
  BY <1>1, <1>3 DEF Good, Fetched, Onward
<1>5. Begun(n)
  <2>1. e.state # "idle" /\ e.state # "creating"
    BY <1>2 DEF Good, Begun, NewEngine
  <2> QED BY <1>2, <2>1 DEF Good, Begun, Touched, Ended
<1>6. Referring(n)
  BY <1>1, <1>3 DEF Good, Referring, Touched, Onward
<1>7. Advanced(n, p)
  <2>1. n.linked <=> \E j \in DOMAIN n.conns : n.conns[j].phase = "open"
    BY <1>1, <1>3 DEF Good, Advanced, Touched, Onward
  <2> QED BY <1>1, <1>3, <2>1 DEF Good, Advanced, Onward
<1>8. Len(e.conns) <= 1 => DOMAIN e.conns = {k}
  BY <1>1, ConnsAre
<1>9. LetGo(n)
  BY <1>1, <1>8 DEF Good, LetGo, Onward, Touched, Ended
<1>10. Keeping(n)
  BY <1>1, <1>8 DEF Keeping, Onward, Touched
<1> QED BY <1>1, <1>4, <1>5, <1>6, <1>7, <1>9, <1>10 DEF Good

LEMMA TouchedKeeps ==
  ASSUME NEW e, NEW n, NEW k, Touched(e, n, k), Discreet(e.conns[k], n.conns[k])
  PROVE  Keeps(e, n)
<1>1. \A j \in DOMAIN e.conns : Discreet(e.conns[j], n.conns[j])
  BY DEF Touched, Discreet
<1> QED BY <1>1 DEF Keeps, Discreet, Touched

\* One connection of e becomes d, and what was heard h.
Turn(e, k, d) == [e EXCEPT !.conns[k] = d]
TurnHearing(e, k, d, h) == [e EXCEPT !.heard = h, !.conns[k] = d]

LEMMA Touches ==
  ASSUME NEW e, Typed(e), NEW k \in DOMAIN e.conns, NEW d \in Conn
  PROVE  /\ Touched(e, Turn(e, k, d), k)
         /\ Turn(e, k, d).conns[k] = d /\ Turn(e, k, d).heard = e.heard
<1> DEFINE cs == [e.conns EXCEPT ![k] = d]
           n == [e EXCEPT !.conns = cs]
<1>1. e.conns \in Seq(Conn)
  BY DEF Typed, Engine
<1>2. /\ cs \in Seq(Conn) /\ Len(cs) = Len(e.conns) /\ DOMAIN cs = DOMAIN e.conns
      /\ \A j \in DOMAIN e.conns : cs[j] = IF j = k THEN d ELSE e.conns[j]
  BY <1>1, ConnsExcept
<1>3. Turn(e, k, d) = n
  BY DEF Turn
<1> HIDE DEF cs
<1>4. /\ \A f \in EngineFields \ {"conns"} : n[f] = e[f]
      /\ n.conns = cs /\ n \in Engine
  BY <1>2 DEF Typed, Engine, EngineFields
<1> HIDE DEF n
<1>5. Typed(n)
  BY <1>2, <1>4 DEF Typed, EngineFields
<1> QED BY <1>2, <1>3, <1>4, <1>5 DEF Touched, EngineFields

LEMMA TouchesHearing ==
  ASSUME NEW e, Typed(e), NEW k \in DOMAIN e.conns, NEW d \in Conn, NEW h \in SUBSET Nat
  PROVE  /\ Touched(e, TurnHearing(e, k, d, h), k)
         /\ TurnHearing(e, k, d, h).conns[k] = d /\ TurnHearing(e, k, d, h).heard = h
<1> DEFINE m == Turn(e, k, d)
           n == [m EXCEPT !.heard = h]
<1>1. Touched(e, m, k) /\ m.conns[k] = d /\ Typed(m)
  BY Touches DEF Touched
<1>2. TurnHearing(e, k, d, h) = n
  BY DEF TurnHearing, Turn, Typed, Engine
<1> HIDE DEF m
<1>3. /\ \A f \in EngineFields \ {"heard"} : n[f] = m[f]
      /\ n.heard = h /\ n \in Engine
  BY <1>1 DEF Typed, Engine, EngineFields
<1> HIDE DEF n
<1>4. Typed(n)
  BY <1>1, <1>3 DEF Typed, EngineFields
<1> QED BY <1>1, <1>2, <1>3, <1>4 DEF Touched, EngineFields

\* What a method makes of an engine when nobody else need know.
Quietly(e, n, p, i) == Good(n, p, i) /\ Steady(e, n) /\ Keeps(e, n)

LEMMA Same ==
  ASSUME NEW e, NEW p, NEW i, Good(e, p, i)
  PROVE  Quietly(e, e, p, i)
BY DEF Quietly, Steady, Keeps

LEMMA AlreadyOnward ==
  ASSUME NEW e, NEW p, NEW i, Good(e, p, i), NEW k \in DOMAIN e.conns, NEW d,
         d.phase = e.conns[k].phase, d.config = e.conns[k].config, d.offer = e.conns[k].offer,
         d.shut <=> e.conns[k].shut, d.remote = e.conns[k].remote,
         d.applying = e.conns[k].applying \/ e.conns[k].remote = 0,
         Len(e.conns) <= 1 /\ d.ready => d.remote # 0
  PROVE  Onward(e, e.conns[k], d, p)
BY DEF Good, Advanced, LetGo, Onward

\* remoteReady() replays the buffered candidates.
LEMMA RemoteReadyGood ==
  ASSUME NEW e, NEW p, NEW i, Good(e, p, i),
         (e.cand # 0 /\ Len(e.conns) <= 1) => e.conns[e.cand].remote # 0
  PROVE  Quietly(e, RemoteReady(e), p, i)
<1>1. CASE e.cand = 0
  BY <1>1, Same DEF RemoteReady
<1>2. CASE e.cand # 0
  <2> DEFINE k == e.cand
             c == e.conns[k]
             a == Accepted(c, c.buffered)
             d == [a EXCEPT !.ready = TRUE, !.buffered = {}]
             n == Turn(e, k, d)
  <2>1. Typed(e) /\ k \in DOMAIN e.conns /\ c \in Conn
    BY <1>2, ConnsAre DEF Good, Typed
  <2>2. RemoteReady(e) = n
    BY <1>2 DEF RemoteReady, Turn
  <2>3. /\ d \in Conn /\ d.phase = c.phase /\ d.config = c.config /\ d.offer = c.offer
        /\ d.applying = c.applying /\ d.remote = c.remote /\ d.shut = c.shut
        /\ d.ready /\ d.buffered = {}
        /\ d.added = IF c.remote = 0 THEN c.added ELSE c.added \cup c.buffered
    <3> HIDE DEF c
    <3>1. /\ a \in Conn /\ a.phase = c.phase /\ a.config = c.config /\ a.offer = c.offer
          /\ a.applying = c.applying /\ a.remote = c.remote /\ a.shut = c.shut
          /\ a.added = IF c.remote = 0 THEN c.added ELSE c.added \cup c.buffered
      BY <2>1 DEF Accepted, Conn
    <3> HIDE DEF a
    <3> QED BY <3>1 DEF Conn
  <2> HIDE DEF d
  <2>4. Touched(e, n, k) /\ n.conns[k] = d /\ n.heard = e.heard
    BY <2>1, <2>3, Touches
  <2> HIDE DEF n, k
  <2>5. Onward(e, e.conns[k], d, p)
    BY <2>1, <2>3, AlreadyOnward DEF k
  <2>6. Good(n, p, i)
    <3>1. n.cand = 0 => n.heard \subseteq n.early
      BY <2>4 DEF Touched, Good, Keeping
    <3>2. (n.cand # 0 /\ Len(e.conns) <= 1) =>
            n.heard \subseteq n.early \cup d.buffered \cup d.added
      BY <1>2, <2>1, <2>3, <2>4 DEF Touched, Good, Keeping, k
    <3> QED BY <2>4, <2>5, <3>1, <3>2, TouchedGood
  <2>7. Keeps(e, n)
    <3>1. Discreet(e.conns[k], n.conns[k])
      BY <2>3, <2>4 DEF Discreet
    <3> QED BY <2>4, <3>1, TouchedKeeps
  <2> QED BY <2>2, <2>4, <2>6, <2>7, TouchedSteady DEF Quietly
<1> QED BY <1>1, <1>2

\* A candidate that arrives is kept, however early it is.
LEMMA QueueGood ==
  ASSUME NEW e, NEW p, NEW i, Good(e, p, i), e.state # "idle", NEW from \in Nat
  PROVE  Quietly(e, QueueCandidate(e, from), p, i)
<1> DEFINE h == e.heard \cup {from}
<1>0. Typed(e) /\ h \in SUBSET Nat
  BY DEF Good, Typed, Engine
<1>1. CASE e.cand = 0
  <2> DEFINE n == [e EXCEPT !.heard = h, !.early = e.early \cup {from}]
  <2>1. QueueCandidate(e, from) = n
    BY <1>1 DEF QueueCandidate, Good, Typed, Engine
  <2>2. /\ \A f \in EngineFields \ {"heard", "early"} : n[f] = e[f]
        /\ n.heard = h /\ n.early = e.early \cup {from} /\ n \in Engine
    BY <1>0 DEF Typed, Engine, EngineFields
  <2> HIDE DEF n
  <2>3. /\ n.state = e.state /\ n.chan = e.chan /\ n.has = e.has /\ n.linked = e.linked
        /\ n.cur = e.cur /\ n.cand = e.cand /\ n.conns = e.conns
        /\ n.cancelled = e.cancelled /\ n.unreachable = e.unreachable
    BY <2>2 DEF EngineFields
  <2>4. Steady(e, n) /\ Keeps(e, n)
    BY <2>3 DEF Steady, Keeps, SideOf, Past, Kept, Ended, Stopped, FailedFor
  <2>5. Good(n, p, i)
    BY <1>0, <1>1, <2>2, <2>3 DEF Good, Typed, Fetched, Begun, Referring, Advanced, LetGo, Keeping, Ended
  <2> QED BY <2>1, <2>4, <2>5 DEF Quietly
<1>2. CASE e.cand # 0
  <2> DEFINE k == e.cand
             c == e.conns[k]
             d == AddCandidate(c, from)
             n == TurnHearing(e, k, d, h)
  <2>1. k \in DOMAIN e.conns /\ c \in Conn
    BY <1>0, <1>2, ConnsAre DEF Good, Typed
  <2>2. QueueCandidate(e, from) = n
    BY <1>0, <1>2, <2>1 DEF QueueCandidate, Typed, Engine, TurnHearing
  <2>3. /\ d \in Conn /\ d.phase = c.phase /\ d.config = c.config /\ d.offer = c.offer
        /\ d.applying = c.applying /\ d.remote = c.remote /\ d.shut = c.shut /\ d.ready = c.ready
        /\ c.buffered \cup c.added \subseteq d.buffered \cup d.added
        /\ (c.ready => c.remote # 0) => from \in d.buffered \cup d.added
    <3> HIDE DEF c
    <3> QED BY <2>1 DEF AddCandidate, Accepted, Conn
  <2> HIDE DEF d
  <2>4. Touched(e, n, k) /\ n.conns[k] = d /\ n.heard = h
    BY <1>0, <2>1, <2>3, TouchesHearing
  <2> HIDE DEF n, k
  <2>5. Onward(e, e.conns[k], d, p)
    <3>1. Len(e.conns) <= 1 /\ d.ready => d.remote # 0
      BY <2>1, <2>3 DEF Good, Keeping
    <3> QED BY <2>1, <2>3, <3>1, AlreadyOnward
  <2>6. Good(n, p, i)
    <3>1. n.cand # 0
      BY <1>2, <2>4 DEF Touched
    <3>2. Len(e.conns) <= 1 => n.heard \subseteq n.early \cup d.buffered \cup d.added
      BY <1>2, <2>1, <2>3, <2>4 DEF Touched, Good, Keeping
    <3> QED BY <2>4, <2>5, <3>1, <3>2, TouchedGood
  <2>7. Keeps(e, n)
    <3>1. Discreet(e.conns[k], n.conns[k])
      BY <2>3, <2>4 DEF Discreet
    <3> QED BY <2>4, <3>1, TouchedKeeps
  <2> QED BY <2>2, <2>4, <2>6, <2>7, TouchedSteady DEF Quietly
<1> QED BY <1>1, <1>2

-----------------------------------------------------------------------------
(* the least and the greatest of some connections *)

\* Every set of naturals with an element has a least one.
LEMMA LeastNatural ==
  ASSUME NEW T, T \subseteq Nat, T # {}
  PROVE  \E x \in T : \A y \in T : x <= y
<1> DEFINE Below == OpToRel(<, Nat)
<1>1. \A x, y \in Nat : <<x, y>> \in Below <=> x < y
  BY DEF OpToRel
<1>2. IsWellFoundedOn(Below, Nat)
  BY NatLessThanWellFounded
<1> HIDE DEF Below
<1>3. PICK x \in T : \A y \in T : ~(<<y, x>> \in Below)
  BY <1>2, WFMin
<1>4. ASSUME NEW y \in T PROVE x <= y
  <2>1. x \in Nat /\ y \in Nat /\ ~(y < x)
    BY <1>1, <1>3
  <2> QED BY <2>1
<1> QED BY <1>4

LEMMA Extremes ==
  ASSUME NEW l \in Nat, NEW T, T \subseteq 1 .. l, T # {}
  PROVE  Min(T) \in T /\ Max(T) \in T
<1>0. T \subseteq Nat /\ \A y \in T : y # 0
  OBVIOUS
<1>1. \E x \in T : \A y \in T : x <= y
  BY <1>0, LeastNatural
<1>2. \E x \in T : \A y \in T : x >= y
  <2> DEFINE U == {m \in Nat : \A y \in T : y <= m}
  <2>1. l \in U /\ U \subseteq Nat
    OBVIOUS
  <2>2. PICK m \in U : \A x \in U : m <= x
    <3> HIDE DEF U
    <3> QED BY <2>1, LeastNatural
  <2>3. m \in T
    <3> SUFFICES ASSUME m \notin T PROVE FALSE
      OBVIOUS
    <3>1. \A y \in T : y <= m /\ y # m /\ y \in Nat
      BY <1>0, <2>2
    <3>2. m # 0
      <4>1. PICK y \in T : TRUE
        OBVIOUS
      <4> QED BY <1>0, <3>1, <4>1
    <3>3. m - 1 \in Nat /\ \A y \in T : y <= m - 1
      BY <2>2, <3>1, <3>2
    <3> QED BY <2>2, <3>3
  <2> QED BY <2>2, <2>3
<1> QED BY <1>1, <1>2 DEF Min, Max

-----------------------------------------------------------------------------
(* createPeerConnection *)

Near(e, p) == Typed(e) /\ Begun(e) /\ Referring(e) /\ Advanced(e, p) /\ LetGo(e) /\ Keeping(e)

LEMMA ConfiguredFacts ==
  ASSUME NEW e, Typed(e), NEW p, NEW j \in Final, Waiting(e) # {}
  PROVE  LET n == Configured(e, p, j) IN
         /\ Typed(n) /\ DOMAIN n.conns = DOMAIN e.conns /\ Len(n.conns) = Len(e.conns)
         /\ n.cur = n.cand /\ n.cur # 0 /\ n.early = {} /\ n.heard = e.heard
         /\ n.state = e.state /\ n.chan = e.chan /\ n.has = e.has /\ n.linked = e.linked
         /\ n.cancelled = e.cancelled /\ n.unreachable = e.unreachable
         /\ \A k \in DOMAIN e.conns \ Waiting(e) : n.conns[k] = e.conns[k]
         /\ \A k \in Waiting(e) :
              LET c == e.conns[k] d == n.conns[k] IN
              /\ d.phase \in {"local", "remote"} /\ d.config = j
              /\ d.offer = c.offer /\ d.applying = c.applying /\ d.remote = c.remote
              /\ d.ready = c.ready /\ d.shut = c.shut
              /\ c.buffered \subseteq d.buffered /\ c.added = d.added
              /\ k = Min(Waiting(e)) => e.early \subseteq d.buffered
<1> DEFINE w == Waiting(e)
           lo == Min(w)
           hi == Max(w)
           F(k) == IF k = lo THEN Goes(e.conns[k], p, j, e.early)
                   ELSE IF k \in w THEN Goes(e.conns[k], p, j, {}) ELSE e.conns[k]
           cs == [k \in DOMAIN e.conns |-> F(k)]
           n == [e EXCEPT !.cur = hi, !.cand = hi, !.early = {}, !.conns = cs]
<1>1. /\ e.conns \in Seq(Conn) /\ Len(e.conns) \in Nat /\ DOMAIN e.conns = 1 .. Len(e.conns)
      /\ \A k \in DOMAIN e.conns : e.conns[k] \in Conn
  BY ConnsAre
<1>2. w \subseteq DOMAIN e.conns
  BY DEF Waiting
<1>3. lo \in w /\ hi \in w
  <2> HIDE DEF w
  <2> QED BY <1>1, <1>2, Extremes DEF w
<1>4. Configured(e, p, j) = n
  BY DEF Configured
<1>5. e.early \in SUBSET Nat /\ {} \in SUBSET Nat
  BY DEF Typed, Engine
<1>6. ASSUME NEW c \in Conn, NEW a \in SUBSET Nat
      PROVE  LET d == Goes(c, p, j, a) IN
             /\ d \in Conn /\ d.phase \in {"local", "remote"} /\ d.config = j
             /\ d.offer = c.offer /\ d.applying = c.applying /\ d.remote = c.remote
             /\ d.ready = c.ready /\ d.shut = c.shut
             /\ d.buffered = c.buffered \cup a /\ c.added = d.added
  BY DEF Goes, Conn, Phase, Final
<1> HIDE DEF w, lo, hi
<1>7. /\ cs = [k \in DOMAIN e.conns |-> cs[k]]
      /\ \A k \in DOMAIN e.conns \ w : cs[k] = e.conns[k]
      /\ \A k \in w :
              LET c == e.conns[k] d == cs[k] IN
              /\ d.phase \in {"local", "remote"} /\ d.config = j
              /\ d.offer = c.offer /\ d.applying = c.applying /\ d.remote = c.remote
              /\ d.ready = c.ready /\ d.shut = c.shut
              /\ c.buffered \subseteq d.buffered /\ c.added = d.added
              /\ k = lo => e.early \subseteq d.buffered
      /\ \A k \in DOMAIN e.conns : cs[k] \in Conn
  BY <1>1, <1>2, <1>3, <1>5, <1>6
<1> HIDE DEF cs
<1>8. cs \in Seq(Conn) /\ Len(cs) = Len(e.conns) /\ DOMAIN cs = DOMAIN e.conns
  BY <1>1, <1>7, ConnsMapped
<1>9. hi \in Nat /\ hi # 0 /\ hi \in 0 .. Len(e.conns)
  BY <1>1, <1>2, <1>3
<1>10. /\ \A f \in EngineFields \ {"conns", "cur", "cand", "early"} : n[f] = e[f]
       /\ n.conns = cs /\ n.cur = hi /\ n.cand = hi /\ n.early = {} /\ n \in Engine
  BY <1>8, <1>9 DEF Typed, Engine, EngineFields
<1> HIDE DEF n
<1>11. Typed(n)
  BY <1>8, <1>9, <1>10 DEF Typed
<1> QED BY <1>4, <1>7, <1>8, <1>9, <1>10, <1>11 DEF EngineFields, w, lo

\* Every connection that waited has its configuration, whichever of them
\* this.pc is left referring to, and the first of them what came early.
LEMMA ConfiguredGood ==
  ASSUME NEW e, NEW p, NEW j \in Final, Near(e, p),
         \A k \in DOMAIN e.conns : e.conns[k].phase # "config" => e.conns[k].config = j
  PROVE  Quietly(e, Configured(e, p, j), p, j)
<1>1. CASE Waiting(e) = {}
  <2>1. Configured(e, p, j) = e
    BY <1>1 DEF Configured
  <2>2. Fetched(e, j)
    BY <1>1 DEF Waiting, Fetched
  <2> QED BY <2>1, <2>2 DEF Quietly, Steady, Keeps, Good, Near
<1>2. CASE Waiting(e) # {}
  <2> DEFINE n == Configured(e, p, j)
             w == Waiting(e)
  <2>1. /\ Typed(e) /\ Typed(n) /\ DOMAIN n.conns = DOMAIN e.conns /\ Len(n.conns) = Len(e.conns)
        /\ n.cur = n.cand /\ n.cur # 0 /\ n.heard = e.heard
        /\ n.state = e.state /\ n.chan = e.chan /\ n.has = e.has /\ n.linked = e.linked
        /\ n.cancelled = e.cancelled /\ n.unreachable = e.unreachable
    BY <1>2, ConfiguredFacts DEF Near
  <2>2. \A k \in DOMAIN e.conns : k \notin w => n.conns[k] = e.conns[k]
    BY <1>2, <2>1, ConfiguredFacts
  <2>3. \A k \in w :
          LET c == e.conns[k] d == n.conns[k] IN
          /\ d.phase \in {"local", "remote"} /\ d.config = j
          /\ d.offer = c.offer /\ d.applying = c.applying /\ d.remote = c.remote
          /\ d.ready = c.ready /\ d.shut = c.shut
          /\ c.buffered \subseteq d.buffered /\ c.added = d.added
          /\ k = Min(w) => e.early \subseteq d.buffered
    BY <1>2, <2>1, ConfiguredFacts
  <2> HIDE DEF n
  <2>4. \A k \in DOMAIN e.conns : k \in w <=> e.conns[k].phase = "config"
    BY DEF Waiting
  <2>5. w \subseteq DOMAIN e.conns /\ w # {}
    BY <1>2 DEF Waiting
  <2> HIDE DEF w
  <2>6. Len(e.conns) <= 1 => w = DOMAIN e.conns /\ w = {1}
    <3>1. Len(e.conns) <= 1 => \A k \in DOMAIN e.conns : k = 1
      BY <2>1, ConnsAre
    <3> QED BY <2>5, <3>1
  <2>7. e.conns # <<>> /\ n.conns # <<>>
    BY <2>1, <2>5
  <2>8. e.state # "idle" /\ e.state # "creating"
    BY <2>7 DEF Near, Begun, NewEngine
  <2>9. Steady(e, n)
    BY <2>1 DEF Steady, SideOf, Past, Kept, Ended, Stopped, FailedFor
  <2>10. Keeps(e, n)
    BY <2>1, <2>2, <2>3, <2>4 DEF Keeps, Up, Said
  <2>11. Fetched(n, j)
    BY <2>1, <2>2, <2>3, <2>4 DEF Fetched
  <2>12. Begun(n)
    BY <2>1, <2>7, <2>8 DEF Near, Begun, Ended
  <2>13. Referring(n)
    BY <2>1 DEF Referring
  <2>14. Advanced(n, p)
    <3>1. n.linked <=> \E k \in DOMAIN n.conns : n.conns[k].phase = "open"
      <4>1. e.linked <=> \E k \in DOMAIN e.conns : e.conns[k].phase = "open"
        BY DEF Near, Advanced
      <4>2. \A k \in DOMAIN e.conns : n.conns[k].phase = "open" <=> e.conns[k].phase = "open"
        BY <2>2, <2>3, <2>4
      <4> QED BY <2>1, <4>1, <4>2
    <3> QED BY <2>1, <2>2, <2>3, <3>1 DEF Near, Advanced, Up
  <2>15. LetGo(n)
    BY <2>1, <2>2, <2>3, <2>8 DEF Near, LetGo, Up, Ended
  <2>16. Keeping(n)
    <3>1. ASSUME Len(e.conns) <= 1, NEW k \in DOMAIN e.conns
          PROVE  /\ n.conns[k].ready => n.conns[k].remote # 0
                 /\ n.heard \subseteq n.conns[k].buffered \cup n.conns[k].added \cup n.early
      <4>1. w = {1} /\ k = 1 /\ k \in w
        BY <2>5, <2>6, <3>1
      <4>2. Min(w) = 1
        <5>1. w \subseteq 1 .. 1 /\ w # {}
          BY <4>1
        <5>2. Min(w) \in w
          BY <5>1, Extremes
        <5> QED BY <4>1, <5>2
      <4> QED BY <2>1, <2>3, <3>1, <4>1, <4>2 DEF Near, Keeping
    <3> QED BY <2>1, <3>1 DEF Keeping
  <2> QED BY <2>1, <2>9, <2>10, <2>11, <2>12, <2>13, <2>14, <2>15, <2>16 DEF Quietly, Good, n
<1> QED BY <1>1, <1>2

\* n is e with one more connection, of which, as of the others, nobody was told.
Grown(e, n, offer) ==
  /\ Len(n.conns) = Len(e.conns) + 1 /\ n.has = e.has
  /\ \A k \in DOMAIN e.conns :
       /\ n.conns[k].offer = e.conns[k].offer /\ n.conns[k].applying = e.conns[k].applying
       /\ e.conns[k].phase \notin Said
  /\ \A k \in DOMAIN n.conns : n.conns[k].phase \notin Said
  /\ n.conns[Len(e.conns) + 1].offer = offer /\ n.conns[Len(e.conns) + 1].applying = 0

\* A live engine without a connection of its own makes one.
LEMMA CreateGood ==
  ASSUME NEW e, NEW p \in Role, Good(e, p, ice[p]), e.has, e.chan.ws = "open", e.cur = 0,
         NEW offer \in Nat, p = "receiver" => offer # 0
  PROVE  LET n == Create(e, p, offer) IN
         Good(n, p, ice[p]) /\ Steady(e, n) /\ Grown(e, n, offer)
<1> DEFINE c == NewConn(offer)
           l == Len(e.conns) + 1
           cs == Append(e.conns, c)
           m == [e EXCEPT !.conns = cs]
<1>1. /\ Typed(e) /\ e.conns \in Seq(Conn) /\ Len(e.conns) \in Nat
      /\ DOMAIN e.conns = 1 .. Len(e.conns)
  BY ConnsAre DEF Good
<1>2. /\ c \in Conn /\ c.phase = "config" /\ c.remote = 0 /\ c.applying = 0 /\ c.offer = offer
      /\ ~c.ready
  BY DEF NewConn, Conn, Phase
<1> HIDE DEF c
<1>3. /\ cs \in Seq(Conn) /\ Len(cs) = l /\ DOMAIN cs = DOMAIN e.conns \cup {l}
      /\ \A k \in DOMAIN e.conns : cs[k] = e.conns[k]
      /\ cs[l] = c
  BY <1>1, <1>2, ConnsAppended
<1> HIDE DEF cs
<1>4. /\ \A f \in EngineFields \ {"conns"} : m[f] = e[f]
      /\ m.conns = cs /\ m \in Engine
  BY <1>1, <1>3 DEF Typed, Engine, EngineFields
<1>5. /\ m.state = e.state /\ m.chan = e.chan /\ m.has = e.has /\ m.linked = e.linked
      /\ m.cur = e.cur /\ m.cand = e.cand /\ m.early = e.early /\ m.heard = e.heard
      /\ m.cancelled = e.cancelled /\ m.unreachable = e.unreachable
  BY <1>4 DEF EngineFields
<1>6. Create(e, p, offer) = IF ice[p] \in Final THEN Configured(m, p, ice[p]) ELSE m
  BY DEF Create, Final, cs, c
<1> HIDE DEF m
<1>7. Typed(m)
  BY <1>1, <1>3, <1>4, <1>5 DEF Typed
<1>8. \A k \in DOMAIN e.conns : e.conns[k].phase = "config"
  BY DEF Good, Referring
<1>9. \A k \in DOMAIN m.conns : m.conns[k].phase = "config"
  BY <1>2, <1>3, <1>4, <1>8
<1>10. Steady(e, m)
  BY <1>5 DEF Steady, SideOf, Past, Kept, Ended, Stopped, FailedFor
<1>11. Near(m, p)
  <2>1. Begun(m)
    <3>1. e.state # "idle" /\ e.state # "creating"
      BY DEF Good, Begun, NewEngine, NoChannel, Connecting
    <3> QED BY <1>5, <3>1 DEF Good, Begun, Ended
  <2>2. Referring(m)
    BY <1>5, <1>9 DEF Good, Referring
  <2>3. Advanced(m, p)
    <3>1. ~m.linked /\ \A k \in DOMAIN m.conns : m.conns[k].phase # "open"
      BY <1>5, <1>8, <1>9 DEF Good, Advanced
    <3>2. ASSUME NEW k \in DOMAIN m.conns
          PROVE  /\ m.conns[k].phase \notin Up
                 /\ p = "sender" => m.conns[k].remote \in {0, m.conns[k].applying}
                 /\ p = "receiver" =>
                      m.conns[k].offer # 0 /\ m.conns[k].remote \in {0, m.conns[k].offer}
      BY <1>2, <1>3, <1>4, <1>9 DEF Good, Advanced, Up
    <3> QED BY <3>1, <3>2 DEF Advanced
  <2>4. LetGo(m)
    BY <1>5, <1>9 DEF LetGo, Up
  <2>5. Keeping(m)
    <3>1. m.cand = 0
      BY <1>5 DEF Good, Referring
    <3>2. ASSUME Len(m.conns) <= 1, NEW k \in DOMAIN m.conns PROVE ~m.conns[k].ready
      <4>1. Len(e.conns) = 0
        <5> DEFINE le == Len(e.conns)
                   lm == Len(m.conns)
        <5>1. le \in Nat /\ lm = le + 1 /\ lm <= 1
          BY <1>1, <1>3, <1>4, <3>2
        <5> HIDE DEF le, lm
        <5>2. le = 0
          BY <5>1
        <5> QED BY <5>2 DEF le
      <4>2. k = l
        BY <1>1, <1>3, <1>4, <4>1
      <4> QED BY <1>2, <1>3, <1>4, <4>2
    <3> QED BY <1>5, <3>1, <3>2 DEF Good, Keeping
  <2> QED BY <1>7, <2>1, <2>2, <2>3, <2>4, <2>5 DEF Near
<1>12. Grown(e, m, offer)
  BY <1>1, <1>2, <1>3, <1>4, <1>5, <1>8, <1>9 DEF Grown, Said
<1>13. CASE ice[p] \notin Final
  <2>1. Fetched(m, ice[p])
    BY <1>9, <1>13 DEF Fetched
  <2> QED BY <1>6, <1>10, <1>11, <1>12, <1>13, <2>1 DEF Good, Near
<1>14. CASE ice[p] \in Final
  <2> DEFINE n == Configured(m, p, ice[p])
  <2>1. Quietly(m, n, p, ice[p])
    BY <1>9, <1>11, <1>14, ConfiguredGood
  <2>2. Steady(e, n)
    BY <1>10, <2>1 DEF Quietly, Steady
  <2>3. /\ \A k \in DOMAIN n.conns : n.conns[k].phase \notin Said
        /\ n.has = m.has /\ DOMAIN n.conns = DOMAIN m.conns
    <3>1. Waiting(m) = DOMAIN m.conns /\ Waiting(m) # {}
      BY <1>3, <1>4, <1>9 DEF Waiting
    <3>2. /\ \A k \in DOMAIN m.conns : n.conns[k].phase \in {"local", "remote"}
          /\ n.has = m.has /\ DOMAIN n.conns = DOMAIN m.conns
      BY <1>7, <1>14, <3>1, ConfiguredFacts
    <3> QED BY <3>2 DEF Said
  <2> HIDE DEF n
  <2>4. Len(n.conns) = Len(m.conns)
    BY <2>1 DEF Quietly, Keeps
  <2>5. \A k \in DOMAIN m.conns :
          n.conns[k].offer = m.conns[k].offer /\ n.conns[k].applying = m.conns[k].applying
    BY <2>1 DEF Quietly, Keeps
  <2>6. Grown(e, n, offer)
    BY <1>1, <1>3, <1>4, <1>12, <2>3, <2>4, <2>5 DEF Grown
  <2> QED BY <1>6, <1>14, <2>1, <2>2, <2>6 DEF Quietly, n
<1> QED BY <1>13, <1>14

\* onSignal "peer-joined" and "offer".
LEMMA NegotiateGood ==
  ASSUME NEW e, Good(e, "sender", ice["sender"]), e.has, e.chan.ws = "open"
  PROVE  LET n == Negotiate(e) IN
         \/ n = e
         \/ Good(n, "sender", ice["sender"]) /\ Steady(e, n) /\ Grown(e, n, 0)
<1>1. CASE e.cur # 0
  BY <1>1 DEF Negotiate
<1>2. CASE e.cur = 0
  <2> DEFINE m == [e EXCEPT !.state = "connecting"]
  <2>1. /\ \A f \in EngineFields \ {"state"} : m[f] = e[f]
        /\ m \in Engine /\ m.state = "connecting"
    BY DEF Good, Typed, Engine, EngineFields, State
  <2>2. Negotiate(e) = Create(m, "sender", 0)
    BY <1>2 DEF Negotiate
  <2> HIDE DEF m
  <2>3. /\ m.chan = e.chan /\ m.has = e.has /\ m.linked = e.linked /\ m.cur = e.cur
        /\ m.cand = e.cand /\ m.early = e.early /\ m.heard = e.heard /\ m.conns = e.conns
        /\ m.cancelled = e.cancelled /\ m.unreachable = e.unreachable
    BY <2>1 DEF EngineFields
  <2>4. e.state # "idle" /\ e.state # "creating" /\ ~Ended(e)
    BY DEF Good, Begun, NewEngine, NoChannel, Connecting
  <2>5. ~e.linked
    BY <1>2 DEF Good, Referring, Advanced
  <2>6. Steady(e, m)
    BY <2>1, <2>3, <2>4, <2>5 DEF Steady, SideOf, Past, Kept, Ended, Stopped
  <2>7. Good(m, "sender", ice["sender"])
    BY <2>1, <2>3, <2>4 DEF Good, Typed, Fetched, Begun, Referring, Advanced, LetGo, Keeping, Ended
  <2>8. LET n == Create(m, "sender", 0) IN
        Good(n, "sender", ice["sender"]) /\ Steady(m, n) /\ Grown(m, n, 0)
    <3>1. m.has /\ m.chan.ws = "open" /\ m.cur = 0 /\ "sender" \in Role /\ 0 \in Nat
      BY <1>2, <2>3 DEF Role
    <3> QED BY <2>7, <3>1, CreateGood
  <2> QED BY <2>2, <2>3, <2>6, <2>8 DEF Steady, Grown
<1> QED BY <1>1, <1>2

LEMMA AnswerGood ==
  ASSUME NEW e, Good(e, "receiver", ice["receiver"]), e.has, e.chan.ws = "open",
         NEW offer \in Nat \ {0}
  PROVE  LET n == Answer(e, offer) IN
         \/ n = e
         \/ Good(n, "receiver", ice["receiver"]) /\ Steady(e, n) /\ Grown(e, n, offer)
BY CreateGood DEF Answer, Role

\* onSignal "answer": one that this.pc did not wait for fails the sender.
AnswerTaken(e, n, from) ==
  /\ Touched(e, n, e.cur) /\ e.cur # 0
  /\ e.conns[e.cur].phase = "wait" /\ e.conns[e.cur].applying = 0
  /\ n.conns[e.cur].applying = from /\ n.conns[e.cur].offer = e.conns[e.cur].offer
  /\ n.conns[e.cur].phase = "wait" /\ (n.conns[e.cur].shut <=> e.conns[e.cur].shut)

LEMMA ApplyAnswerGood ==
  ASSUME NEW e, NEW i, Good(e, "sender", i), e.has, NEW from \in Nat
  PROVE  LET n == ApplyAnswer(e, from) IN
         \/ n = e
         \/ /\ e.cur # 0 /\ n = Fail(e, "failed")
            /\ e.conns[e.cur].phase # "wait" \/ e.conns[e.cur].applying # 0
         \/ Good(n, "sender", i) /\ Steady(e, n) /\ AnswerTaken(e, n, from)
<1>1. CASE e.cur = 0
  BY <1>1 DEF ApplyAnswer, RemoteReady, Good, Referring
<1>2. CASE e.cur # 0 /\ e.conns[e.cur].phase = "wait" /\ e.conns[e.cur].applying = 0
  <2> DEFINE k == e.cur
             c == e.conns[k]
             d == [c EXCEPT !.applying = from]
             n == Turn(e, k, d)
  <2>1. Typed(e) /\ k \in DOMAIN e.conns /\ c \in Conn
    BY <1>2, ConnsAre DEF Good, Typed
  <2>2. ApplyAnswer(e, from) = n
    BY <1>2 DEF ApplyAnswer, Turn
  <2>3. /\ d \in Conn /\ d.phase = c.phase /\ d.config = c.config /\ d.offer = c.offer
        /\ d.applying = from /\ d.remote = c.remote /\ d.shut = c.shut
        /\ d.ready = c.ready /\ d.buffered = c.buffered /\ d.added = c.added
    <3> HIDE DEF c
    <3> QED BY <2>1 DEF Conn
  <2> HIDE DEF d
  <2>4. Touched(e, n, k) /\ n.conns[k] = d /\ n.heard = e.heard
    BY <2>1, <2>3, Touches
  <2> HIDE DEF n
  <2>5. c.remote = 0
    BY <1>2, <2>1 DEF Good, Advanced
  <2>6. Onward(e, c, d, "sender")
    <3>1. Len(e.conns) <= 1 /\ d.ready => d.remote # 0
      BY <2>1, <2>3 DEF Good, Keeping
    <3> QED BY <2>1, <2>3, <2>5, <3>1, AlreadyOnward
  <2>7. Good(n, "sender", i)
    <3>1. n.cand = 0 => n.heard \subseteq n.early
      BY <2>4 DEF Touched, Good, Keeping
    <3>2. (n.cand # 0 /\ Len(e.conns) <= 1) =>
            n.heard \subseteq n.early \cup d.buffered \cup d.added
      BY <2>1, <2>3, <2>4 DEF Touched, Good, Keeping
    <3> QED BY <2>4, <2>6, <3>1, <3>2, TouchedGood
  <2>8. AnswerTaken(e, n, from)
    BY <1>2, <2>3, <2>4 DEF AnswerTaken
  <2> QED BY <2>2, <2>4, <2>7, <2>8, TouchedSteady
<1>3. CASE e.cur # 0 /\ (e.conns[e.cur].phase # "wait" \/ e.conns[e.cur].applying # 0)
  BY <1>3 DEF ApplyAnswer
<1> QED BY <1>1, <1>2, <1>3

-----------------------------------------------------------------------------
(* messages on their way *)

\* Nothing is on its way that was not: a box that lost or read some of its
\* messages, or took one that is no description.
Loses(old, new) ==
  \A t \in {"offer", "answer"} :
    /\ Few(old, t) => Few(new, t)
    /\ \A f : Carries(new, t, f) => Carries(old, t, f)

LEMMA LosesNothing == ASSUME NEW box PROVE Loses(box, box)
BY DEF Loses

LEMMA LosesAll == ASSUME NEW box PROVE Loses(box, <<>>)
BY DEF Loses, Few, Carries

LEMMA LosesHead ==
  ASSUME NEW box \in Seq(Wire), box # <<>>
  PROVE  /\ Tail(box) \in Seq(Wire) /\ Loses(box, Tail(box)) /\ Head(box) \in Wire
         /\ \A t : Head(box).type = t /\ Few(box, t) => \A f : ~Carries(Tail(box), t, f)
         /\ Carries(box, Head(box).type, Head(box).from)
<1> DEFINE l == Len(box)
           tl == Tail(box)
<1>1. /\ l \in Nat /\ l # 0 /\ DOMAIN box = 1 .. l
      /\ tl \in Seq(Wire) /\ DOMAIN tl = 1 .. l - 1
      /\ \A a \in 1 .. l - 1 : tl[a] = box[a + 1]
      /\ Head(box) = box[1] /\ Head(box) \in Wire
  BY HeadTailProperties, LenProperties, EmptySeq
<1> HIDE DEF l, tl
<1>2. \A a \in DOMAIN tl : a + 1 \in DOMAIN box /\ tl[a] = box[a + 1] /\ a \in Nat /\ a + 1 # 1
  BY <1>1
<1>3. \A t, f : Carries(tl, t, f) => Carries(box, t, f)
  BY <1>2 DEF Carries
<1>4. ASSUME NEW t, Few(box, t) PROVE Few(tl, t)
  <2>1. ASSUME NEW a \in DOMAIN tl, NEW b \in DOMAIN tl, tl[a].type = t, tl[b].type = t PROVE a = b
    <3>1. a + 1 = b + 1
      BY <1>2, <1>4, <2>1 DEF Few
    <3> QED BY <1>2, <3>1
  <2> QED BY <2>1 DEF Few
<1>5. ASSUME NEW t, Head(box).type = t, Few(box, t), NEW f PROVE ~Carries(tl, t, f)
  <2> SUFFICES ASSUME NEW a \in DOMAIN tl, tl[a].type = t PROVE FALSE
    BY DEF Carries
  <2>1. 1 \in DOMAIN box /\ box[1].type = t
    BY <1>1, <1>5
  <2> QED BY <1>2, <1>5, <2>1 DEF Few
<1>6. Carries(box, Head(box).type, Head(box).from)
  BY <1>1 DEF Carries
<1> QED BY <1>1, <1>3, <1>4, <1>5, <1>6 DEF Loses, tl

LEMMA TakesOne ==
  ASSUME NEW box \in Seq(Wire), NEW m \in Wire
  PROVE  /\ Append(box, m) \in Seq(Wire)
         /\ m.type \notin {"offer", "answer"} => Loses(box, Append(box, m))
         /\ \A t, f : Carries(Append(box, m), t, f)
                        => Carries(box, t, f) \/ (m.type = t /\ m.from = f)
         /\ \A t : (\A f \in Nat : ~Carries(box, t, f)) /\ t \in {"offer", "answer"}
                      => Few(Append(box, m), t)
         /\ \A t : Few(box, t) /\ m.type # t => Few(Append(box, m), t)
<1> DEFINE l == Len(box)
           n == Append(box, m)
<1>1. /\ l \in Nat /\ DOMAIN box = 1 .. l
      /\ n \in Seq(Wire) /\ DOMAIN n = DOMAIN box \cup {l + 1} /\ l + 1 \notin DOMAIN box
      /\ \A a \in DOMAIN box : n[a] = box[a] /\ box[a] \in Wire
      /\ n[l + 1] = m
  BY AppendProperties, LenProperties, ElementOfSeq
<1> HIDE DEF l, n
<1>2. \A t, f : Carries(n, t, f) => Carries(box, t, f) \/ (m.type = t /\ m.from = f)
  BY <1>1 DEF Carries
<1>3. ASSUME NEW t, Few(box, t), m.type # t PROVE Few(n, t)
  BY <1>1, <1>3 DEF Few
<1>4. ASSUME NEW t \in {"offer", "answer"}, \A f \in Nat : ~Carries(box, t, f) PROVE Few(n, t)
  <2>1. \A a \in DOMAIN box : box[a].type # t
    <3> SUFFICES ASSUME NEW a \in DOMAIN box, box[a].type = t PROVE FALSE
      OBVIOUS
    <3>1. box[a].from \in Nat
      BY <1>1 DEF Wire
    <3> QED BY <1>4, <3>1 DEF Carries
  <2> QED BY <1>1, <2>1 DEF Few
<1>5. m.type \notin {"offer", "answer"} => Loses(box, n)
  BY <1>2, <1>3 DEF Loses
<1> QED BY <1>1, <1>2, <1>3, <1>4, <1>5 DEF n

-----------------------------------------------------------------------------
(* what a step of one engine does to what it has with the other *)

LEMMA StandsKept ==
  ASSUME NEW e, NEW n, Typed(e), Typed(n), Keeps(e, n), NEW k, Stands(e, k)
  PROVE  Stands(n, k)
<1>1. DOMAIN n.conns = DOMAIN e.conns
  BY ConnsAre DEF Keeps
<1> QED BY <1>1 DEF Keeps, Stands

LEMMA FormedKept ==
  ASSUME NEW e, NEW n, Typed(e), Typed(n), Keeps(e, n)
  PROVE  FormedBy(n) <=> FormedBy(e)
<1>1. DOMAIN n.conns = DOMAIN e.conns
  BY ConnsAre DEF Keeps
<1> QED BY <1>1 DEF Keeps, FormedBy

\* A step that neither describes nor hears of a connection.
LEMMA QuietPair ==
  ASSUME NEW s, NEW r, NEW sbox, NEW rbox, Pair(s, r, sbox, rbox),
         NEW s2, NEW r2, NEW sbox2, NEW rbox2,
         Typed(s), Typed(r), Typed(s2), Typed(r2), Keeps(s, s2), Keeps(r, r2),
         Loses(sbox, sbox2), Loses(rbox, rbox2),
         Len(s.conns) <= 1 /\ Len(r.conns) <= 1 => Reached(s2, r2)
  PROVE  Pair(s2, r2, sbox2, rbox2)
<1>1. /\ DOMAIN s2.conns = DOMAIN s.conns /\ Len(s2.conns) = Len(s.conns)
      /\ DOMAIN r2.conns = DOMAIN r.conns /\ Len(r2.conns) = Len(r.conns)
      /\ r.conns = <<>> => r2.conns = <<>>
  BY ConnsAre DEF Keeps
<1>2. /\ \A k \in DOMAIN s.conns : s2.conns[k].applying = s.conns[k].applying
      /\ \A k \in DOMAIN r.conns : r2.conns[k].offer = r.conns[k].offer
      /\ \A k \in DOMAIN r.conns : r2.conns[k].phase \in Up <=> r.conns[k].phase \in Up
  BY DEF Keeps
<1>3. \A f : /\ Carries(sbox2, "answer", f) => Carries(sbox, "answer", f)
             /\ Carries(rbox2, "offer", f) => Carries(rbox, "offer", f)
  BY DEF Loses
<1>4. Traced(s2, r2, sbox2, rbox2)
  BY <1>1, <1>2, <1>3, StandsKept DEF Pair, Traced
<1>5. ASSUME Len(s.conns) <= 1 PROVE Once(s2, r2, sbox2, rbox2) /\ Reached(s2, r2)
  <2>1. Once(s, r, sbox, rbox)
    BY <1>5 DEF Pair
  <2>2. Few(rbox2, "offer") /\ Few(sbox2, "answer")
    BY <2>1 DEF Once, Loses
  <2>3. FormedBy(s) => FormedBy(s2)
    BY FormedKept
  <2>4. Len(r.conns) <= 1
    BY <2>1 DEF Once
  <2>5. Once(s2, r2, sbox2, rbox2)
    BY <1>1, <1>2, <1>3, <2>1, <2>2, <2>3 DEF Once
  <2> QED BY <1>5, <2>4, <2>5
<1> QED BY <1>1, <1>4, <1>5 DEF Pair

\* Two sides of which Reached sees nothing new.
LEMMA ReachedKept ==
  ASSUME NEW s, NEW r, NEW s2, NEW r2, Reached(s, r),
         s2.linked => s.linked, Past(s) => Past(s2), Kept(r) => Kept(r2)
  PROVE  Reached(s2, r2)
BY DEF Reached

\* The sender describes connection k.
LEMMA OfferPair ==
  ASSUME NEW s, NEW r, NEW sbox, NEW rbox \in Seq(Wire), Pair(s, r, sbox, rbox),
         NEW s2, NEW rbox2, NEW k \in DOMAIN s.conns,
         Typed(s), Typed(r), Advanced(r, "receiver"), Typed(s2), Touched(s, s2, k), s.has,
         s.conns[k].phase = "local", Discreet(s.conns[k], s2.conns[k]), s2.conns[k].phase = "wait",
         rbox2 \in {rbox, Append(rbox, [type |-> "offer", from |-> k])}
  PROVE  Pair(s2, r, sbox, rbox2)
<1> DEFINE mes == [type |-> "offer", from |-> k]
<1>1. Keeps(s, s2) /\ Keeps(r, r) /\ Steady(s, s2)
  BY TouchedKeeps, TouchedSteady DEF Keeps
<1>2. Pair(s2, r, sbox, rbox)
  <2>1. Loses(sbox, sbox) /\ Loses(rbox, rbox)
    BY LosesNothing
  <2>2. Len(s.conns) <= 1 => Reached(s2, r)
    BY <1>1, ReachedKept DEF Pair, Steady
  <2> QED BY <1>1, <2>1, <2>2, QuietPair
<1>3. k \in Nat \ {0} /\ DOMAIN s2.conns = DOMAIN s.conns /\ Len(s2.conns) = Len(s.conns)
  BY ConnsAre DEF Touched
<1>4. Stands(s2, k)
  BY <1>3 DEF Stands, Touched, Said
<1>5. CASE rbox2 = Append(rbox, mes)
  <2>1. mes \in Wire /\ mes.type = "offer" /\ mes.from = k
    BY <1>3 DEF Wire
  <2> HIDE DEF mes
  <2>2. \A f : Carries(rbox2, "offer", f) => Carries(rbox, "offer", f) \/ f = k
    BY <1>5, <2>1, TakesOne
  <2>3. Traced(s2, r, sbox, rbox2)
    BY <1>2, <1>4, <2>2 DEF Pair, Traced
  <2>4. ASSUME Len(s.conns) <= 1 PROVE Once(s2, r, sbox, rbox2)
    <3>1. \A i \in Nat : ~Stands(s, i)
      <4>1. \A i \in DOMAIN s.conns : i = k
        BY <1>3, <2>4, ConnsAre
      <4> QED BY <4>1 DEF Stands, Said
    <3>2. Typed(r) /\ \A f \in Nat : f # 0 => ~Carries(rbox, "offer", f)
      BY <3>1 DEF Pair, Traced
    <3>3. ~Carries(rbox, "offer", 0)
      <4>1. \A a \in DOMAIN rbox : rbox[a] \in Wire
        BY ElementOfSeq, LenProperties
      <4> QED BY <4>1 DEF Carries, Wire
    <3>4. Few(rbox2, "offer")
      <4>1. \A f \in Nat : ~Carries(rbox, "offer", f)
        BY <3>2, <3>3
      <4> QED BY <1>5, <2>1, <4>1, TakesOne
    <3>5. r.conns = <<>>
      <4>1. ASSUME NEW j \in DOMAIN r.conns PROVE FALSE
        <5>1. r.conns[j].offer \in Nat \ {0}
          BY ConnsAre DEF Conn, Advanced
        <5> QED BY <3>1, <5>1 DEF Pair, Traced
      <4>2. /\ Len(r.conns) \in Nat /\ DOMAIN r.conns = 1 .. Len(r.conns)
            /\ r.conns = <<>> <=> Len(r.conns) = 0
        BY <3>2, ConnsAre
      <4>3. Len(r.conns) = 0
        <5>1. 1 \notin 1 .. Len(r.conns)
          BY <4>1, <4>2
        <5> QED BY <4>2, <5>1
      <4> QED BY <4>2, <4>3
    <3>6. Once(s2, r, sbox, rbox)
      BY <1>2, <1>3, <2>4 DEF Pair
    <3> QED BY <3>4, <3>5, <3>6 DEF Once
  <2> QED BY <1>2, <1>3, <2>3, <2>4 DEF Pair
<1> QED BY <1>2, <1>5

\* The receiver does.
LEMMA AnswerPair ==
  ASSUME NEW s, NEW r, NEW sbox \in Seq(Wire), NEW rbox, Pair(s, r, sbox, rbox),
         NEW r2, NEW sbox2, NEW k \in DOMAIN r.conns,
         Typed(s), Typed(r), Typed(r2), Touched(r, r2, k), r.has,
         r.conns[k].phase = "local", Discreet(r.conns[k], r2.conns[k]), r2.conns[k].phase = "wait",
         sbox2 \in {sbox, Append(sbox, [type |-> "answer", from |-> k])}
  PROVE  Pair(s, r2, sbox2, rbox)
<1> DEFINE mes == [type |-> "answer", from |-> k]
<1>1. Keeps(r, r2) /\ Keeps(s, s) /\ Steady(r, r2)
  BY TouchedKeeps, TouchedSteady DEF Keeps
<1>2. Pair(s, r2, sbox, rbox)
  <2>1. Loses(sbox, sbox) /\ Loses(rbox, rbox)
    BY LosesNothing
  <2>2. Len(s.conns) <= 1 => Reached(s, r2)
    BY <1>1, ReachedKept DEF Pair, Steady
  <2> QED BY <1>1, <2>1, <2>2, QuietPair
<1>3. k \in Nat \ {0} /\ DOMAIN r2.conns = DOMAIN r.conns /\ Len(r2.conns) = Len(r.conns)
  BY ConnsAre DEF Touched
<1>4. Stands(r2, k)
  BY <1>3 DEF Stands, Touched, Said
<1>5. CASE sbox2 = Append(sbox, mes)
  <2>1. mes \in Wire /\ mes.type = "answer" /\ mes.from = k
    BY <1>3 DEF Wire
  <2> HIDE DEF mes
  <2>2. \A f : Carries(sbox2, "answer", f) => Carries(sbox, "answer", f) \/ f = k
    BY <1>5, <2>1, TakesOne
  <2>3. Traced(s, r2, sbox2, rbox)
    BY <1>2, <1>4, <2>2 DEF Pair, Traced
  <2>4. ASSUME Len(s.conns) <= 1 PROVE Once(s, r2, sbox2, rbox)
    <3>1. Once(s, r2, sbox, rbox) /\ Len(r.conns) <= 1
      BY <1>2, <1>3, <2>4 DEF Pair, Once
    <3>2. \A j \in Nat : ~Stands(r, j)
      <4>1. \A j \in DOMAIN r.conns : j = k
        BY <1>3, <3>1, ConnsAre
      <4> QED BY <4>1 DEF Stands, Said
    <3>3. \A i \in DOMAIN s.conns : s.conns[i].applying = 0
      <4>1. \A i \in DOMAIN s.conns : s.conns[i].applying \in Nat
        BY ConnsAre DEF Conn
      <4> QED BY <3>2, <4>1 DEF Pair, Traced
    <3>4. \A f \in Nat : ~Carries(sbox, "answer", f)
      <4>1. \A a \in DOMAIN sbox : sbox[a] \in Wire
        BY ElementOfSeq, LenProperties
      <4>2. ~Carries(sbox, "answer", 0)
        BY <4>1 DEF Carries, Wire
      <4> QED BY <3>2, <4>2 DEF Pair, Traced
    <3>5. Few(sbox2, "answer")
      BY <1>5, <2>1, <3>4, TakesOne
    <3> QED BY <3>1, <3>3, <3>5 DEF Once
  <2> QED BY <1>2, <2>3, <2>4 DEF Pair
<1> QED BY <1>2, <1>5

\* The sender makes another connection: no offer was out.
LEMMA SenderGrows ==
  ASSUME NEW s, NEW r, NEW sbox, NEW rbox, Pair(s, r, sbox, rbox),
         NEW s2, NEW sbox2, Typed(s), Typed(r), Advanced(r, "receiver"), Typed(s2),
         Grown(s, s2, 0), Steady(s, s2), Loses(sbox, sbox2)
  PROVE  Pair(s2, r, sbox2, rbox)
<1>1. \A k : ~Stands(s, k)
  BY DEF Grown, Stands
<1>2. \A i \in Nat \ {0} : ~Carries(rbox, "offer", i)
  BY <1>1 DEF Pair, Traced
<1>3. r.conns = <<>>
  <2> SUFFICES ASSUME NEW j \in DOMAIN r.conns PROVE FALSE
    BY ConnsAre
  <2>1. r.conns[j].offer \in Nat \ {0}
    BY ConnsAre DEF Conn, Advanced
  <2> QED BY <1>1, <2>1 DEF Pair, Traced
<1>4. \A j \in Nat \ {0} : ~Stands(r, j)
  BY <1>3 DEF Stands
<1>5. \A k \in DOMAIN s.conns : s.conns[k].applying = 0
  <2>1. \A k \in DOMAIN s.conns : s.conns[k].applying \in Nat
    BY ConnsAre DEF Conn
  <2> QED BY <1>4, <2>1 DEF Pair, Traced
<1>6. \A k \in DOMAIN s2.conns : s2.conns[k].applying = 0
  <2> DEFINE l == Len(s.conns)
  <2>1. l \in Nat /\ DOMAIN s.conns = 1 .. l /\ DOMAIN s2.conns = 1 .. l + 1
    BY ConnsAre DEF Grown
  <2>2. s2.conns[l + 1].applying = 0
    BY DEF Grown
  <2> HIDE DEF l
  <2>3. \A k \in DOMAIN s2.conns : k \in DOMAIN s.conns \/ k = l + 1
    BY <2>1
  <2> QED BY <1>5, <2>2, <2>3 DEF Grown
<1>7. Traced(s2, r, sbox2, rbox)
  <2>1. \A j \in Nat \ {0} : ~Carries(sbox2, "answer", j)
    BY <1>4 DEF Pair, Traced, Loses
  <2> QED BY <1>2, <1>3, <1>6, <2>1 DEF Traced
<1>8. ASSUME Len(s2.conns) <= 1
      PROVE  Once(s2, r, sbox2, rbox) /\ Reached(s2, r)
  <2>1. Len(s.conns) <= 1
    <3> DEFINE l == Len(s.conns)
               l2 == Len(s2.conns)
    <3>1. l \in Nat /\ l2 = l + 1 /\ l2 <= 1
      BY <1>8, ConnsAre DEF Grown
    <3> HIDE DEF l, l2
    <3>2. l <= 1
      BY <3>1
    <3> QED BY <3>2 DEF l
  <2>2. Once(s, r, sbox, rbox) /\ Reached(s, r)
    BY <2>1 DEF Pair
  <2>3. Once(s2, r, sbox2, rbox)
    BY <1>3, <1>6, <2>2 DEF Once, Loses
  <2> QED BY <2>2, <2>3, ReachedKept DEF Steady
<1> QED BY <1>7, <1>8 DEF Pair

\* The receiver makes a connection for the offer it reads.
LEMMA ReceiverGrows ==
  ASSUME NEW s, NEW r, NEW sbox, NEW rbox \in Seq(Wire), Pair(s, r, sbox, rbox),
         NEW r2, NEW rbox2, Typed(s), Typed(r), Typed(r2), rbox # <<>>,
         Head(rbox).type = "offer", Grown(r, r2, Head(rbox).from), Steady(r, r2),
         rbox2 \in {Tail(rbox), <<>>}
  PROVE  Pair(s, r2, sbox, rbox2)
<1> DEFINE from == Head(rbox).from
           l == Len(r.conns)
<1>1. /\ Loses(rbox, rbox2) /\ Carries(rbox, "offer", from)
      /\ Few(rbox, "offer") => \A f : ~Carries(rbox2, "offer", f)
  <2>1. \A f : ~Carries(<<>>, "offer", f)
    BY DEF Carries
  <2>2. Loses(rbox, Tail(rbox)) /\ Loses(rbox, <<>>) /\ Carries(rbox, "offer", from)
    BY LosesHead, LosesAll
  <2>3. Few(rbox, "offer") => \A f : ~Carries(Tail(rbox), "offer", f)
    BY LosesHead
  <2> QED BY <2>1, <2>2, <2>3
<1>2. /\ l \in Nat /\ DOMAIN r.conns = 1 .. l /\ DOMAIN r2.conns = 1 .. l + 1
      /\ Len(r2.conns) = l + 1
  BY ConnsAre DEF Grown
<1>3. r2.conns[l + 1].offer = from
  BY DEF Grown
<1> HIDE DEF l, from
<1>4. \A j \in DOMAIN r2.conns : j \in DOMAIN r.conns \/ j = l + 1
  BY <1>2
<1>5. \A k : ~Stands(r, k)
  BY DEF Grown, Stands
<1>6. Traced(s, r2, sbox, rbox2)
  <2>1. \A i \in Nat \ {0} : Carries(rbox2, "offer", i) => Stands(s, i)
    BY <1>1 DEF Pair, Traced, Loses
  <2>2. \A i \in Nat \ {0}, j \in DOMAIN r2.conns : r2.conns[j].offer = i => Stands(s, i)
    BY <1>1, <1>3, <1>4 DEF Pair, Traced, Grown
  <2>3. \A j \in Nat \ {0} : ~Carries(sbox, "answer", j)
    BY <1>5 DEF Pair, Traced
  <2>4. \A j \in Nat \ {0}, i \in DOMAIN s.conns : s.conns[i].applying # j
    BY <1>5 DEF Pair, Traced
  <2> QED BY <2>1, <2>2, <2>3, <2>4 DEF Traced
<1>7. ASSUME Len(s.conns) <= 1
      PROVE  Once(s, r2, sbox, rbox2) /\ Reached(s, r2)
  <2>1. Once(s, r, sbox, rbox) /\ Reached(s, r)
    BY <1>7 DEF Pair
  <2>2. r.conns = <<>>
    <3>1. from \in Nat
      BY LosesHead DEF Wire, from
    <3> QED BY <1>1, <2>1, <3>1 DEF Once
  <2>3. Len(r2.conns) = 1
    BY <1>2, <2>2, ConnsAre DEF l
  <2>4. \A f : ~Carries(rbox2, "offer", f)
    BY <1>1, <2>1 DEF Once
  <2>5. \A j \in DOMAIN r2.conns : r2.conns[j].phase \notin Up
    BY DEF Grown, Said, Up
  <2>6. Once(s, r2, sbox, rbox2)
    BY <1>1, <2>1, <2>3, <2>4, <2>5 DEF Once, Loses
  <2> QED BY <2>1, <2>6, ReachedKept DEF Steady
<1> QED BY <1>6, <1>7 DEF Pair

\* The sender takes the answer it reads; one that would fail it does not come
\* to a sender of one connection.
LEMMA AnswerWaited ==
  ASSUME NEW s, NEW r, NEW sbox \in Seq(Wire), NEW rbox, Pair(s, r, sbox, rbox),
         NEW i, Good(s, "sender", i), Typed(r), Advanced(r, "receiver"), s.has,
         sbox # <<>>, Head(sbox).type = "answer", Len(s.conns) <= 1
  PROVE  s.cur # 0 /\ s.conns[s.cur].phase = "wait" /\ s.conns[s.cur].applying = 0
<1>1. Head(sbox).from \in Nat \ {0} /\ Carries(sbox, "answer", Head(sbox).from)
  BY LosesHead DEF Wire
<1>2. Stands(r, Head(sbox).from)
  BY <1>1 DEF Pair, Traced
<1>3. PICK j \in DOMAIN r.conns : r.conns[j].offer \in Nat \ {0}
  BY <1>2, ConnsAre DEF Stands, Conn, Advanced
<1>4. Stands(s, r.conns[j].offer)
  BY <1>3 DEF Pair, Traced
<1>5. s.cur # 0
  BY <1>4 DEF Good, Referring, Stands, Said
<1>6. Typed(s) /\ s.cur \in DOMAIN s.conns
  BY <1>5, ConnsAre DEF Good, Typed
<1>7. s.conns[s.cur].phase \in Said
  <2>1. \A k \in DOMAIN s.conns : k = s.cur
    BY <1>6, ConnsAre
  <2> QED BY <1>4, <2>1 DEF Stands
<1>8. s.conns[s.cur].applying = 0
  BY <1>1, <1>6 DEF Pair, Once
<1>9. s.conns[s.cur].phase \notin Up
  BY <1>6, <1>8 DEF Good, Advanced
<1> QED BY <1>5, <1>7, <1>8, <1>9 DEF Said, Up

LEMMA TakenPair ==
  ASSUME NEW s, NEW r, NEW sbox \in Seq(Wire), NEW rbox, Pair(s, r, sbox, rbox),
         NEW s2, NEW sbox2, Typed(s), Typed(r), Typed(s2),
         sbox # <<>>, Head(sbox).type = "answer", AnswerTaken(s, s2, Head(sbox).from),
         Steady(s, s2), sbox2 \in {Tail(sbox), <<>>}
  PROVE  Pair(s2, r, sbox2, rbox)
<1> DEFINE from == Head(sbox).from
           c == s.cur
<1>1. /\ Loses(sbox, sbox2) /\ Carries(sbox, "answer", from) /\ from \in Nat \ {0}
      /\ Few(sbox, "answer") => \A f : ~Carries(sbox2, "answer", f)
  <2>1. \A f : ~Carries(<<>>, "answer", f)
    BY DEF Carries
  <2>2. Loses(sbox, Tail(sbox)) /\ Loses(sbox, <<>>) /\ Carries(sbox, "answer", from)
    BY LosesHead, LosesAll
  <2>3. Few(sbox, "answer") => \A f : ~Carries(Tail(sbox), "answer", f)
    BY LosesHead
  <2>4. from \in Nat \ {0}
    BY LosesHead DEF Wire
  <2> QED BY <2>1, <2>2, <2>3, <2>4
<1>2. /\ Touched(s, s2, c) /\ s2.conns[c].applying = from
      /\ s.conns[c].phase = "wait" /\ s2.conns[c].phase = "wait"
      /\ s2.conns[c].shut <=> s.conns[c].shut
  BY DEF AnswerTaken
<1> HIDE DEF from, c
<1>3. /\ DOMAIN s2.conns = DOMAIN s.conns /\ Len(s2.conns) = Len(s.conns)
      /\ \A k \in DOMAIN s.conns : k = c \/ s2.conns[k] = s.conns[k]
      /\ c \in DOMAIN s.conns /\ s2.has = s.has
  BY <1>2 DEF Touched
<1>4. \A k : Stands(s, k) => Stands(s2, k)
  BY <1>2, <1>3 DEF Stands
<1>5. FormedBy(s) => FormedBy(s2)
  BY <1>2, <1>3 DEF FormedBy, Up
<1>6. Traced(s2, r, sbox2, rbox)
  <2>1. \A j \in Nat \ {0}, k \in DOMAIN s2.conns : s2.conns[k].applying = j => Stands(r, j)
    BY <1>1, <1>2, <1>3 DEF Pair, Traced
  <2> QED BY <1>1, <1>4, <2>1 DEF Pair, Traced, Loses
<1>7. ASSUME Len(s2.conns) <= 1
      PROVE  Once(s2, r, sbox2, rbox) /\ Reached(s2, r)
  <2>1. Once(s, r, sbox, rbox) /\ Reached(s, r)
    BY <1>3, <1>7 DEF Pair
  <2>2. Once(s2, r, sbox2, rbox)
    BY <1>1, <1>5, <2>1 DEF Once, Loses
  <2> QED BY <2>1, <2>2, ReachedKept DEF Steady
<1> QED BY <1>6, <1>7 DEF Pair

\* Connections i and j of the two come up.
Ups(e, n, k) ==
  /\ Touched(e, n, k) /\ e.conns[k].phase = "wait" /\ n.conns[k].phase = "up"
  /\ Alike([e.conns[k] EXCEPT !.phase = "up"], n.conns[k])
  /\ n.conns[k].shut <=> e.conns[k].shut
  /\ n.heard = e.heard

LEMMA UpGood ==
  ASSUME NEW e, NEW n, NEW k, NEW p, NEW i, Good(e, p, i), Ups(e, n, k),
         e.conns[k].remote # 0, Stands(e, k), ~e.conns[k].shut
  PROVE  Good(n, p, i) /\ Steady(e, n)
<1>1. Typed(e) /\ k \in DOMAIN e.conns /\ e.conns[k] \in Conn
  BY ConnsAre DEF Good, Ups, Touched
<1> DEFINE c == e.conns[k]
           d == n.conns[k]
<1>2. /\ d.phase = "up" /\ d.config = c.config /\ d.offer = c.offer /\ d.applying = c.applying
      /\ d.remote = c.remote /\ d.ready = c.ready /\ d.buffered = c.buffered /\ d.added = c.added
      /\ (d.shut <=> c.shut) /\ c.phase = "wait" /\ n.heard = e.heard /\ Touched(e, n, k)
  BY <1>1 DEF Ups, Alike, Conn
<1> HIDE DEF d
<1>3. Onward(e, c, d, p)
  <2>1. Len(e.conns) <= 1 => e.has
    BY DEF Stands
  <2>2. Onward(e, c, c, p)
    <3>1. Len(e.conns) <= 1 /\ c.ready => c.remote # 0
      BY <1>1 DEF Good, Keeping
    <3> QED BY <1>1, <3>1, AlreadyOnward
  <2> QED BY <1>2, <2>1, <2>2 DEF Onward
<1>4. Good(n, p, i)
  <2>1. n.cand = 0 => n.heard \subseteq n.early
    BY <1>2 DEF Touched, Good, Keeping
  <2>2. (n.cand # 0 /\ Len(e.conns) <= 1) =>
          n.heard \subseteq n.early \cup d.buffered \cup d.added
    BY <1>1, <1>2 DEF Touched, Good, Keeping
  <2> QED BY <1>2, <1>3, <2>1, <2>2, TouchedGood DEF d
<1> QED BY <1>2, <1>4, TouchedSteady

LEMMA UpStands ==
  ASSUME NEW e, NEW n, NEW k, Ups(e, n, k), NEW j, Stands(e, j)
  PROVE  Stands(n, j)
BY DEF Ups, Touched, Stands, Said

LEMMA ConnectPair ==
  ASSUME NEW s, NEW r, NEW sbox, NEW rbox, Pair(s, r, sbox, rbox),
         NEW s2, NEW r2, NEW i, NEW j, Typed(s), Typed(r), Ups(s, s2, i), Ups(r, r2, j),
         Steady(s, s2), Steady(r, r2)
  PROVE  Pair(s2, r2, sbox, rbox)
<1>1. i \in DOMAIN s.conns /\ j \in DOMAIN r.conns /\ s.conns[i] \in Conn /\ r.conns[j] \in Conn
  BY ConnsAre DEF Ups, Touched
<1>2. /\ DOMAIN s2.conns = DOMAIN s.conns /\ Len(s2.conns) = Len(s.conns)
      /\ DOMAIN r2.conns = DOMAIN r.conns /\ Len(r2.conns) = Len(r.conns)
      /\ r.conns = <<>> => r2.conns = <<>>
  BY ConnsAre DEF Ups, Touched
<1>3. /\ \A k \in DOMAIN s.conns : s2.conns[k].applying = s.conns[k].applying
      /\ \A k \in DOMAIN r.conns : r2.conns[k].offer = r.conns[k].offer
  BY <1>1 DEF Ups, Touched, Alike, Conn
<1>4. Traced(s2, r2, sbox, rbox)
  BY <1>2, <1>3, UpStands DEF Pair, Traced
<1>5. FormedBy(s2)
  BY <1>1, <1>2 DEF Ups, FormedBy, Up
<1>6. ASSUME Len(s.conns) <= 1 PROVE Once(s2, r2, sbox, rbox) /\ Reached(s2, r2)
  <2>1. Once(s, r, sbox, rbox) /\ Reached(s, r)
    BY <1>6 DEF Pair
  <2>2. Once(s2, r2, sbox, rbox)
    BY <1>2, <1>3, <1>5, <2>1 DEF Once
  <2> QED BY <2>1, <2>2, ReachedKept DEF Steady
<1> QED BY <1>2, <1>4, <1>6 DEF Pair
=============================================================================
