---------------------------- MODULE Relay_proofs ----------------------------
(***************************************************************************)
(* What Relay guarantees whatever the number of connections, the capacity  *)
(* of their queues and the leases of the session.                          *)
(***************************************************************************)
EXTENDS Relay, TLAPS

LEMMA LeasesOK == IdleTTL \in -1 .. ActiveTTL /\ ActiveTTL \in -1 .. ActiveTTL
BY RelayAssumption DEF RelayAssumption

\* Delivering never turns a peer's done back, and keeps both well typed.
LEMMA DeliverType ==
  ASSUME TypeOK, NEW d \in Conn, NEW msg \in Message, Deliver(d, msg)
  PROVE  /\ send' \in [Conn -> Seq(Message)] /\ done' \in [Conn -> BOOLEAN]
         /\ \A c \in Conn : done[c] => done'[c]
<1>1. send \in [Conn -> Seq(Message)] /\ done \in [Conn -> BOOLEAN]
  BY DEF TypeOK
<1>2. Append(send[d], msg) \in Seq(Message)
  BY <1>1
<1> QED BY <1>1, <1>2 DEF Deliver

\* The peer an event is delivered to has been found, and the event is one.
LEMMA EventsOK ==
  ASSUME TypeOK, NEW c \in Conn
  PROVE  /\ [type |-> "peer-joined", from |-> c] \in Message
         /\ [type |-> "peer-left", from |-> c] \in Message
         /\ [type |-> "other", from |-> c] \in Message
BY DEF Message, Event

LEMMA PeersOK ==
  ASSUME TypeOK, NEW c \in Conn
  PROVE  peers[Other(role[c])] \in Conn \cup {NoConn}
BY DEF TypeOK, Other, Role

\* Whoever is about to evict or to greet a peer has found one.
OtherKnown == \A c \in Conn : pc[c] \in {"evict", "greet", "greeted"} => other[c] \in Conn

LEMMA ReturnType ==
  ASSUME TypeOK, NEW c \in Conn, Return(c)
  PROVE  /\ pc' \in [Conn -> PC] /\ other' \in [Conn -> Conn \cup {NoConn}]
         /\ pump' \in [Conn -> {"off", "on", "stopped"}] /\ alive' \in [Conn -> BOOLEAN]
BY DEF TypeOK, PC, Return, Goto

LEMMA TypeStep == TypeOK /\ OtherKnown /\ [Next]_vars => TypeOK'
<1> SUFFICES ASSUME TypeOK, OtherKnown, [Next]_vars PROVE TypeOK'
  OBVIOUS
<1>0. \A c \in Conn, l \in PC : Goto(c, l) => pc' \in [Conn -> PC]
  BY DEF TypeOK, Goto
<1>1. ASSUME NEW c \in Conn, Handshake(c) PROVE TypeOK'
  <2>0. "found" \in PC /\ "expired" \in PC /\ "authed" \in PC /\ "gone" \in PC /\ "attached" \in PC /\ "evict" \in PC
        /\ "greet" \in PC /\ "greeted" \in PC /\ "serving" \in PC
    BY DEF PC
  <2>1. CASE Lookup(c) \/ Authenticate(c) \/ DeleteExpired(c)
    BY <1>0, <2>0, <2>1 DEF Lookup, Authenticate, DeleteExpired, TypeOK
  <2>2. CASE Attach(c) BY <1>0, <2>0, <2>2, LeasesOK DEF Attach, TypeOK
  <2>3. CASE Evict(c) BY <1>0, <2>0, <2>3 DEF Evict, TypeOK
  <2>4. CASE AcceptFails(c) BY <2>4, ReturnType DEF AcceptFails, TypeOK
  <2>5. CASE FindPeer(c) BY <1>0, <2>0, <2>5, PeersOK DEF FindPeer, TypeOK
  <2>6. CASE GreetOther(c)
    <3>1. other[c] \in Conn /\ [type |-> "peer-joined", from |-> c] \in Message
      BY <2>6, EventsOK DEF GreetOther, OtherKnown
    <3>2. send' \in [Conn -> Seq(Message)] /\ done' \in [Conn -> BOOLEAN]
      BY <2>6, <3>1, DeliverType DEF GreetOther
    <3> QED BY <1>0, <2>0, <2>6, <3>2 DEF GreetOther, TypeOK
  <2>7. CASE GreetSelf(c)
    <3>1. [type |-> "peer-joined", from |-> other[c]] \in Message
      BY <2>7, EventsOK DEF GreetSelf, OtherKnown
    <3>2. send' \in [Conn -> Seq(Message)] /\ done' \in [Conn -> BOOLEAN]
      BY <2>7, <3>1, DeliverType DEF GreetSelf
    <3> QED BY <1>0, <2>0, <2>7, <3>2 DEF GreetSelf, TypeOK
  <2> QED BY <1>1, <2>1, <2>2, <2>3, <2>4, <2>5, <2>6, <2>7 DEF Handshake
<1>2. ASSUME NEW c \in Conn, Pumps(c) PROVE TypeOK'
  <2>0. "serving" \in PC /\ "leaving" \in PC /\ "relay" \in PC
    BY DEF PC
  <2>6. CASE FindTarget(c) BY <1>0, <2>0, <2>6, PeersOK DEF FindTarget, TypeOK
  <2>1. CASE Relayed(c)
    <3>1. send' \in [Conn -> Seq(Message)] /\ done' \in [Conn -> BOOLEAN]
      BY <2>1, EventsOK, DeliverType DEF Relayed, TypeOK
    <3> QED BY <1>0, <2>0, <2>1, <3>1 DEF Relayed, TypeOK
  <2>2. CASE ReadFails(c) BY <1>0, <2>0, <2>2 DEF ReadFails, TypeOK
  <2>3. CASE PumpWrites(c)
    <3>1. send[c] \in Seq(Message) /\ send[c] # <<>>
      BY <2>3 DEF PumpWrites, TypeOK
    <3>2. Head(send[c]) \in Message /\ Tail(send[c]) \in Seq(Message)
      BY <3>1
    <3>3. {m.from : m \in {n \in {Head(send[c])} : n.type = "peer-joined"}} \subseteq Conn
      BY <3>2 DEF Message
    <3> QED BY <2>3, <3>2, <3>3 DEF PumpWrites, TypeOK
  <2>4. CASE PumpWriteFails(c) BY <2>4 DEF PumpWriteFails, TypeOK
  <2>5. CASE PumpCloses(c) BY <2>5 DEF PumpCloses, TypeOK
  <2> QED BY <1>2, <2>1, <2>2, <2>3, <2>4, <2>5, <2>6 DEF Pumps
<1>3. ASSUME NEW c \in Conn, Departure(c) PROVE TypeOK'
  <2>1. CASE Detach(c)
    <3>1. ttl' \in -1 .. ActiveTTL /\ UNCHANGED <<role, inMap, reaping, done, sent, heard>>
      BY <2>1, LeasesOK DEF Detach
    <3>2. CASE peers[role[c]] = c
      <4>1. "left" \in PC
        BY DEF PC
      <4> QED BY <1>0, <2>1, <3>1, <3>2, <4>1 DEF Detach, TypeOK
    <3>3. CASE peers[role[c]] # c
      <4>1. Return(c) /\ send' = [send EXCEPT ![c] = <<>>] /\ UNCHANGED peers
        BY <2>1, <3>3 DEF Detach
      <4> QED BY <3>1, <4>1, ReturnType DEF TypeOK
    <3> QED BY <3>2, <3>3
  <2>2. CASE FindWitness(c)
    <3>1. CASE peers[Other(role[c])] = NoConn
      <4>1. Return(c) /\ send' = [send EXCEPT ![c] = <<>>]
        BY <2>2, <3>1 DEF FindWitness
      <4> QED BY <2>2, <4>1, ReturnType DEF FindWitness, TypeOK
    <3>2. CASE peers[Other(role[c])] # NoConn
      BY <2>2, <3>2, PeersOK DEF FindWitness, TypeOK
    <3> QED BY <3>1, <3>2
  <2>3. CASE Farewell(c)
    <3>1. send' \in [Conn -> Seq(Message)] /\ done' \in [Conn -> BOOLEAN]
      BY <2>3, EventsOK, DeliverType DEF Farewell, TypeOK
    <3> QED BY <2>3, <3>1, ReturnType DEF Farewell, TypeOK
  <2> QED BY <1>3, <2>1, <2>2, <2>3 DEF Departure
<1>4. ASSUME NEW c \in Conn, Client(c) PROVE TypeOK'
  <2>0. "touched" \in PC /\ "leaving" \in PC
    BY DEF PC
  <2>1. CASE Read(c) BY <1>0, <2>0, <2>1, PeersOK, LeasesOK DEF Read, Touch, TypeOK
  <2>2. CASE ReadMalformed(c)
    <3>1. send' \in [Conn -> Seq(Message)] /\ done' \in [Conn -> BOOLEAN]
      BY <2>2, EventsOK, DeliverType DEF ReadMalformed
    <3>2. sent' \in [Conn -> Nat]
      BY <2>2 DEF ReadMalformed, TypeOK
    <3> QED BY <2>2, <3>1, <3>2 DEF ReadMalformed, TypeOK
  <2>3. CASE HangUp(c) BY <1>0, <2>0, <2>3 DEF HangUp, TypeOK
  <2> QED BY <1>4, <2>1, <2>2, <2>3 DEF Client
<1>5. CASE Tick BY <1>5, RelayAssumption DEF Tick, TypeOK, RelayAssumption
<1>6. CASE ReapFinds \/ Reap BY <1>6 DEF ReapFinds, Reap, TypeOK
<1>7. CASE UNCHANGED vars BY <1>7 DEF vars, TypeOK
<1> QED BY <1>1, <1>2, <1>3, <1>4, <1>5, <1>6, <1>7 DEF Next

LEMMA OtherStep == TypeOK /\ OtherKnown /\ [Next]_vars => OtherKnown'
<1> SUFFICES ASSUME TypeOK, OtherKnown, [Next]_vars, NEW e \in Conn,
                    pc'[e] \in {"evict", "greet", "greeted"}
             PROVE  other'[e] \in Conn
  BY DEF OtherKnown
<1>0. /\ pc \in [Conn -> PC] /\ other \in [Conn -> Conn \cup {NoConn}]
      /\ pc[e] \in {"evict", "greet", "greeted"} => other[e] \in Conn
  BY DEF TypeOK, OtherKnown
<1> USE DEF Goto, Return
<1>1. ASSUME NEW c \in Conn, Handshake(c) PROVE other'[e] \in Conn
  <2>1. CASE Lookup(c) \/ Authenticate(c) \/ DeleteExpired(c)
    BY <1>0, <2>1 DEF Lookup, Authenticate, DeleteExpired
  <2>2. CASE Attach(c)
    <3>1. peers[role[c]] \in Conn \cup {NoConn}
      BY DEF TypeOK
    <3> QED BY <1>0, <2>2, <3>1 DEF Attach
  <2>3. CASE Evict(c) BY <1>0, <2>3 DEF Evict
  <2>4. CASE AcceptFails(c) BY <1>0, <2>4 DEF AcceptFails
  <2>5. CASE FindPeer(c) BY <1>0, <2>5, PeersOK DEF FindPeer
  <2>6. CASE GreetOther(c) BY <1>0, <2>6 DEF GreetOther
  <2>7. CASE GreetSelf(c) BY <1>0, <2>7 DEF GreetSelf
  <2> QED BY <1>1, <2>1, <2>2, <2>3, <2>4, <2>5, <2>6, <2>7 DEF Handshake
<1>2. ASSUME NEW c \in Conn, Pumps(c) PROVE other'[e] \in Conn
  BY <1>0, <1>2 DEF Pumps, FindTarget, Relayed, ReadFails, PumpWrites, PumpWriteFails, PumpCloses
<1>3. ASSUME NEW c \in Conn, Departure(c) PROVE other'[e] \in Conn
  <2>1. CASE Detach(c) BY <1>0, <2>1 DEF Detach
  <2>2. CASE FindWitness(c) BY <1>0, <2>2 DEF FindWitness
  <2>3. CASE Farewell(c) BY <1>0, <2>3 DEF Farewell
  <2> QED BY <1>3, <2>1, <2>2, <2>3 DEF Departure
<1>4. ASSUME NEW c \in Conn, Client(c) PROVE other'[e] \in Conn
  BY <1>0, <1>4 DEF Client, Read, Touch, ReadMalformed, HangUp
<1>5. CASE Tick \/ ReapFinds \/ Reap \/ UNCHANGED vars BY <1>0, <1>5 DEF Tick, ReapFinds, Reap, vars
<1> QED BY <1>1, <1>2, <1>3, <1>4, <1>5 DEF Next

LEMMA TypeInvariant == Spec => [](TypeOK /\ OtherKnown)
<1>1. Init => TypeOK /\ OtherKnown
  <2> SUFFICES ASSUME Init PROVE TypeOK /\ OtherKnown
    OBVIOUS
  <2>1. pc \in [Conn -> PC] /\ OtherKnown
    BY DEF Init, PC, OtherKnown
  <2>2. /\ role \in [Conn -> Role] /\ peers \in [Role -> Conn \cup {NoConn}]
        /\ ttl \in -1 .. ActiveTTL /\ inMap \in BOOLEAN /\ reaping \in BOOLEAN
    BY LeasesOK DEF Init
  <2>3. send \in [Conn -> Seq(Message)] /\ done \in [Conn -> BOOLEAN]
    BY DEF Init
  <2>4. /\ other \in [Conn -> Conn \cup {NoConn}] /\ pump \in [Conn -> {"off", "on", "stopped"}]
        /\ alive \in [Conn -> BOOLEAN] /\ sent \in [Conn -> Nat] /\ heard \in [Conn -> SUBSET Conn]
    BY DEF Init
  <2> QED BY <2>1, <2>2, <2>3, <2>4 DEF TypeOK
<1>2. TypeOK /\ OtherKnown /\ [Next]_vars => TypeOK' /\ OtherKnown'
  BY TypeStep, OtherStep
<1> QED BY <1>1, <1>2, PTL DEF Spec

\* Type correctness of the relay.
THEOREM RelayTypeOK == Spec => []TypeOK
BY TypeInvariant, PTL

-----------------------------------------------------------------------------
(* Who holds a role *)

\* Past Authenticate, a connection has proved the role it claims.
Uncleared == {"new", "found", "expired", "gone"}
RolesInv == /\ \A c \in Conn : pc[c] \notin Uncleared => Token[c] = role[c]
            /\ \A r \in Role : peers[r] # NoConn => Token[peers[r]] = r

LEMMA RolesStep == TypeOK /\ RolesInv /\ [Next]_vars => RolesInv'
<1> SUFFICES ASSUME TypeOK, RolesInv, [Next]_vars PROVE RolesInv'
  OBVIOUS
<1>0. pc \in [Conn -> PC] /\ role \in [Conn -> Role] /\ peers \in [Role -> Conn \cup {NoConn}]
  BY DEF TypeOK
<1>1. ASSUME NEW c \in Conn, Lookup(c) \/ Authenticate(c) \/ DeleteExpired(c) PROVE RolesInv'
  BY <1>0, <1>1 DEF Uncleared, RolesInv, Lookup, Authenticate, DeleteExpired, Goto
<1>2. ASSUME NEW c \in Conn, Attach(c) PROVE RolesInv'
  <2>1. Token[c] = role[c] /\ role' = role
    BY <1>2 DEF Uncleared, RolesInv, Attach
  <2>2. \A d \in Conn : pc'[d] \notin Uncleared => Token[d] = role'[d]
    BY <1>0, <1>2, <2>1 DEF Uncleared, RolesInv, Attach, Goto
  <2>3. \A r \in Role : peers'[r] # NoConn => Token[peers'[r]] = r
    BY <1>0, <1>2, <2>1 DEF Uncleared, RolesInv, Attach
  <2> QED BY <2>2, <2>3 DEF Uncleared, RolesInv
<1>3. ASSUME NEW c \in Conn, Detach(c) PROVE RolesInv'
  BY <1>0, <1>3 DEF Uncleared, RolesInv, Detach, Goto, Return
<1>4. ASSUME NEW c \in Conn,
             \/ Evict(c) \/ AcceptFails(c) \/ FindPeer(c) \/ GreetOther(c) \/ GreetSelf(c)
             \/ FindWitness(c) \/ Farewell(c)
      PROVE RolesInv'
  <2>1. UNCHANGED <<role, peers>> /\ pc[c] \notin Uncleared
    BY <1>4 DEF Uncleared, Evict, AcceptFails, FindPeer, GreetOther, GreetSelf, FindWitness, Farewell
  <2>2. \A d \in Conn : d # c => pc'[d] = pc[d]
    BY <1>0, <1>4 DEF Evict, AcceptFails, FindPeer, GreetOther, GreetSelf, FindWitness,
                      Farewell, Goto, Return
  <2> QED BY <2>1, <2>2 DEF Uncleared, RolesInv
<1>5. ASSUME NEW c \in Conn, Pumps(c) \/ Client(c) PROVE RolesInv'
  BY <1>0, <1>5 DEF Uncleared, RolesInv, Pumps, Client, FindTarget, Relayed, ReadFails, PumpWrites, PumpWriteFails,
                    PumpCloses, Read, Touch, ReadMalformed, HangUp, Goto
<1>6. CASE Tick \/ ReapFinds \/ Reap \/ UNCHANGED vars
  BY <1>6 DEF Uncleared, RolesInv, Tick, ReapFinds, Reap, vars
<1> QED BY <1>1, <1>2, <1>3, <1>4, <1>5, <1>6 DEF Next, Handshake, Departure

\* A role is only ever held by a connection that presented its token: store.go
\* attach never registers what Authenticate did not clear for that role.
THEOREM RolesProven == Spec => []RolesAreProven
<1>1. Init => RolesInv
  BY DEF Init, Uncleared, RolesInv
<1>2. RolesInv => RolesAreProven
  BY DEF Uncleared, RolesInv, RolesAreProven
<1> QED BY <1>1, <1>2, TypeInvariant, RolesStep, PTL DEF Spec

\* A role is vacated only by the connection that holds it: the cleanup of an
\* evicted socket (store.go detach) never unregisters its successor.
THEOREM StaleDetach == Spec => StaleDetachKeepsSuccessor
<1>1. TypeOK /\ [Next]_vars =>
        [\A r \in Role : peers[r] # NoConn /\ peers'[r] = NoConn => pc[peers[r]] = "leaving"]_vars
  <2> SUFFICES ASSUME TypeOK, Next, NEW r \in Role, peers[r] # NoConn, peers'[r] = NoConn
               PROVE  pc[peers[r]] = "leaving"
    OBVIOUS
  <2>0. role \in [Conn -> Role] /\ peers \in [Role -> Conn \cup {NoConn}]
    BY DEF TypeOK
  <2>1. ASSUME NEW c \in Conn, Attach(c) PROVE FALSE
    BY <2>0, <2>1, RelayAssumption DEF Attach, RelayAssumption
  <2>2. ASSUME NEW c \in Conn, Detach(c) PROVE pc[peers[r]] = "leaving"
    BY <2>0, <2>2 DEF Detach
  <2>3. ASSUME NEW c \in Conn, Handshake(c) \/ Departure(c) \/ Pumps(c) \/ Client(c),
               ~Attach(c), ~Detach(c)
        PROVE  FALSE
    BY <2>3 DEF Handshake, Lookup, Authenticate, DeleteExpired, Evict, AcceptFails, FindPeer, GreetOther, GreetSelf,
                Departure, FindWitness, Farewell, Pumps, FindTarget, Relayed, ReadFails, PumpWrites,
                PumpWriteFails, PumpCloses, Client, Read, Touch, ReadMalformed, HangUp
  <2>4. CASE Tick \/ ReapFinds \/ Reap
    BY <2>4 DEF Tick, ReapFinds, Reap
  <2> QED BY <2>1, <2>2, <2>3, <2>4 DEF Next
<1> QED BY <1>1, TypeInvariant, PTL DEF Spec, StaleDetachKeepsSuccessor

-----------------------------------------------------------------------------
(* Evictions *)

\* EvictedIsClosed, also for a connection that is itself about to evict: it may
\* have lost the role again before it gets there.
EvictedInv ==
  \A e \in Conn : pc[e] \in Attached \cup {"evict"} /\ peers[role[e]] # e =>
     done[e] \/ \E d \in Conn : pc[d] = "evict" /\ other[d] = e

\* A connection that moves within the attached states, registers nobody and
\* evicts nobody leaves the invariant alone.
LEMMA EvictedFrame ==
  ASSUME TypeOK, EvictedInv, NEW c \in Conn, UNCHANGED <<role, peers>>,
         pc[c] # "evict",
         pc[c] \in Attached \/ pc'[c] \notin Attached \cup {"evict"},
         \A d \in Conn : d # c => pc'[d] = pc[d] /\ other'[d] = other[d],
         \A d \in Conn : done[d] => done'[d]
  PROVE  EvictedInv'
BY DEF EvictedInv

LEMMA EvictedStep == TypeOK /\ OtherKnown /\ EvictedInv /\ [Next]_vars => EvictedInv'
<1> SUFFICES ASSUME TypeOK, OtherKnown, EvictedInv, [Next]_vars PROVE EvictedInv'
  OBVIOUS
<1>0. /\ pc \in [Conn -> PC] /\ role \in [Conn -> Role]
      /\ peers \in [Role -> Conn \cup {NoConn}] /\ other \in [Conn -> Conn \cup {NoConn}]
      /\ done \in [Conn -> BOOLEAN]
  BY DEF TypeOK
<1>1. ASSUME NEW c \in Conn, Lookup(c) \/ Authenticate(c) \/ DeleteExpired(c) PROVE EvictedInv'
  BY <1>0, <1>1 DEF EvictedInv, Lookup, Authenticate, DeleteExpired, Goto, Attached
<1>2. ASSUME NEW c \in Conn, Attach(c) PROVE EvictedInv'
  <2> SUFFICES ASSUME NEW e \in Conn, pc'[e] \in Attached \cup {"evict"}, peers'[role'[e]] # e
               PROVE  done'[e] \/ \E d \in Conn : pc'[d] = "evict" /\ other'[d] = e
    BY DEF EvictedInv
  <2>1. e # c /\ pc'[e] = pc[e] /\ role' = role /\ done' = done
    BY <1>0, <1>2 DEF Attach, Goto
  <2>2. CASE peers[role[e]] = e
    <3>1. role[e] = role[c] /\ peers[role[c]] = e /\ e # NoConn
      BY <1>0, <1>2, <2>1, <2>2, RelayAssumption DEF Attach, RelayAssumption
    <3>2. pc'[c] = "evict" /\ other'[c] = e
      BY <1>0, <1>2, <3>1 DEF Attach, Goto
    <3> QED BY <3>2
  <2>3. CASE peers[role[e]] # e
    <3>1. done[e] \/ \E d \in Conn : pc[d] = "evict" /\ other[d] = e
      BY <2>1, <2>3 DEF EvictedInv
    <3>2. \A d \in Conn : pc[d] = "evict" => pc'[d] = "evict" /\ other'[d] = other[d]
      BY <1>0, <1>2 DEF Attach, Goto
    <3> QED BY <2>1, <3>1, <3>2
  <2> QED BY <2>2, <2>3
<1>3. ASSUME NEW c \in Conn, Evict(c) PROVE EvictedInv'
  <2>1. other[c] \in Conn /\ UNCHANGED <<role, peers, other>>
    BY <1>3 DEF Evict, OtherKnown
  <2>2. done'[other[c]] /\ \A d \in Conn : done[d] => done'[d]
    BY <1>0, <1>3, <2>1 DEF Evict
  <2>3. pc[c] = "evict" /\ \A d \in Conn : d # c => pc'[d] = pc[d]
    BY <1>0, <1>3 DEF Evict, Goto
  <2> QED BY <2>1, <2>2, <2>3 DEF EvictedInv, Attached
<1>4. ASSUME NEW c \in Conn, Detach(c) PROVE EvictedInv'
  <2>1. /\ \A d \in Conn : d # c => pc'[d] = pc[d] /\ other'[d] = other[d]
        /\ pc'[c] \in {"left", "gone"} /\ pc[c] = "leaving" /\ UNCHANGED <<role, done>>
    BY <1>0, <1>4 DEF Detach, Goto, Return
  <2>2. \A d \in Conn : d # c /\ peers[role[d]] = d => peers'[role[d]] = d
    BY <1>0, <1>4 DEF Detach
  <2> QED BY <2>1, <2>2 DEF EvictedInv, Attached
<1>5. ASSUME NEW c \in Conn,
             \/ AcceptFails(c) \/ FindPeer(c) \/ GreetOther(c) \/ GreetSelf(c)
             \/ FindWitness(c) \/ Farewell(c) \/ Pumps(c) \/ Client(c)
      PROVE EvictedInv'
  <2>1. UNCHANGED <<role, peers>>
    BY <1>5 DEF AcceptFails, FindPeer, GreetOther, GreetSelf, FindWitness, Farewell, Pumps,
                FindTarget, Relayed, ReadFails, PumpWrites, PumpWriteFails, PumpCloses, Client, Read,
                ReadMalformed, HangUp
  <2>2. \A d \in Conn : done[d] => done'[d]
    BY <1>0, <1>5 DEF AcceptFails, FindPeer, GreetOther, GreetSelf, FindWitness, Farewell,
                Pumps, FindTarget, Relayed, ReadFails, PumpWrites, PumpWriteFails, PumpCloses, Client,
                Read, Touch, ReadMalformed, HangUp, Deliver
  <2>3. \A d \in Conn : d # c => pc'[d] = pc[d] /\ other'[d] = other[d]
    BY <1>0, <1>5 DEF AcceptFails, FindPeer, GreetOther, GreetSelf, FindWitness, Farewell,
                Pumps, FindTarget, Relayed, ReadFails, PumpWrites, PumpWriteFails, PumpCloses, Client,
                Read, Touch, ReadMalformed, HangUp, Goto, Return
  <2>4. CASE pc'[c] = pc[c] /\ other'[c] = other[c]
    BY <2>1, <2>2, <2>3, <2>4 DEF EvictedInv
  <2>5. CASE ~(pc'[c] = pc[c] /\ other'[c] = other[c])
    <3>1. /\ pc[c] # "evict"
          /\ pc[c] \in Attached \/ pc'[c] \notin Attached \cup {"evict"}
      BY <1>0, <1>5, <2>5 DEF AcceptFails, FindPeer, GreetOther, GreetSelf, FindWitness,
                Farewell, Pumps, FindTarget, Relayed, ReadFails, PumpWrites, PumpWriteFails, PumpCloses,
                Client, Read, Touch, ReadMalformed, HangUp, Goto, Return, Attached
    <3>2. pc'[c] # "evict"
      BY <1>0, <1>5, <2>5 DEF AcceptFails, FindPeer, GreetOther, GreetSelf, FindWitness,
                Farewell, Pumps, FindTarget, Relayed, ReadFails, PumpWrites, PumpWriteFails, PumpCloses,
                Client, Read, Touch, ReadMalformed, HangUp, Goto, Return
    <3> QED BY <2>1, <2>2, <2>3, <3>1, <3>2, EvictedFrame
  <2> QED BY <2>4, <2>5
<1>6. CASE Tick \/ ReapFinds \/ Reap \/ UNCHANGED vars
  BY <1>6 DEF EvictedInv, Tick, ReapFinds, Reap, vars
<1> QED BY <1>1, <1>2, <1>3, <1>4, <1>5, <1>6 DEF Next, Handshake, Departure

\* Two connections never both live on as the same role: the one that lost it to
\* a reconnection is closed, or about to be (handleWS, attach).
THEOREM Evicted == Spec => []EvictedIsClosed
<1>1. Init => EvictedInv
  BY DEF Init, EvictedInv, Attached
<1>2. EvictedInv => EvictedIsClosed
  BY DEF EvictedInv, EvictedIsClosed
<1> QED BY <1>1, <1>2, TypeInvariant, EvictedStep, PTL DEF Spec

-----------------------------------------------------------------------------
(* Introductions *)

\* Past peerFor, a registered connection has told its peer, or will: and it has
\* a pump only once it is past its greetings.
Introduced == {"greet", "greeted", "serving", "touched", "relay", "leaving", "left"}
Before == {"new", "found", "expired", "authed", "evict", "attached", "greet", "greeted"}
PumpInv == \A c \in Conn : pc[c] \in Before => pump[c] = "off"

\* x knows of y, or has been closed as too slow, or has lost its socket.
Told(x, y) == Knows(x, y) \/ done[x] \/ pump[x] = "stopped"

\* x is on its way from peerFor, where it found y, to the end of its greetings.
Greeting(x, y) == /\ other[x] = y
                  /\ pc[x] = "greet" \/ (pc[x] = "greeted" /\ Told(y, x))

ToldInv ==
  \A c, d \in Conn :
    /\ peers["sender"] = c /\ peers["receiver"] = d
    /\ pc[c] \in Introduced /\ pc[d] \in Introduced
    => Greeting(c, d) \/ Greeting(d, c) \/ (Told(c, d) /\ Told(d, c))

\* The announcement that y has joined.
Joined(y) == [type |-> "peer-joined", from |-> y]

\* What x has in its queue stays there when something is delivered, and what is
\* delivered to a peer that is still there arrives, unless that peer is dropped.
LEMMA DeliverKeeps ==
  ASSUME TypeOK, NEW d \in Conn, NEW msg \in Message, Deliver(d, msg), heard' = heard,
         NEW x \in Conn, NEW y \in Conn
  PROVE  /\ Knows(x, y) => Knows(x, y)'
         /\ x = d /\ msg = Joined(y) /\ pc[d] # "gone" => Knows(x, y)' \/ done'[x]
<1>0. send \in [Conn -> Seq(Message)] /\ done \in [Conn -> BOOLEAN]
  BY DEF TypeOK
<1>1. CASE send' = [send EXCEPT ![d] = Append(@, msg)]
  <2>1. /\ DOMAIN Append(send[d], msg) = 1 .. Len(send[d]) + 1
        /\ DOMAIN send[d] = 1 .. Len(send[d]) /\ Len(send[d]) \in Nat
        /\ \A i \in DOMAIN send[d] : Append(send[d], msg)[i] = send[d][i]
        /\ Append(send[d], msg)[Len(send[d]) + 1] = msg
    BY <1>0
  <2>2. /\ DOMAIN send[d] \subseteq DOMAIN Append(send[d], msg)
        /\ Len(send[d]) + 1 \in DOMAIN Append(send[d], msg)
    BY <2>1
  <2>3. CASE x = d
    <3>1. send'[x] = Append(send[d], msg)
      BY <1>0, <1>1, <2>3
    <3> QED BY <2>1, <2>2, <2>3, <3>1 DEF Knows, Joined
  <2>4. CASE x # d
    BY <1>0, <1>1, <2>4 DEF Knows
  <2> QED BY <2>3, <2>4
<1>2. CASE send' = send
  BY <1>0, <1>2 DEF Deliver, Knows
<1> QED BY <1>1, <1>2 DEF Deliver

\* The pump passes on what it takes from the queue.
LEMMA WriteKeeps ==
  ASSUME TypeOK, NEW c \in Conn, PumpWrites(c), NEW x \in Conn, NEW y \in Conn, Knows(x, y)
  PROVE  Knows(x, y)'
<1>0. /\ send \in [Conn -> Seq(Message)] /\ heard \in [Conn -> SUBSET Conn]
      /\ send' = [send EXCEPT ![c] = Tail(@)]
      /\ heard' = [heard EXCEPT ![c] =
                    @ \cup {m.from : m \in {n \in {Head(send[c])} : n.type = "peer-joined"}}]
  BY DEF TypeOK, PumpWrites
<1>1. CASE x # c
  BY <1>0, <1>1 DEF Knows
<1>2. CASE x = c /\ y \in heard[x]
  BY <1>0, <1>2 DEF Knows
<1>3. ASSUME x = c, NEW i \in DOMAIN send[x], send[x][i] = Joined(y) PROVE Knows(x, y)'
  <2>1. send[c] # <<>> /\ send[c] \in Seq(Message)
    BY <1>0 DEF PumpWrites
  <2>2. CASE i = 1
    <3>1. Head(send[c]) = Joined(y)
      BY <1>3, <2>1, <2>2
    <3>2. y \in {m.from : m \in {n \in {Head(send[c])} : n.type = "peer-joined"}}
      BY <3>1 DEF Joined
    <3>3. y \in heard'[x]
      BY <1>0, <1>3, <3>2
    <3> QED BY <3>3 DEF Knows
  <2>3. CASE i # 1
    <3>1. i - 1 \in DOMAIN Tail(send[c]) /\ Tail(send[c])[i - 1] = send[c][i]
      BY <1>3, <2>1, <2>3
    <3>2. send'[x] = Tail(send[c])
      BY <1>0, <1>3
    <3> QED BY <1>3, <3>1, <3>2 DEF Knows, Joined
  <2> QED BY <2>2, <2>3
<1> QED BY <1>1, <1>2, <1>3 DEF Knows, Joined

\* The pump is started when the greetings are over, and never again.
LEMMA PumpStep == TypeOK /\ PumpInv /\ [Next]_vars => PumpInv'
<1> SUFFICES ASSUME TypeOK, PumpInv, [Next]_vars, NEW e \in Conn, pc'[e] \in Before
             PROVE  pump'[e] = "off"
  BY DEF PumpInv
<1>0. /\ pc \in [Conn -> PC] /\ pump \in [Conn -> {"off", "on", "stopped"}]
      /\ pc[e] \in Before => pump[e] = "off"
  BY DEF TypeOK, PumpInv
<1>1. ASSUME NEW c \in Conn, Handshake(c) PROVE pump'[e] = "off"
  BY <1>0, <1>1 DEF Handshake, Lookup, Authenticate, DeleteExpired, Attach, Evict, AcceptFails, FindPeer, GreetOther,
                    GreetSelf, Goto, Return, Before
<1>2. ASSUME NEW c \in Conn, Pumps(c) PROVE pump'[e] = "off"
  BY <1>0, <1>2 DEF Pumps, FindTarget, Relayed, ReadFails, PumpWrites, PumpWriteFails, PumpCloses, Goto, Before
<1>3. ASSUME NEW c \in Conn, Departure(c) PROVE pump'[e] = "off"
  BY <1>0, <1>3 DEF Departure, Detach, FindWitness, Farewell, Goto, Return, Before
<1>4. ASSUME NEW c \in Conn, Client(c) PROVE pump'[e] = "off"
  BY <1>0, <1>4 DEF Client, Read, ReadMalformed, HangUp, Goto, Before
<1>5. CASE Tick \/ ReapFinds \/ Reap \/ UNCHANGED vars BY <1>0, <1>5 DEF Tick, ReapFinds, Reap, vars
<1> QED BY <1>1, <1>2, <1>3, <1>4, <1>5 DEF Next

\* Told once, told for good: until its handler returns.
LEMMA ToldStep ==
  ASSUME TypeOK, OtherKnown, PumpInv, [Next]_vars,
         NEW x \in Conn, NEW y \in Conn, Told(x, y), pc'[x] # "gone"
  PROVE  Told(x, y)'
<1>0. /\ pc \in [Conn -> PC] /\ pump \in [Conn -> {"off", "on", "stopped"}]
      /\ send \in [Conn -> Seq(Message)] /\ done \in [Conn -> BOOLEAN]
      /\ pc[x] \in Before => pump[x] = "off"
      /\ other \in [Conn -> Conn \cup {NoConn}]
  BY DEF TypeOK, PumpInv
<1>1. ASSUME NEW c \in Conn, NEW d \in Conn, NEW msg \in Message, Deliver(d, msg), heard' = heard,
             pump[x] = "stopped" => pump'[x] = "stopped"
      PROVE  Told(x, y)'
  BY <1>1, DeliverKeeps, DeliverType DEF Told
<1>2. ASSUME NEW c \in Conn, Handshake(c) PROVE Told(x, y)'
  <2>0. pump[x] = "stopped" => pump'[x] = "stopped"
    BY <1>0, <1>2 DEF Handshake, Lookup, Authenticate, DeleteExpired, Attach, Evict, AcceptFails, FindPeer, GreetOther,
                      GreetSelf, Return, Before
  <2>1. CASE GreetOther(c)
    BY <2>0, <2>1, <1>1, EventsOK DEF GreetOther, OtherKnown
  <2>2. CASE GreetSelf(c)
    BY <2>0, <2>2, <1>1, EventsOK DEF GreetSelf, OtherKnown
  <2>3. CASE AcceptFails(c)
    <3>1. x # c
      BY <1>0, <2>3 DEF AcceptFails, Return, Goto
    <3> QED BY <1>0, <2>0, <2>3, <3>1 DEF AcceptFails, Told, Knows
  <2>4. CASE Evict(c)
    BY <1>0, <2>0, <2>4 DEF Evict, Told, Knows
  <2>5. CASE Lookup(c) \/ Authenticate(c) \/ DeleteExpired(c) \/ Attach(c) \/ FindPeer(c)
    BY <1>0, <2>0, <2>5 DEF Lookup, Authenticate, DeleteExpired, Attach, FindPeer, Told, Knows
  <2> QED BY <1>2, <2>1, <2>2, <2>3, <2>4, <2>5 DEF Handshake
<1>3. ASSUME NEW c \in Conn, Pumps(c) PROVE Told(x, y)'
  <2>1. CASE Relayed(c)
    BY <2>1, <1>0, <1>1, EventsOK DEF Relayed
  <2>2. CASE PumpWrites(c)
    BY <2>2, WriteKeeps DEF PumpWrites, Told
  <2>3. CASE PumpWriteFails(c) \/ PumpCloses(c) \/ ReadFails(c) \/ FindTarget(c)
    BY <1>0, <2>3 DEF FindTarget, PumpWriteFails, PumpCloses, ReadFails, Told, Knows
  <2> QED BY <1>3, <2>1, <2>2, <2>3 DEF Pumps
<1>4. ASSUME NEW c \in Conn, Departure(c) PROVE Told(x, y)'
  <2>1. CASE Detach(c)
    <3>1. CASE x = c
      BY <1>0, <2>1, <3>1 DEF Detach, Return, Goto, Told, Knows
    <3>2. CASE x # c
      BY <1>0, <2>1, <3>2 DEF Detach, Return, Goto, Told, Knows
    <3> QED BY <3>1, <3>2
  <2>2. CASE FindWitness(c)
    <3>1. CASE x = c
      BY <1>0, <2>2, <3>1 DEF FindWitness, Return, Goto, Told, Knows
    <3>2. CASE x # c
      BY <1>0, <2>2, <3>2 DEF FindWitness, Return, Goto, Told, Knows
    <3> QED BY <3>1, <3>2
  <2>3. CASE Farewell(c)
    <3>1. pump[x] = "stopped" => pump'[x] = "stopped"
      BY <1>0, <2>3 DEF Farewell, Return
    <3> QED BY <2>3, <1>0, <1>1, <3>1, EventsOK DEF Farewell
  <2> QED BY <1>4, <2>1, <2>2, <2>3 DEF Departure
<1>5. ASSUME NEW c \in Conn, Client(c) PROVE Told(x, y)'
  <2>1. CASE ReadMalformed(c)
    BY <2>1, <1>1, EventsOK DEF ReadMalformed
  <2>2. CASE Read(c) \/ HangUp(c)
    BY <2>2 DEF Read, HangUp, Told, Knows
  <2> QED BY <1>5, <2>1, <2>2 DEF Client
<1>6. CASE Tick \/ ReapFinds \/ Reap \/ UNCHANGED vars
  BY <1>6 DEF Tick, ReapFinds, Reap, vars, Told, Knows
<1> QED BY <1>2, <1>3, <1>4, <1>5, <1>6 DEF Next

\* Between peerFor and the end of its greetings a connection does nothing else,
\* and peerFor is the only way there.
LEMMA GreetingsOnly ==
  ASSUME TypeOK, [Next]_vars, NEW x \in Conn
  PROVE  /\ pc[x] = "greet" => GreetOther(x) \/ (pc'[x] = "greet" /\ other'[x] = other[x])
         /\ pc[x] = "greeted" => GreetSelf(x) \/ (pc'[x] = "greeted" /\ other'[x] = other[x])
         /\ pc'[x] \in Introduced => pc[x] \in Introduced \/ FindPeer(x)
<1>0. pc \in [Conn -> PC] /\ other \in [Conn -> Conn \cup {NoConn}]
  BY DEF TypeOK
<1> DEFINE Goal == /\ pc[x] = "greet" => GreetOther(x) \/ (pc'[x] = "greet" /\ other'[x] = other[x])
                   /\ pc[x] = "greeted" => GreetSelf(x) \/ (pc'[x] = "greeted" /\ other'[x] = other[x])
                   /\ pc'[x] \in Introduced => pc[x] \in Introduced \/ FindPeer(x)
<1>1. ASSUME NEW c \in Conn, GreetOther(c) \/ GreetSelf(c) \/ FindPeer(c) PROVE Goal
  <2>1. pc[c] \in {"greet", "greeted", "attached"}
        /\ \A e \in Conn : e # c => pc'[e] = pc[e] /\ other'[e] = other[e]
    BY <1>0, <1>1 DEF GreetOther, GreetSelf, FindPeer, Goto
  <2>2. CASE x # c
    BY <2>1, <2>2
  <2>3. CASE x = c
    BY <1>1, <2>3 DEF GreetOther, GreetSelf, FindPeer, Introduced
  <2> QED BY <2>2, <2>3
<1>2. ASSUME NEW c \in Conn, 
             \/ Lookup(c) \/ Authenticate(c) \/ DeleteExpired(c)
             \/ Attach(c) \/ Evict(c) \/ AcceptFails(c)
      PROVE Goal
  BY <1>0, <1>2 DEF Lookup, Authenticate, DeleteExpired, Attach, Evict, AcceptFails, Goto, Return, Introduced
<1>3. ASSUME NEW c \in Conn, Pumps(c) PROVE Goal
  BY <1>0, <1>3 DEF Pumps, FindTarget, Relayed, ReadFails, PumpWrites, PumpWriteFails, PumpCloses, Goto, Introduced
<1>4. ASSUME NEW c \in Conn, Departure(c) PROVE Goal
  BY <1>0, <1>4 DEF Departure, Detach, FindWitness, Farewell, Goto, Return, Introduced
<1>5. ASSUME NEW c \in Conn, Client(c) PROVE Goal
  BY <1>0, <1>5 DEF Client, Read, ReadMalformed, HangUp, Goto, Introduced
<1>6. CASE Tick \/ ReapFinds \/ Reap \/ UNCHANGED vars
  BY <1>6 DEF Tick, ReapFinds, Reap, vars
<1> QED BY <1>1, <1>2, <1>3, <1>4, <1>5, <1>6 DEF Next, Handshake

\* Whoever holds a role and is past peerFor held it before the step.
LEMMA HeldBefore ==
  ASSUME TypeOK, [Next]_vars, NEW r \in Role, NEW e \in Conn, peers'[r] = e, pc'[e] \in Introduced
  PROVE  peers[r] = e
<1>0. /\ pc \in [Conn -> PC] /\ role \in [Conn -> Role] /\ peers \in [Role -> Conn \cup {NoConn}]
      /\ e # NoConn
  BY RelayAssumption DEF TypeOK, RelayAssumption
<1>1. ASSUME NEW c \in Conn, Attach(c) PROVE peers[r] = e
  <2>1. pc'[c] \notin Introduced
    BY <1>0, <1>1 DEF Attach, Goto, Introduced
  <2> QED BY <1>0, <1>1, <2>1 DEF Attach
<1>2. ASSUME NEW c \in Conn, Detach(c) PROVE peers[r] = e
  BY <1>0, <1>2 DEF Detach
<1>3. ASSUME NEW c \in Conn, Handshake(c) \/ Departure(c) \/ Pumps(c) \/ Client(c),
             ~Attach(c), ~Detach(c)
      PROVE  peers' = peers
  BY <1>3 DEF Handshake, Lookup, Authenticate, DeleteExpired, Evict, AcceptFails, FindPeer, GreetOther, GreetSelf,
              Departure, FindWitness, Farewell, Pumps, FindTarget, Relayed, ReadFails, PumpWrites,
              PumpWriteFails, PumpCloses, Client, Read, ReadMalformed, HangUp
<1>4. CASE Tick \/ ReapFinds \/ Reap \/ UNCHANGED vars
  BY <1>4 DEF Tick, ReapFinds, Reap, vars
<1> QED BY <1>1, <1>2, <1>3, <1>4 DEF Next

\* A greeting goes on, or ends with both told.
LEMMA GreetingStep ==
  ASSUME TypeOK, OtherKnown, PumpInv, [Next]_vars, NEW x \in Conn, NEW y \in Conn, x # y,
         Greeting(x, y), pc[y] \in Introduced, pc'[x] # "gone", pc'[y] # "gone"
  PROVE  Greeting(x, y)' \/ (Told(x, y)' /\ Told(y, x)')
<1>0. pc \in [Conn -> PC]
  BY DEF TypeOK
<1>1. CASE pc[x] = "greet"
  <2>1. CASE pc'[x] = "greet" /\ other'[x] = other[x]
    BY <2>1 DEF Greeting
  <2>2. CASE GreetOther(x)
    <3>1. Deliver(y, Joined(x)) /\ heard' = heard /\ pc'[x] = "greeted" /\ other'[x] = y
      BY <1>0, <2>2 DEF GreetOther, Greeting, Joined, Goto
    <3>2. Joined(x) \in Message /\ pc[y] # "gone"
      BY EventsOK DEF Joined, Introduced
    <3>3. Told(y, x)'
      BY <3>1, <3>2, DeliverKeeps DEF Told
    <3> QED BY <3>1, <3>3 DEF Greeting
  <2> QED BY <1>1, <2>1, <2>2, GreetingsOnly
<1>2. CASE pc[x] = "greeted"
  <2>0. Told(y, x)'
    BY <1>2, ToldStep DEF Greeting
  <2>1. CASE pc'[x] = "greeted" /\ other'[x] = other[x]
    BY <2>0, <2>1 DEF Greeting
  <2>2. CASE GreetSelf(x)
    <3>1. Deliver(x, Joined(y)) /\ heard' = heard
      BY <2>2 DEF GreetSelf, Greeting, Joined
    <3>2. Joined(y) \in Message
      BY EventsOK DEF Joined
    <3>3. Told(x, y)'
      BY <1>2, <3>1, <3>2, DeliverKeeps DEF Told
    <3> QED BY <2>0, <3>3
  <2> QED BY <1>2, <2>1, <2>2, GreetingsOnly
<1> QED BY <1>1, <1>2 DEF Greeting

\* A connection that looks for its peer while that peer is registered greets it.
LEMMA FindsPeer ==
  ASSUME TypeOK, NEW x \in Conn, NEW y \in Conn, FindPeer(x), peers[Other(role[x])] = y
  PROVE  Greeting(x, y)'
<1>1. y # NoConn
  BY RelayAssumption DEF RelayAssumption
<1>2. pc \in [Conn -> PC] /\ other \in [Conn -> Conn \cup {NoConn}]
  BY DEF TypeOK
<1> QED BY <1>1, <1>2 DEF FindPeer, Goto, Greeting

LEMMA IntroductionStep ==
  TypeOK /\ OtherKnown /\ RolesInv /\ PumpInv /\ ToldInv /\ [Next]_vars => ToldInv'
<1> SUFFICES ASSUME TypeOK, OtherKnown, RolesInv, PumpInv, ToldInv, [Next]_vars,
                    NEW c \in Conn, NEW d \in Conn,
                    peers'["sender"] = c, peers'["receiver"] = d,
                    pc'[c] \in Introduced, pc'[d] \in Introduced
             PROVE  (Greeting(c, d) \/ Greeting(d, c) \/ (Told(c, d) /\ Told(d, c)))'
  BY DEF ToldInv
<1>0. "sender" \in Role /\ "receiver" \in Role /\ c # NoConn /\ d # NoConn
  BY RelayAssumption DEF Role, RelayAssumption
<1>1. peers["sender"] = c /\ peers["receiver"] = d
  BY <1>0, HeldBefore
<1>2. Token[c] = "sender" /\ Token[d] = "receiver" /\ c # d
  BY <1>0, <1>1 DEF Uncleared, RolesInv
<1>3. CASE FindPeer(c)
  <2>1. role[c] = "sender"
    BY <1>2, <1>3 DEF Uncleared, RolesInv, FindPeer
  <2> QED BY <1>1, <1>3, <2>1, FindsPeer DEF Other
<1>4. CASE FindPeer(d)
  <2>1. role[d] = "receiver"
    BY <1>2, <1>4 DEF Uncleared, RolesInv, FindPeer
  <2> QED BY <1>1, <1>4, <2>1, FindsPeer DEF Other
<1>5. CASE ~FindPeer(c) /\ ~FindPeer(d)
  <2>1. pc[c] \in Introduced /\ pc[d] \in Introduced
    BY <1>5, GreetingsOnly
  <2>2. pc'[c] # "gone" /\ pc'[d] # "gone"
    BY DEF Introduced
  <2>3. CASE Greeting(c, d)
    BY <1>2, <2>1, <2>2, <2>3, GreetingStep
  <2>4. CASE Greeting(d, c)
    BY <1>2, <2>1, <2>2, <2>4, GreetingStep
  <2>5. CASE Told(c, d) /\ Told(d, c)
    BY <2>2, <2>5, ToldStep
  <2> QED BY <1>1, <2>1, <2>3, <2>4, <2>5 DEF ToldInv
<1> QED BY <1>3, <1>4, <1>5

\* Two registered connections past their greetings know of each other, unless
\* one was dropped as too slow: handleWS attaches before it asks peerFor, so
\* whichever of the two attached last finds the other and greets both.
THEOREM BothTold == Spec => []BothAreTold
<1>1. Init => RolesInv /\ PumpInv /\ ToldInv
  BY RelayAssumption DEF Init, Uncleared, RolesInv, PumpInv, ToldInv, RelayAssumption, Role, Introduced
<1>2. PumpInv /\ ToldInv => BothAreTold
  BY DEF PumpInv, ToldInv, BothAreTold, Settled, Told, Greeting, Introduced
<1> QED BY <1>1, <1>2, TypeInvariant, RolesStep, PumpStep, IntroductionStep, PTL DEF Spec
=============================================================================
