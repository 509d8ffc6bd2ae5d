-------------------------------- MODULE Relay --------------------------------
(***************************************************************************)
(* One session of the signaling service: store.go and the WebSocket relay  *)
(* of main.go (services/signaling).  Sessions share nothing but the map    *)
(* they are kept in, so one is enough.                                     *)
(*                                                                         *)
(* Every connection runs handleWS in a goroutine of its own (pc) with a    *)
(* writePump beside it.  A step is what the code does between two points   *)
(* where another goroutine can get in: one critical section of sess.mu or  *)
(* store.mu, or one channel operation.                                     *)
(*                                                                         *)
(*   "new"      not dialled yet         "greeted" about to tell itself     *)
(*   "found"    session looked up       "serving" in readPump              *)
(*   "expired"  about to delete it      "touched" about to look for a peer *)
(*   "authed"   token checked           "relay"   about to deliver         *)
(*   "evict"    attached, the evicted   "leaving" readPump returned        *)
(*              peer not closed yet     "left"    detached, about to tell  *)
(*   "attached" before websocket.Accept           the other                *)
(*   "greet"    about to tell the other "gone"    handleWS returned        *)
(***************************************************************************)
EXTENDS Integers, Sequences

CONSTANTS Conn,       \* connections that may be dialled
          NoConn,     \* no peer registered
          Token,      \* the role whose token each connection presents
          Capacity,   \* capacity of peer.send
          IdleTTL, ActiveTTL, \* in ticks of the clock
          Unreliable, \* bound: connections whose upgrade, or network, may fail
          MaxMessages \* bound: messages each client sends on its connection

Role == {"sender", "receiver"}

ASSUME RelayAssumption == /\ NoConn \notin Conn
                          /\ Token \in [Conn -> Role]
                          /\ Capacity \in Nat \ {0}
                          /\ IdleTTL \in Nat /\ ActiveTTL \in Nat /\ IdleTTL <= ActiveTTL
                          /\ Unreliable \subseteq Conn
                          /\ MaxMessages \in [Conn -> Nat]

VARIABLES pc,
          role,   \* the role each connection claims
          peers,  \* sess.peers: the connection registered for each role
          ttl,    \* expiresAt - now, -1 once expired
          inMap,  \* the session is in store.sessions
          reaping, \* Reap found it expired, and holds store.mu until it has deleted it
          send, done, \* of each connection's peer
          other,  \* the peer found by peerFor, or evicted by attach
          pump,   \* writePump: "off", "on", "stopped"
          alive,  \* the socket
          sent,   \* messages the client has sent
          heard   \* the peers the client has been told have joined

vars == <<pc, role, peers, ttl, inMap, reaping, send, done, other, pump, alive, sent, heard>>

Other(r) == IF r = "sender" THEN "receiver" ELSE "sender"
\* "other": a relayed message, peer-absent or error: none of them is told apart.
Event == {"peer-joined", "peer-left", "other"}
\* from: the connection an event is about, or a message comes from.
Message == [type : Event, from : Conn]
PC == {"new", "found", "expired", "authed", "evict", "attached", "greet", "greeted",
       "serving", "touched", "relay", "leaving", "left", "gone"}

TypeOK ==
  /\ pc \in [Conn -> PC]
  /\ role \in [Conn -> Role]
  /\ peers \in [Role -> Conn \cup {NoConn}]
  /\ ttl \in -1 .. ActiveTTL
  /\ inMap \in BOOLEAN /\ reaping \in BOOLEAN
  /\ send \in [Conn -> Seq(Message)] /\ done \in [Conn -> BOOLEAN]
  /\ other \in [Conn -> Conn \cup {NoConn}]
  /\ pump \in [Conn -> {"off", "on", "stopped"}]
  /\ alive \in [Conn -> BOOLEAN]
  /\ sent \in [Conn -> Nat]
  /\ heard \in [Conn -> SUBSET Conn]

\* Create() has just put the session in the map.
Init ==
  /\ pc = [c \in Conn |-> "new"]
  /\ role \in [Conn -> Role]
  /\ peers = [r \in Role |-> NoConn]
  /\ ttl = IdleTTL /\ inMap = TRUE /\ reaping = FALSE
  /\ send = [c \in Conn |-> <<>>] /\ done = [c \in Conn |-> FALSE]
  /\ other = [c \in Conn |-> NoConn]
  /\ pump = [c \in Conn |-> "off"]
  /\ alive = [c \in Conn |-> TRUE]
  /\ sent = [c \in Conn |-> 0]
  /\ heard = [c \in Conn |-> {}]

-----------------------------------------------------------------------------
Goto(c, next) == pc' = [pc EXCEPT ![c] = next]

\* handleWS returns: its deferred calls stop the pump and close the socket, and
\* nobody will read what is left in its queue.
Return(c) == /\ Goto(c, "gone")
             /\ alive' = [alive EXCEPT ![c] = FALSE]
             /\ pump' = [pump EXCEPT ![c] = "stopped"]
             /\ other' = [other EXCEPT ![c] = NoConn]

\* peer.deliver: with room and done both ready, select takes either case.
Deliver(d, msg) ==
  \/ /\ pc[d] = "gone"
     /\ UNCHANGED <<send, done>>
  \/ /\ Len(send[d]) < Capacity /\ pc[d] # "gone"
     /\ send' = [send EXCEPT ![d] = Append(@, msg)]
     /\ UNCHANGED done
  \/ /\ done[d] /\ pc[d] # "gone"
     /\ UNCHANGED <<send, done>>
  \/ /\ Len(send[d]) >= Capacity /\ ~done[d] /\ pc[d] # "gone"
     /\ done' = [done EXCEPT ![d] = TRUE]
     /\ UNCHANGED send

\* Authenticate looks the session up, under store.mu.
Lookup(c) ==
  /\ pc[c] = "new" /\ ~reaping
  /\ Goto(c, IF inMap THEN "found" ELSE "gone")
  /\ UNCHANGED <<role, peers, ttl, inMap, reaping, send, done, other, pump, alive, sent, heard>>

\* Mutant: any token of the session will do.
AuthenticateAnyToken(c) ==
  /\ pc[c] = "found"
  /\ Goto(c, IF ttl < 0 THEN "expired" ELSE "authed")
  /\ UNCHANGED <<role, peers, ttl, inMap, reaping, send, done, other, pump, alive, sent, heard>>

\* ... then asks, under sess.mu, whether it has expired, whatever has become of
\* the map by now, and compares the token with that of the role claimed.
Authenticate(c) ==
  /\ pc[c] = "found"
  /\ Goto(c, IF ttl < 0 THEN "expired" ELSE IF Token[c] = role[c] THEN "authed" ELSE "gone")
  /\ UNCHANGED <<role, peers, ttl, inMap, reaping, send, done, other, pump, alive, sent, heard>>

\* Delete, under store.mu again: of a session somebody may have attached to since.
DeleteExpired(c) ==
  /\ pc[c] = "expired" /\ ~reaping
  /\ inMap' = FALSE
  /\ Goto(c, "gone")
  /\ UNCHANGED <<role, peers, ttl, reaping, send, done, other, pump, alive, sent, heard>>

\* attach: take the role over from whatever held it.
Attach(c) ==
  /\ pc[c] = "authed"
  /\ peers' = [peers EXCEPT ![role[c]] = c]
  /\ ttl' = ActiveTTL
  /\ other' = [other EXCEPT ![c] = peers[role[c]]]
  /\ Goto(c, IF peers[role[c]] = NoConn THEN "attached" ELSE "evict")
  /\ UNCHANGED <<role, inMap, reaping, send, done, pump, alive, sent, heard>>

\* Mutant: the evicted connection is left open.
EvictUnclosed(c) ==
  /\ pc[c] = "evict"
  /\ Goto(c, "attached")
  /\ UNCHANGED <<role, peers, ttl, inMap, reaping, send, done, other, pump, alive, sent, heard>>

\* evicted.close()
Evict(c) ==
  /\ pc[c] = "evict"
  /\ done' = [done EXCEPT ![other[c]] = TRUE]
  /\ Goto(c, "attached")
  /\ UNCHANGED <<role, peers, ttl, inMap, reaping, send, other, pump, alive, sent, heard>>

\* websocket.Accept fails: handleWS returns, and nothing is detached.
AcceptFails(c) ==
  /\ pc[c] = "attached" /\ c \in Unreliable
  /\ Return(c) /\ send' = [send EXCEPT ![c] = <<>>]
  /\ UNCHANGED <<role, peers, ttl, inMap, reaping, done, sent, heard>>

\* Accepted; peerFor: is the other side here?  The pumps start afterwards.
FindPeer(c) ==
  /\ pc[c] = "attached"
  /\ other' = [other EXCEPT ![c] = peers[Other(role[c])]]
  /\ IF peers[Other(role[c])] = NoConn
     THEN Goto(c, "serving") /\ pump' = [pump EXCEPT ![c] = "on"]
     ELSE Goto(c, "greet") /\ UNCHANGED pump
  /\ UNCHANGED <<role, peers, ttl, inMap, reaping, send, done, alive, sent, heard>>

GreetOther(c) ==
  /\ pc[c] = "greet"
  /\ Deliver(other[c], [type |-> "peer-joined", from |-> c])
  /\ Goto(c, "greeted")
  /\ UNCHANGED <<role, peers, ttl, inMap, reaping, other, pump, alive, sent, heard>>

\* Mutant: only the peer that was there first is told.
GreetSelfSkipped(c) ==
  /\ pc[c] = "greeted"
  /\ Goto(c, "serving") /\ pump' = [pump EXCEPT ![c] = "on"]
  /\ UNCHANGED <<role, peers, ttl, inMap, reaping, send, done, other, alive, sent, heard>>

GreetSelf(c) ==
  /\ pc[c] = "greeted"
  /\ Deliver(c, [type |-> "peer-joined", from |-> other[c]])
  /\ Goto(c, "serving") /\ pump' = [pump EXCEPT ![c] = "on"]
  /\ UNCHANGED <<role, peers, ttl, inMap, reaping, other, alive, sent, heard>>

-----------------------------------------------------------------------------
(* readPump *)

\* Mutant: each message lengthens the lease instead of renewing it.
TouchExtends == ttl' = ttl + ActiveTTL

Touch == ttl' = ActiveTTL

\* A valid message: touch the session,
Read(c) ==
  /\ pc[c] = "serving" /\ alive[c] /\ sent[c] < MaxMessages[c]
  /\ sent' = [sent EXCEPT ![c] = @ + 1]
  /\ Touch
  /\ Goto(c, "touched")
  /\ UNCHANGED <<role, peers, inMap, reaping, send, done, other, pump, alive, heard>>

\* ... then look for the other peer.
FindTarget(c) ==
  /\ pc[c] = "touched"
  /\ other' = [other EXCEPT ![c] = peers[Other(role[c])]]
  /\ Goto(c, "relay")
  /\ UNCHANGED <<role, peers, ttl, inMap, reaping, send, done, pump, alive, sent, heard>>

Relayed(c) ==
  /\ pc[c] = "relay"
  /\ IF other[c] = NoConn THEN Deliver(c, [type |-> "other", from |-> c])
     ELSE Deliver(other[c], [type |-> "other", from |-> c])
  /\ Goto(c, "serving")
  /\ UNCHANGED <<role, peers, ttl, inMap, reaping, other, pump, alive, sent, heard>>

\* A malformed envelope is answered, without touching the session.
ReadMalformed(c) ==
  /\ pc[c] = "serving" /\ alive[c] /\ sent[c] < MaxMessages[c]
  /\ sent' = [sent EXCEPT ![c] = @ + 1]
  /\ Deliver(c, [type |-> "other", from |-> c])
  /\ UNCHANGED <<pc, role, peers, ttl, inMap, reaping, other, pump, alive, heard>>

\* The client hangs up, or the network does it for it, and Read fails.
HangUp(c) ==
  /\ pc[c] = "serving" /\ alive[c] /\ c \in Unreliable
  /\ Goto(c, "leaving") /\ alive' = [alive EXCEPT ![c] = FALSE]
  /\ UNCHANGED <<role, peers, ttl, inMap, reaping, send, done, other, pump, sent, heard>>

\* Read fails because writePump has closed the socket.
ReadFails(c) ==
  /\ pc[c] = "serving" /\ ~alive[c]
  /\ Goto(c, "leaving")
  /\ UNCHANGED <<role, peers, ttl, inMap, reaping, send, done, other, pump, alive, sent, heard>>

\* Mutant: whoever leaves vacates the role.
DetachWhoever(c) ==
  /\ pc[c] = "leaving"
  /\ ttl' = IdleTTL
  /\ peers' = [peers EXCEPT ![role[c]] = NoConn]
  /\ Goto(c, "left") /\ other' = [other EXCEPT ![c] = NoConn]
  /\ UNCHANGED <<role, inMap, reaping, send, done, pump, alive, sent, heard>>

\* detach: only a connection that still holds its role gives it up, but either
\* puts the session back on its idle lease.
Detach(c) ==
  /\ pc[c] = "leaving"
  /\ ttl' = IdleTTL
  /\ \/ /\ peers[role[c]] = c
        /\ peers' = [peers EXCEPT ![role[c]] = NoConn]
        /\ Goto(c, "left") /\ other' = [other EXCEPT ![c] = NoConn]
        /\ UNCHANGED <<send, pump, alive>>
     \/ /\ peers[role[c]] # c
        /\ Return(c) /\ send' = [send EXCEPT ![c] = <<>>]
        /\ UNCHANGED peers
  /\ UNCHANGED <<role, inMap, reaping, done, sent, heard>>

\* peerFor again: is there anybody to tell?
FindWitness(c) ==
  /\ pc[c] = "left" /\ other[c] = NoConn
  /\ \/ /\ peers[Other(role[c])] = NoConn
        /\ Return(c) /\ send' = [send EXCEPT ![c] = <<>>]
     \/ /\ peers[Other(role[c])] # NoConn
        /\ other' = [other EXCEPT ![c] = peers[Other(role[c])]]
        /\ UNCHANGED <<pc, send, pump, alive>>
  /\ UNCHANGED <<role, peers, ttl, inMap, reaping, done, sent, heard>>

Farewell(c) ==
  /\ pc[c] = "left" /\ other[c] # NoConn
  /\ Deliver(other[c], [type |-> "peer-left", from |-> c])
  /\ Return(c)
  /\ UNCHANGED <<role, peers, ttl, inMap, reaping, sent, heard>>

-----------------------------------------------------------------------------
(* writePump: select among done and the queue, whichever is ready *)

PumpWrites(c) ==
  /\ pump[c] = "on" /\ send[c] # <<>> /\ alive[c]
  /\ send' = [send EXCEPT ![c] = Tail(@)]
  /\ heard' = [heard EXCEPT ![c] =
                 @ \cup {m.from : m \in {n \in {Head(send[c])} : n.type = "peer-joined"}}]
  /\ UNCHANGED <<pc, role, peers, ttl, inMap, reaping, done, other, pump, alive, sent>>

PumpWriteFails(c) ==
  /\ pump[c] = "on" /\ send[c] # <<>> /\ ~alive[c]
  /\ send' = [send EXCEPT ![c] = Tail(@)]
  /\ pump' = [pump EXCEPT ![c] = "stopped"]
  /\ UNCHANGED <<pc, role, peers, ttl, inMap, reaping, done, other, alive, sent, heard>>

\* "too slow", or evicted: the socket is closed.
PumpCloses(c) ==
  /\ pump[c] = "on" /\ done[c]
  /\ alive' = [alive EXCEPT ![c] = FALSE]
  /\ pump' = [pump EXCEPT ![c] = "stopped"]
  /\ UNCHANGED <<pc, role, peers, ttl, inMap, reaping, send, done, other, sent, heard>>

-----------------------------------------------------------------------------
(* the clock and the reaper *)

Tick ==
  /\ ttl >= 0
  /\ ttl' = ttl - 1
  /\ UNCHANGED <<pc, role, peers, inMap, reaping, send, done, other, pump, alive, sent, heard>>

\* Reap looks at the lease under sess.mu, and deletes the session while it still
\* holds store.mu, which attach does not take.
ReapFinds ==
  /\ inMap /\ ttl < 0 /\ ~reaping
  /\ reaping' = TRUE
  /\ UNCHANGED <<pc, role, peers, ttl, inMap, send, done, other, pump, alive, sent, heard>>

Reap ==
  /\ reaping
  /\ reaping' = FALSE /\ inMap' = FALSE
  /\ UNCHANGED <<pc, role, peers, ttl, send, done, other, pump, alive, sent, heard>>

Handshake(c) == \/ Lookup(c) \/ Authenticate(c) \/ DeleteExpired(c)
                \/ Attach(c) \/ Evict(c) \/ AcceptFails(c)
                \/ FindPeer(c) \/ GreetOther(c) \/ GreetSelf(c)
Pumps(c) == \/ FindTarget(c) \/ Relayed(c) \/ ReadFails(c)
            \/ PumpWrites(c) \/ PumpWriteFails(c) \/ PumpCloses(c)
Departure(c) == Detach(c) \/ FindWitness(c) \/ Farewell(c)
Client(c) == Read(c) \/ ReadMalformed(c) \/ HangUp(c)

Next == \/ \E c \in Conn : Handshake(c) \/ Pumps(c) \/ Departure(c) \/ Client(c)
        \/ Tick \/ ReapFinds \/ Reap

Spec == Init /\ [][Next]_vars

-----------------------------------------------------------------------------
(* Properties *)

\* A role is only ever held by a connection that presented its token: whatever
\* reconnects, evicts and leaves in between, attach never lets in, under the
\* role it claims, a connection Authenticate did not clear for that role.
RolesAreProven == \A r \in Role : peers[r] # NoConn => Token[peers[r]] = r

\* Past attach, a connection that has lost its role to a reconnection has been
\* closed, or the one that took it is just about to close it: two connections
\* never both live on as the same role (store.go attach, handleWS).
Attached == {"attached", "greet", "greeted", "serving", "touched", "relay"}
EvictedIsClosed ==
  \A c \in Conn : pc[c] \in Attached /\ peers[role[c]] # c =>
     done[c] \/ \E d \in Conn : pc[d] = "evict" /\ other[d] = c

\* Two connections that are both registered, and past their greetings, know of
\* each other, unless one was dropped as too slow: a sender is never left
\* waiting for a receiver that is there.  It rests on attach coming before
\* peerFor in both goroutines.
Knows(c, d) == \/ d \in heard[c]
               \/ \E i \in DOMAIN send[c] : send[c][i] = [type |-> "peer-joined", from |-> d]
Settled(c) == pc[c] \in {"serving", "touched", "relay"} /\ pump[c] = "on" /\ ~done[c]
BothAreTold ==
  \A c, d \in Conn : /\ peers["sender"] = c /\ peers["receiver"] = d
                     /\ Settled(c) /\ Settled(d)
                     => Knows(c, d) /\ Knows(d, c)

\* A role is vacated only by the departure of the connection that holds it: the
\* late cleanup of an evicted socket never unregisters its successor.
StaleDetachKeepsSuccessor ==
  [][\A r \in Role : peers[r] # NoConn /\ peers'[r] = NoConn => pc[peers[r]] = "leaving"]_vars

\* main.go 317-321: a departure is never announced for a role whose peer is
\* right there.  detach and peerFor are two critical sections, and a
\* reconnection that attaches in between makes the announcement false.
NoFalseDeparture ==
  [][\A c \in Conn : Farewell(c) => peers[role[c]] = NoConn]_vars

\* store.go 256: peerFor returns the opposite peer "if it is currently
\* connected".  A connection whose upgrade failed stays registered.
RegisteredIsConnected == \A r \in Role : peers[r] # NoConn => pc[peers[r]] # "gone"
=============================================================================
