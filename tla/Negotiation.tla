----------------------------- MODULE Negotiation -----------------------------
(***************************************************************************)
(* Both engines from start() to the offered manifest: the session, the     *)
(* signaling socket, offer, answer and candidates, and the two channels    *)
(* opening (sender.ts, receiver.ts, connection.ts).                        *)
(*                                                                         *)
(* eng[p] is the engine of one page as a record: its state, its channel to *)
(* the relay and whether this.signaling still refers to it (has), linked,  *)
(* the connections it created (conns), which of them this.pc (cur) and     *)
(* addCandidate (cand) refer to (0 for null), and earlyCandidates.  An     *)
(* operator takes a record to what a method makes of it; an action is one  *)
(* task of a page, up to its next await.  A description or a candidate is  *)
(* named by the number of the connection it came from.                     *)
(*                                                                         *)
(* The relay is what Relay shows of it: who is registered, and the         *)
(* messages on their way to each open socket, lost with it.                *)
(***************************************************************************)
EXTENDS SignalingChannel, SequencesExt

CONSTANTS Events,     \* kinds of user choices and failures that may happen
          MaxEvents   \* bound: how many of them one behaviour contains

ASSUME EventsAssumption == MaxEvents \in Nat

VARIABLES eng,         \* the two engines
          ice,         \* prefetchIce(): what each page's one fetch came to
          registered,  \* the relay holds the role for a socket of that side
          greeting,    \* the relay has still to greet the socket just accepted
          inbox,       \* messages on their way to each side
          manifest,    \* the MANIFEST message: none, sent, read
          shared,      \* the link has been on the sender's screen
          expired,     \* the relay knows the session no more
          spent        \* user choices and failures so far

vars == <<eng, ice, registered, greeting, inbox, manifest, shared, expired, spent>>
relayVars == <<registered, greeting, expired>>
quiet == <<ice, relayVars, manifest, shared, spent>>

Role == {"sender", "receiver"}
Other(p) == IF p = "sender" THEN "receiver" ELSE "sender"

State == {"idle", "creating", "waiting", "connecting", "offering", "offered",
          "failed", "senderGone", "expired"}
Phase == {"config", "remote", "local", "wait", "up", "open"}
Message == [type : {"peer-joined", "peer-left"}] \cup [type : {"offer", "answer", "ice"}, from : Nat]

Conn == [phase : Phase, config : {"none", "served", "fallback"}, shut : BOOLEAN,
         offer : Nat, applying : Nat, remote : Nat, ready : BOOLEAN,
         buffered : SUBSET Nat, added : SUBSET Nat, trickled : BOOLEAN]

NewConn(offer) == [phase |-> "config", config |-> "none", shut |-> FALSE, offer |-> offer,
                   applying |-> 0, remote |-> 0, ready |-> FALSE, buffered |-> {}, added |-> {},
                   trickled |-> FALSE]

NewEngine == [state |-> "idle", chan |-> NoChannel, has |-> FALSE, linked |-> FALSE,
              cur |-> 0, cand |-> 0, early |-> {}, conns |-> <<>>,
              cancelled |-> FALSE, unreachable |-> FALSE, heard |-> {}]

TypeOK ==
  /\ DOMAIN eng = Role
  /\ \A p \in Role :
       /\ eng[p].state \in State /\ eng[p].chan \in Channel
       /\ eng[p].cur \in 0 .. Len(eng[p].conns) /\ eng[p].cand \in 0 .. Len(eng[p].conns)
       /\ \A k \in DOMAIN eng[p].conns : eng[p].conns[k].phase \in Phase
       /\ \A m \in ToSet(inbox[p]) : m \in [type : {"peer-joined", "peer-left"}] \/ m.from > 0
  /\ ice \in [Role -> {"none", "pending", "served", "fallback"}]
  /\ registered \in [Role -> BOOLEAN] /\ greeting \in [Role -> BOOLEAN]
  /\ manifest \in {"none", "sent", "read"}
  /\ shared \in BOOLEAN /\ expired \in BOOLEAN
  /\ spent \in 0 .. MaxEvents

\* The sender's page has called warmUp(); the receiver's has not been opened.
Init ==
  /\ eng = [p \in Role |-> NewEngine]
  /\ ice = [p \in Role |-> IF p = "sender" THEN "pending" ELSE "none"]
  /\ registered = [p \in Role |-> FALSE] /\ greeting = [p \in Role |-> FALSE]
  /\ inbox = [p \in Role |-> <<>>]
  /\ manifest = "none" /\ shared = FALSE /\ expired = FALSE /\ spent = 0

\* A user choice or a failure of kind k happens now.
Happens(k) == k \in Events /\ spent < MaxEvents /\ spent' = spent + 1

Online(p) == eng[p].chan.ws = "open"

-----------------------------------------------------------------------------
(* what the methods make of an engine *)

Ended(e) == e.state \in {"failed", "senderGone", "expired"}

\* Mutant: the signaling channel is let go of without being closed.
CleanupUnclosed(e) ==
  [e EXCEPT !.has = FALSE, !.cur = 0,
            !.conns = [k \in DOMAIN @ |-> [e.conns[k] EXCEPT !.shut = @ \/ k = e.cur]]]

\* Mutant: the peer connection is dropped without being closed.
CleanupConnected(e) ==
  [e EXCEPT !.chan = IF e.has THEN Shut(@) ELSE @, !.has = FALSE, !.cur = 0]

\* cleanup(): the channel is closed, and the connection this.pc refers to.
Cleanup(e) ==
  [e EXCEPT !.chan = IF e.has THEN Shut(@) ELSE @, !.has = FALSE, !.cur = 0,
            !.conns = [k \in DOMAIN @ |-> [e.conns[k] EXCEPT !.shut = @ \/ k = e.cur]]]

Fail(e, state) == IF Ended(e) THEN e ELSE Cleanup([e EXCEPT !.state = state])

\* onClose of either engine.
ContactLost(e, p) ==
  IF e.state \notin {"waiting", "connecting"} THEN e
  ELSE Fail(e, IF p = "sender" THEN "failed" ELSE "expired")

\* The channel went from e.chan to t, and may have told its owner.
Rechannel(e, p, t) ==
  LET n == [e EXCEPT !.chan = t] IN IF TellsOwner(e.chan, t) THEN ContactLost(n, p) ELSE n

\* addIceCandidate, which rejects without a remote description.
Accepted(c, cands) == IF c.remote = 0 THEN c ELSE [c EXCEPT !.added = @ \cup cands]

\* Mutant: a candidate is added whether or not the connection is ready for it.
AddCandidateUnready(c, from) == Accepted(c, {from})

AddCandidate(c, from) ==
  IF c.ready THEN Accepted(c, {from}) ELSE [c EXCEPT !.buffered = @ \cup {from}]

QueueCandidate(e, from) ==
  LET n == [e EXCEPT !.heard = @ \cup {from}] IN
  IF e.cand = 0 THEN [n EXCEPT !.early = @ \cup {from}]
  ELSE [n EXCEPT !.conns[e.cand] = AddCandidate(@, from)]

\* this.remoteReady(): of the connection created last.
RemoteReady(e) ==
  IF e.cand = 0 THEN e
  ELSE [e EXCEPT !.conns[e.cand] = [Accepted(@, @.buffered) EXCEPT !.ready = TRUE, !.buffered = {}]]

\* The connections of e that wait for the configuration.
Waiting(e) == {k \in DOMAIN e.conns : e.conns[k].phase = "config"}

\* One of them goes on, to createOffer or setRemoteDescription.
Goes(c, p, config, early) ==
  [c EXCEPT !.config = config, !.buffered = @ \cup early,
            !.phase = IF p = "sender" THEN "local" ELSE "remote"]

\* Mutant: what came early is not replayed.
ConfiguredAfresh(e, p, config) ==
  IF Waiting(e) = {} THEN e
  ELSE [e EXCEPT !.cur = Max(Waiting(e)), !.cand = Max(Waiting(e)), !.early = {},
                 !.conns = [k \in DOMAIN e.conns |->
                              IF k \in Waiting(e) THEN Goes(e.conns[k], p, config, {})
                              ELSE e.conns[k]]]

\* createPeerConnection returns: the rest of negotiate() and answer() up to the
\* next await, for every connection that waits, in order.
Configured(e, p, config) ==
  IF Waiting(e) = {} THEN e
  ELSE [e EXCEPT !.cur = Max(Waiting(e)), !.cand = Max(Waiting(e)), !.early = {},
                 !.conns = [k \in DOMAIN e.conns |->
                              IF k = Min(Waiting(e)) THEN Goes(e.conns[k], p, config, e.early)
                              ELSE IF k \in Waiting(e) THEN Goes(e.conns[k], p, config, {})
                              ELSE e.conns[k]]]

\* Mutant: negotiation does not wait for the configuration.
CreateUnawaited(e, p, offer) ==
  LET n == [e EXCEPT !.conns = Append(@, NewConn(offer))] IN
  Configured(n, p, IF ice[p] = "served" THEN "served" ELSE "fallback")

\* createPeerConnection: its await is over at once when the fetch has settled.
Create(e, p, offer) ==
  LET n == [e EXCEPT !.conns = Append(@, NewConn(offer))] IN
  IF ice[p] \in {"served", "fallback"} THEN Configured(n, p, ice[p]) ELSE n

Negotiate(e) == IF e.cur # 0 THEN e ELSE Create([e EXCEPT !.state = "connecting"], "sender", 0)

Answer(e, offer) == IF e.cur # 0 THEN e ELSE Create(e, "receiver", offer)

\* setRemoteDescription of an answer: rejected unless this.pc has an offer out.
ApplyAnswer(e, from) ==
  IF e.cur = 0 THEN RemoteReady(e)
  ELSE IF e.conns[e.cur].phase # "wait" \/ e.conns[e.cur].applying # 0 THEN Fail(e, "failed")
  ELSE [e EXCEPT !.conns[e.cur].applying = from]

\* Mutant: a departure counts even when the peers are linked.
PeerLeftAnyway(e, p) == Fail(e, IF p = "sender" THEN "failed" ELSE "senderGone")

PeerLeft(e, p) ==
  IF e.linked THEN e ELSE Fail(e, IF p = "sender" THEN "failed" ELSE "senderGone")

\* onSignal; what has no case is ignored.
OnSignal(e, p, m) ==
  CASE m.type = "peer-left" -> PeerLeft(e, p)
    [] m.type = "peer-joined" /\ p = "sender" -> Negotiate(e)
    [] m.type = "offer" /\ p = "receiver" -> Answer(e, m.from)
    [] m.type = "answer" /\ p = "sender" -> ApplyAnswer(e, m.from)
    [] m.type = "ice" -> QueueCandidate(e, m.from)
    [] OTHER -> e

\* A connection is linked: signaling may go.
Linked(e, k) ==
  [e EXCEPT !.conns[k].phase = "open", !.linked = TRUE,
            !.chan = IF e.has THEN RetireReconnect(@) ELSE @]

-----------------------------------------------------------------------------
(* steps of a page *)

\* The sender's page shows the link.
Sharing(state) == state \in {"waiting", "connecting", "offering"}

\* Engine p becomes n, having read up to left of its messages and sent msgs.
Becomes(p, n, left, msgs) ==
  /\ eng' = [eng EXCEPT ![p] = n]
  /\ inbox' = [inbox EXCEPT ![p] = IF n.chan.ws = "open" THEN left ELSE <<>>,
                            ![Other(p)] = IF Online(p) /\ Online(Other(p)) THEN @ \o msgs ELSE @]
  /\ shared' = (shared \/ (p = "sender" /\ Sharing(n.state)))

Turns(p, n) == Becomes(p, n, inbox[p], <<>>)

\* The sender commits to a batch that start() accepts.
Begin ==
  /\ eng["sender"].state = "idle"
  /\ Turns("sender", [eng["sender"] EXCEPT !.state = "creating"])
  /\ UNCHANGED <<ice, relayVars, manifest, spent>>

Creating == eng["sender"].state = "creating" /\ eng["sender"].chan = NoChannel

\* createSession() answers, even if cancel() was called meanwhile.
SessionCreated ==
  /\ Creating
  /\ Turns("sender", [eng["sender"] EXCEPT !.has = TRUE, !.chan = Connecting])
  /\ UNCHANGED <<ice, relayVars, manifest, spent>>

CreateFails ==
  /\ Creating /\ Happens("create")
  /\ Turns("sender", Fail(eng["sender"], "failed"))
  /\ UNCHANGED <<ice, relayVars, manifest>>

\* Somebody opens the link.
Open ==
  /\ shared /\ eng["receiver"].state = "idle"
  /\ Turns("receiver", [eng["receiver"] EXCEPT !.state = "connecting", !.has = TRUE,
                                               !.chan = Connecting])
  /\ UNCHANGED <<ice, relayVars, manifest, spent>>

\* The relay accepts the socket, taking the role over from a stale one; start()
\* goes on when it was the first.
DialAccepted(p) ==
  /\ eng[p].chan.ws = "dialing" /\ ~expired
  /\ LET n == [eng[p] EXCEPT !.chan = Opened(@)] IN
       Turns(p, IF eng[p].chan.first THEN [n EXCEPT !.state = "waiting"] ELSE n)
  /\ registered' = [registered EXCEPT ![p] = TRUE]
  /\ greeting' = [greeting EXCEPT ![p] = TRUE]
  /\ UNCHANGED <<ice, manifest, expired, spent>>

\* A first socket that cannot join rejects connect(), and start() fails before
\* onclose is called; a later one only has its onclose.
Refused(p) ==
  IF eng[p].chan.first
  THEN Fail([eng[p] EXCEPT !.chan.ws = "none"], IF p = "sender" THEN "failed" ELSE "expired")
  ELSE Rechannel(eng[p], p, Dropped(eng[p].chan))

DialRefused(p) ==
  /\ eng[p].chan.ws = "dialing" /\ Turns(p, Refused(p))
  /\ \/ expired /\ UNCHANGED spent
     \/ ~expired /\ Happens("dial")
  /\ UNCHANGED <<ice, relayVars, manifest>>

\* A socket closed while dialing reports its error.
DialAborted(p) ==
  /\ eng[p].chan.ws = "aborting" /\ Turns(p, Refused(p))
  /\ UNCHANGED <<ice, relayVars, manifest, spent>>

\* The socket drops; the relay notices when Depart happens.
Blip(p) ==
  /\ Online(p) /\ Happens("blip")
  /\ Turns(p, Rechannel(eng[p], p, Dropped(eng[p].chan)))
  /\ UNCHANGED <<ice, relayVars, manifest>>

TimerFires(p) ==
  /\ eng[p].chan.timer
  /\ Turns(p, [eng[p] EXCEPT !.chan = Redialing(@)])
  /\ UNCHANGED <<ice, relayVars, manifest, spent>>

\* onmessage.  A page's first connection starts its fetch, if warmUp() did not.
\* Bound: a page makes a second connection only in a behaviour with no other
\* event; otherwise the message waits until the first has its configuration.
Receive(p) ==
  /\ Online(p) /\ inbox[p] # <<>>
  /\ LET n == OnSignal(eng[p], p, Head(inbox[p]))
         again == p = "sender" /\ eng[p].conns # <<>> /\ Len(n.conns) > Len(eng[p].conns)
     IN /\ Becomes(p, n, Tail(inbox[p]), <<>>)
        /\ ice' = IF n.conns # <<>> /\ ice[p] = "none" THEN [ice EXCEPT ![p] = "pending"] ELSE ice
        /\ IF again THEN spent = 0 /\ spent' = MaxEvents ELSE UNCHANGED spent
  /\ UNCHANGED <<relayVars, manifest>>

\* prefetchIce() settles, once for the life of the page.
IceSettles(p) ==
  /\ ice[p] = "pending"
  /\ \/ ice' = [ice EXCEPT ![p] = "served"] /\ UNCHANGED spent
     \/ ice' = [ice EXCEPT ![p] = "fallback"] /\ Happens("ice")
  /\ Turns(p, Configured(eng[p], p, ice'[p]))
  /\ UNCHANGED <<relayVars, manifest>>

\* setLocalDescription returns, and the description is sent; this.signaling is
\* null after cleanup(), and using it throws.
Described(p, k) ==
  /\ eng[p].conns[k].phase = "local"
  /\ LET n == [eng[p] EXCEPT !.conns[k].phase = "wait"] IN
       IF eng[p].has
       THEN Becomes(p, n, inbox[p], <<[type |-> IF p = "sender" THEN "offer" ELSE "answer", from |-> k]>>)
       ELSE Turns(p, Fail(n, "failed"))
  /\ UNCHANGED <<ice, relayVars, manifest, spent>>

\* The receiver's setRemoteDescription and remoteReady() return.
OfferApplied(k) ==
  /\ eng["receiver"].conns[k].phase = "remote"
  /\ Turns("receiver", IF eng["receiver"].conns[k].shut
                       THEN Fail([eng["receiver"] EXCEPT !.conns[k].phase = "wait"], "failed")
                       ELSE RemoteReady([eng["receiver"] EXCEPT !.conns[k].phase = "local",
                                                                !.conns[k].remote = eng["receiver"].conns[k].offer]))
  /\ UNCHANGED <<ice, relayVars, manifest, spent>>

\* The sender's do.
AnswerApplied(k) ==
  /\ eng["sender"].conns[k].applying # 0 /\ eng["sender"].conns[k].remote = 0
  /\ ~eng["sender"].conns[k].shut
  /\ Turns("sender", RemoteReady([eng["sender"] EXCEPT !.conns[k].remote = eng["sender"].conns[k].applying]))
  /\ UNCHANGED <<ice, relayVars, manifest, spent>>

\* onicecandidate: one candidate stands for those of a connection.
Trickle(p, k) ==
  /\ eng[p].conns[k].phase = "wait"
  /\ ~eng[p].conns[k].trickled /\ ~eng[p].conns[k].shut
  /\ Becomes(p, [eng[p] EXCEPT !.conns[k].trickled = TRUE], inbox[p], <<[type |-> "ice", from |-> k]>>)
  /\ UNCHANGED <<ice, relayVars, manifest, spent>>

\* cancel(): the user cancels, starts over, or leaves the page.
Cancel(p) ==
  /\ eng[p].state # "idle" /\ ~eng[p].cancelled /\ Happens("cancel")
  /\ Turns(p, [Cleanup(eng[p]) EXCEPT !.cancelled = TRUE])
  /\ UNCHANGED <<ice, relayVars, manifest>>

-----------------------------------------------------------------------------
(* the two browsers' connection *)

Matched(i, j) ==
  LET s == eng["sender"].conns[i] r == eng["receiver"].conns[j] IN
  /\ s.remote = j /\ r.remote = i /\ ~s.shut /\ ~r.shut

\* The pair connects once either side has a candidate of the other.
Connect(i, j) ==
  /\ Matched(i, j)
  /\ eng["sender"].conns[i].phase = "wait" /\ eng["receiver"].conns[j].phase = "wait"
  /\ j \in eng["sender"].conns[i].added \/ i \in eng["receiver"].conns[j].added
  /\ eng' = [eng EXCEPT !["sender"].conns[i].phase = "up", !["receiver"].conns[j].phase = "up"]
  /\ UNCHANGED <<inbox, quiet>>

\* Both channels are open on the sender's side: HELLO and MANIFEST leave.
SenderOpens(k) ==
  /\ eng["sender"].conns[k].phase = "up" /\ ~eng["sender"].conns[k].shut
  /\ Turns("sender", [Linked(eng["sender"], k) EXCEPT !.state = "offering"])
  /\ manifest' = "sent"
  /\ UNCHANGED <<ice, relayVars, spent>>

ReceiverOpens(k) ==
  /\ eng["receiver"].conns[k].phase = "up" /\ ~eng["receiver"].conns[k].shut
  /\ Turns("receiver", Linked(eng["receiver"], k))
  /\ UNCHANGED <<ice, relayVars, manifest, spent>>

\* The MANIFEST rides the control stream: it may be there before the data
\* channel is announced, and its receiver linked.
ManifestArrives(k) ==
  /\ manifest = "sent"
  /\ eng["receiver"].conns[k].phase \in {"up", "open"} /\ ~eng["receiver"].conns[k].shut
  /\ Turns("receiver", [eng["receiver"] EXCEPT !.state = "offered"])
  /\ manifest' = "read"
  /\ UNCHANGED <<ice, relayVars, spent>>

\* connectionState "failed".
Unreachable(p, k) ==
  /\ eng[p].conns[k].remote # 0 /\ ~eng[p].conns[k].shut /\ Happens("path")
  /\ Turns(p, [Fail(eng[p], "failed") EXCEPT !.unreachable = @ \/ ~Ended(eng[p])])
  /\ UNCHANGED <<ice, relayVars, manifest>>

-----------------------------------------------------------------------------
(* the relay *)

\* handleWS past attach: both are told; the receiver has no use for it.
Greet(p) ==
  /\ greeting[p]
  /\ greeting' = [greeting EXCEPT ![p] = FALSE]
  /\ inbox' = IF registered[Other(p)] /\ Online("sender")
              THEN [inbox EXCEPT !["sender"] = Append(@, [type |-> "peer-joined"])] ELSE inbox
  /\ UNCHANGED <<eng, ice, registered, expired, manifest, shared, spent>>

\* The handler of a socket that is gone, and was not replaced, cleans up.
Depart(p) ==
  /\ registered[p] /\ ~Online(p)
  /\ registered' = [registered EXCEPT ![p] = FALSE]
  /\ inbox' = IF Online(Other(p))
              THEN [inbox EXCEPT ![Other(p)] = Append(@, [type |-> "peer-left"])] ELSE inbox
  /\ UNCHANGED <<eng, ice, greeting, expired, manifest, shared, spent>>

Expire ==
  /\ ~expired /\ shared /\ Happens("expire")
  /\ expired' = TRUE
  /\ UNCHANGED <<eng, ice, registered, greeting, inbox, manifest, shared>>

-----------------------------------------------------------------------------
Dials(p) == DialAccepted(p) \/ DialRefused(p) \/ DialAborted(p)
Awaits(p) == \E k \in DOMAIN eng[p].conns :
               \/ Described(p, k) \/ Trickle(p, k)
               \/ p = "sender" /\ (AnswerApplied(k) \/ SenderOpens(k))
               \/ p = "receiver" /\ (OfferApplied(k) \/ ReceiverOpens(k) \/ ManifestArrives(k))
Connects == \E i \in DOMAIN eng["sender"].conns, j \in DOMAIN eng["receiver"].conns : Connect(i, j)

Next ==
  \/ Begin \/ SessionCreated \/ CreateFails \/ Open \/ Connects \/ Expire
  \/ \E p \in Role : \/ Dials(p) \/ Blip(p) \/ TimerFires(p) \/ Receive(p) \/ IceSettles(p)
                     \/ Awaits(p) \/ Cancel(p) \/ Greet(p) \/ Depart(p)
                     \/ \E k \in DOMAIN eng[p].conns : Unreachable(p, k)

Spec == Init /\ [][Next]_vars

\* Sockets, timers, fetches and promises settle, the relay serves, and a pair
\* that can connect does.  Nobody has to begin, open, cancel or fail.
Fairness ==
  /\ WF_vars(SessionCreated) /\ WF_vars(Connects)
  /\ \A p \in Role : /\ WF_vars(Dials(p)) /\ WF_vars(TimerFires(p)) /\ WF_vars(Receive(p))
                     /\ WF_vars(IceSettles(p)) /\ WF_vars(Awaits(p))
                     /\ WF_vars(Greet(p)) /\ WF_vars(Depart(p))

FairSpec == Spec /\ Fairness
=============================================================================
