------------------------------- MODULE Session -------------------------------
(* Properties of a session from the link to the offer; see Negotiation. *)
EXTENDS Negotiation

\* The sender was told of its peer twice before it had a connection
\* (sender.ts:293): it makes two, and so does the receiver.
NegotiatedTwice == Len(eng["sender"].conns) > 1

Looking(e) == e.state \in {"waiting", "connecting"} /\ ~e.linked /\ ~e.cancelled

\* An engine that let go of its channel leaves no socket and no timer behind,
\* which would hold the role at the relay (cleanup, close).
NoOrphanSocket ==
  \A p \in Role : ~eng[p].has => eng[p].chan.ws \in {"none", "aborting"} /\ ~eng[p].chan.timer

\* However early a candidate arrives, a page that negotiated once still has it:
\* queued, buffered, or added after the remote description (queueCandidate,
\* createPeerConnection, receiver.ts:102-108).
CandidatesKept ==
  \A p \in Role : Len(eng[p].conns) <= 1 /\ ~Ended(eng[p]) /\ ~eng[p].cancelled =>
     eng[p].heard \subseteq eng[p].early \cup
       UNION {eng[p].conns[k].buffered \cup eng[p].conns[k].added : k \in DOMAIN eng[p].conns}

\* A connection is made with the configuration the service served, unless the
\* fetch failed: never with the fallback because it was early (connection.ts:41).
ConfigAwaited ==
  \A p \in Role : \A k \in DOMAIN eng[p].conns :
     eng[p].conns[k].phase # "config" => eng[p].conns[k].config = ice[p]

\* Once an engine is linked, what happens to the relay's sockets fails it no
\* more: only its own connection does (sender.ts:266-270).  The exception
\* contradicts signaling.ts:130-131 and receiver.ts:183-185, which say the same
\* of every linked receiver: one that has not read the MANIFEST is "waiting"
\* still, and onClose fails it (receiver.ts:159).
FailedFor(e, cause) == Ended(e) /\ ~e.cancelled => cause
ExpiredWaiting == eng["receiver"].state = "expired" /\ manifest # "read"
LinkSurvivesRelay ==
  ~NegotiatedTwice => \A p \in Role : eng[p].linked =>
     FailedFor(eng[p], eng[p].unreachable \/ (p = "receiver" /\ ExpiredWaiting))

\* An engine with no promise pending and no connection left open.
Settled(e) == /\ ~e.has /\ e.chan.ws # "aborting"
              /\ \A k \in DOMAIN e.conns :
                    e.conns[k].shut /\ e.conns[k].phase \in {"wait", "up", "open"}

\* A cancelled engine whose own promises have settled never speaks again: no
\* timer, socket, message or connection event reaches its page (page.tsx:86).
CancelledIsQuiet ==
  [][\A p \in Role : eng[p].cancelled /\ Settled(eng[p]) /\ eng[p].state # "creating"
        => eng'[p].state = eng[p].state]_vars

\* A page that lost its socket gets it back, is linked, or says that it failed:
\* retries neither stop silently nor go on for ever.
LostContactIsReported ==
  \A p \in Role : (Looking(eng[p]) /\ ~Online(p)) ~> (Online(p) \/ ~Looking(eng[p]))

\* Two pages at the relay, with nothing going wrong, come to an offer on both
\* screens, in every order of their messages, promises and fetches, unless the
\* sender was told of its peer twice before it had a connection (sender.ts:293).
Undisturbed == spent = 0 /\ Len(eng["sender"].conns) <= 1
MeetingIsOffered ==
  (registered["sender"] /\ registered["receiver"] /\ Undisturbed)
     ~> (manifest = "read" \/ ~Undisturbed)

-----------------------------------------------------------------------------
\* A cancel() while the session is being created closes nothing: that engine
\* goes on (sender.ts:221).
Stopped(e) == e.cancelled /\ ~e.has /\ e.chan # NoChannel
Side(p) == IF NegotiatedTwice THEN "spoiled"
           ELSE IF Ended(eng[p]) \/ Stopped(eng[p]) THEN "gone"
           ELSE IF eng[p].linked THEN "linked"
           ELSE IF eng[p].state = "idle" THEN "out" ELSE "looking"
Formed == ~NegotiatedTwice /\ \E k \in DOMAIN eng["sender"].conns : eng["sender"].conns[k].phase \in {"up", "open"}

R == INSTANCE Rendezvous WITH side <- [p \in Role |-> Side(p)], formed <- Formed

\* The session implements Rendezvous: no connection forms with someone gone,
\* nobody is linked twice, and no outcome is ever taken back.
ImplementsRendezvous == R!Spec
=============================================================================
