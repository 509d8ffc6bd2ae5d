--------------------------- MODULE Rendezvous_proofs ---------------------------
(***************************************************************************)
(* Every step of a session keeps NegotiationInv, and is a step of          *)
(* Rendezvous or one that Rendezvous does not see.                         *)
(***************************************************************************)
EXTENDS Negotiation_proofs

-----------------------------------------------------------------------------
(* what Rendezvous sees *)

Seen == [R!Next]_<<[p \in Role |-> Side(p)], Formed>>

\* The parts of the invariant that a step of an engine may disturb.
Parts == /\ EnginesGood /\ PairGood
         /\ inbox \in [Role -> Seq(Wire)] /\ shared \in BOOLEAN

LEMMA PartsThen ==
  /\ EnginesGood' <=> \A p \in Role : Good(eng'[p], p, ice'[p])
  /\ PairGood' <=> Pair(eng'["sender"], eng'["receiver"], inbox'["sender"], inbox'["receiver"])
BY DEF EnginesGood, Good, Typed, Fetched, Begun, Referring, Advanced, LetGo, Keeping, Engine, Ended,
       PairGood, Pair, Traced, Once, Reached, Past, Kept, FailedFor, Stands, Few, Carries, FormedBy

LEMMA SideIs ==
  /\ \A p : Side(p) = IF Len(eng["sender"].conns) > 1 THEN "spoiled" ELSE SideOf(eng[p])
  /\ Formed <=> ~(Len(eng["sender"].conns) > 1) /\ FormedBy(eng["sender"])
BY DEF Side, SideOf, Formed, FormedBy, NegotiatedTwice, Up

LEMMA SideIsThen ==
  /\ \A p : Side(p)' = IF Len(eng'["sender"].conns) > 1 THEN "spoiled" ELSE SideOf(eng'[p])
  /\ Formed' <=> ~(Len(eng'["sender"].conns) > 1) /\ FormedBy(eng'["sender"])
BY DEF Side, SideOf, Formed, FormedBy, NegotiatedTwice, Up, Ended, Stopped

\* Whatever happens to a sender that negotiates twice is not seen.
LEMMA SpoiledSeen ==
  ASSUME Len(eng["sender"].conns) > 1, Len(eng'["sender"].conns) > 1
  PROVE  Seen
BY SideIs, SideIsThen DEF Seen, Role

\* One engine moves to the side to, and nothing else changes.
LEMMA MovesSeen ==
  ASSUME NEW p \in Role, NEW n, eng' = [q \in Role |-> IF q = p THEN n ELSE eng[q]],
         Len(eng'["sender"].conns) = Len(eng["sender"].conns),
         FormedBy(eng'["sender"]) <=> FormedBy(eng["sender"]),
         \/ Len(eng["sender"].conns) > 1
         \/ SideOf(n) = SideOf(eng[p])
         \/ SideOf(eng[p]) = "out" /\ SideOf(n) = "looking"
         \/ SideOf(eng[p]) \in {"looking", "linked"} /\ SideOf(n) = "gone"
         \/ /\ SideOf(eng[p]) = "looking" /\ SideOf(n) = "linked"
            /\ Len(eng["sender"].conns) <= 1 => FormedBy(eng["sender"])
  PROVE  Seen
<1>1. CASE Len(eng["sender"].conns) > 1
  BY <1>1, SpoiledSeen
<1>2. CASE ~(Len(eng["sender"].conns) > 1)
  <2> DEFINE sd == [q \in Role |-> Side(q)]
             sd2 == [q \in Role |-> Side(q)']
  <2>1. \A q \in Role : Side(q) = SideOf(eng[q]) /\ Side(q)' = SideOf(eng'[q])
    BY <1>2, SideIs, SideIsThen
  <2>2. /\ sd = [q \in Role |-> sd[q]] /\ sd2 = [q \in Role |-> sd2[q]]
        /\ sd[p] = SideOf(eng[p]) /\ sd2[p] = SideOf(n)
        /\ \A q \in Role : q # p => sd2[q] = sd[q]
    BY <2>1
  <2>3. Formed' = Formed
    <3>1. Formed' <=> Formed
      BY <1>2, SideIs, SideIsThen
    <3>2. Formed \in BOOLEAN /\ Formed' \in BOOLEAN
      BY DEF Formed
    <3> QED BY <3>1, <3>2
  <2>4. [q \in Role |-> Side(q)]' = sd2
    OBVIOUS
  <2>5. \A s : sd2[p] = s => sd2 = [sd EXCEPT ![p] = s]
    <3> HIDE DEF sd, sd2
    <3> QED BY <2>2
  <2>6. R!Next <=> \/ R!Form \/ R!Spoil
                   \/ \E q \in Role : R!Look(q) \/ R!Link(q) \/ R!Leave(q)
    BY DEF R!Next, R!Role, Role
  <2>7. CASE SideOf(n) = SideOf(eng[p])
    <3>1. sd2 = sd
      <4> HIDE DEF sd, sd2
      <4> QED BY <2>2, <2>7
    <3> QED BY <2>3, <2>4, <3>1 DEF Seen
  <2>8. CASE SideOf(eng[p]) = "out" /\ SideOf(n) = "looking"
    <3>1. R!Look(p)
      BY <2>2, <2>3, <2>4, <2>5, <2>8 DEF R!Look
    <3> QED BY <2>6, <3>1 DEF Seen
  <2>9. CASE SideOf(eng[p]) \in {"looking", "linked"} /\ SideOf(n) = "gone"
    <3>1. R!Leave(p)
      BY <2>2, <2>3, <2>4, <2>5, <2>9 DEF R!Leave
    <3> QED BY <2>6, <3>1 DEF Seen
  <2>10. CASE SideOf(eng[p]) = "looking" /\ SideOf(n) = "linked" /\ Formed
    <3>1. R!Link(p)
      BY <2>2, <2>3, <2>4, <2>5, <2>10 DEF R!Link
    <3> QED BY <2>6, <3>1 DEF Seen
  <2>11. Len(eng["sender"].conns) <= 1
    BY <1>2
  <2> QED BY <1>2, <2>7, <2>8, <2>9, <2>10, <2>11, SideIs
<1> QED BY <1>1, <1>2

-----------------------------------------------------------------------------
(* a step of one engine *)

LEMMA Sides == \A p \in Role : Other(p) \in Role /\ Other(p) # p /\ Role = {p, Other(p)}
BY DEF Role, Other

LEMMA BecomesShape ==
  ASSUME NegotiationInv, NEW p \in Role, NEW n, NEW left, NEW msgs, Becomes(p, n, left, msgs)
  PROVE  /\ eng' = [q \in Role |-> IF q = p THEN n ELSE eng[q]]
         /\ inbox' = [q \in Role |-> inbox'[q]]
         /\ inbox'[p] = (IF n.chan.ws = "open" THEN left ELSE <<>>)
         /\ inbox'[Other(p)] \in {inbox[Other(p)], inbox[Other(p)] \o msgs}
         /\ shared' \in BOOLEAN
<1>1. eng = [q \in Role |-> eng[q]] /\ inbox \in [Role -> Seq(Wire)] /\ shared \in BOOLEAN
  BY DEF NegotiationInv, SocketsInv, Plain
<1>2. Other(p) \in Role /\ Other(p) # p
  BY Sides
<1>3. eng' = [q \in Role |-> IF q = p THEN n ELSE eng[q]]
  BY <1>1 DEF Becomes
<1>4. /\ inbox' = [q \in Role |-> inbox'[q]]
      /\ inbox'[p] = (IF n.chan.ws = "open" THEN left ELSE <<>>)
      /\ inbox'[Other(p)] \in {inbox[Other(p)], inbox[Other(p)] \o msgs}
  <2> DEFINE box == IF n.chan.ws = "open" THEN left ELSE <<>>
             obox == IF Online(p) /\ Online(Other(p)) THEN inbox[Other(p)] \o msgs ELSE inbox[Other(p)]
  <2>1. inbox' = [inbox EXCEPT ![p] = box, ![Other(p)] = obox]
    BY <1>1, <1>2 DEF Becomes
  <2>2. obox \in {inbox[Other(p)], inbox[Other(p)] \o msgs}
    OBVIOUS
  <2> HIDE DEF box, obox
  <2>3. /\ inbox' = [q \in Role |-> inbox'[q]] /\ inbox'[p] = box /\ inbox'[Other(p)] = obox
    BY <1>1, <1>2, <2>1
  <2> QED BY <2>2, <2>3 DEF box
<1>5. shared' \in BOOLEAN
  BY <1>1 DEF Becomes
<1> QED BY <1>3, <1>4, <1>5

\* Engine p becomes n, and no description is on its way that was not.
Slips(p, n) ==
  /\ eng' = [q \in Role |-> IF q = p THEN n ELSE eng[q]]
  /\ inbox' \in [Role -> Seq(Wire)]
  /\ \A q \in Role : Loses(inbox[q], inbox'[q])
  /\ shared' \in BOOLEAN

LEMMA TurnsShape ==
  ASSUME NegotiationInv, NEW p \in Role, NEW n, Turns(p, n)
  PROVE  Slips(p, n)
<1>1. inbox \in [Role -> Seq(Wire)]
  BY DEF NegotiationInv, Plain
<1>2. Becomes(p, n, inbox[p], <<>>)
  BY DEF Turns
<1>3. inbox[Other(p)] \o <<>> = inbox[Other(p)]
  BY <1>1, Sides, ConcatEmptySeq
<1>4. /\ eng' = [q \in Role |-> IF q = p THEN n ELSE eng[q]]
      /\ inbox' = [q \in Role |-> inbox'[q]] /\ shared' \in BOOLEAN
      /\ inbox'[p] \in {inbox[p], <<>>} /\ inbox'[Other(p)] = inbox[Other(p)]
  BY <1>2, <1>3, BecomesShape
<1>5. \A q \in Role : inbox'[q] \in Seq(Wire) /\ Loses(inbox[q], inbox'[q])
  <2>1. <<>> \in Seq(Wire)
    BY EmptySeq
  <2>2. inbox'[p] \in Seq(Wire) /\ Loses(inbox[p], inbox'[p])
    BY <1>1, <1>4, <2>1, LosesNothing, LosesAll
  <2>3. inbox'[Other(p)] \in Seq(Wire) /\ Loses(inbox[Other(p)], inbox'[Other(p)])
    BY <1>1, <1>4, Sides, LosesNothing
  <2> QED BY <2>2, <2>3, Sides
<1> QED BY <1>4, <1>5 DEF Slips

\* A step of one engine of which the other need not know: it keeps its own
\* promises (Good), takes back nothing it said (Keeps), and no manifest or
\* outcome that was reached is lost.
LEMMA QuietStep ==
  ASSUME NegotiationInv, NEW p \in Role, NEW n, Slips(p, n),
         \A q \in Role : q # p => ice'[q] = ice[q],
         Good(n, p, ice'[p]), Keeps(eng[p], n),
         (Len(eng["sender"].conns) <= 1 /\ Len(eng["receiver"].conns) <= 1)
           => Reached(eng'["sender"], eng'["receiver"])
  PROVE  Parts'
<1>1. \A q \in Role : Good(eng[q], q, ice[q]) /\ Typed(eng[q]) /\ Typed(eng'[q]) /\ Keeps(eng[q], eng'[q])
  BY DEF NegotiationInv, EnginesGood, Good, Keeps, Slips
<1>2. \A q \in Role : Good(eng'[q], q, ice'[q])
  BY <1>1 DEF Slips
<1>3. EnginesGood'
  BY <1>2, PartsThen
<1>4. "sender" \in Role /\ "receiver" \in Role
  BY DEF Role
<1>5. Pair(eng'["sender"], eng'["receiver"], inbox'["sender"], inbox'["receiver"])
  BY <1>1, <1>4, QuietPair DEF NegotiationInv, PairGood, Slips
<1> QED BY <1>3, <1>5, PartsThen DEF Parts, Slips

\* The same, seen by Rendezvous: whatever the engine becomes, it is no worse
\* than it was, and where it is in Rendezvous changes as allowed there.
LEMMA EngineStep ==
  ASSUME NegotiationInv, NEW p \in Role, NEW n, Slips(p, n),
         \A q \in Role : q # p => ice'[q] = ice[q],
         Good(n, p, ice'[p]), Keeps(eng[p], n),
         \/ Len(eng["sender"].conns) > 1
         \/ Moves(eng[p], n)
         \/ SideOf(eng[p]) = "out" /\ SideOf(n) = "looking"
         \/ /\ SideOf(eng[p]) = "looking" /\ SideOf(n) = "linked"
            /\ Len(eng["sender"].conns) <= 1 => FormedBy(eng["sender"]),
         (Len(eng["sender"].conns) <= 1 /\ Len(eng["receiver"].conns) <= 1)
           => Reached(eng'["sender"], eng'["receiver"])
  PROVE  Parts' /\ Seen
<1>1. eng' = [q \in Role |-> IF q = p THEN n ELSE eng[q]]
  BY DEF Slips
<1>2. Parts'
  BY QuietStep
<1>3. Typed(eng[p]) /\ Typed(n)
  BY DEF NegotiationInv, EnginesGood, Good
<1>4. /\ Len(eng'["sender"].conns) = Len(eng["sender"].conns)
      /\ FormedBy(eng'["sender"]) <=> FormedBy(eng["sender"])
  BY <1>1, <1>3, FormedKept DEF Keeps, Role
<1>5. Seen
  BY <1>1, <1>4, MovesSeen DEF Moves
<1> QED BY <1>2, <1>5

\* Of a step that links nobody and reads no manifest.
LEMMA QuietSlip ==
  ASSUME NegotiationInv, NEW p \in Role, NEW n, Slips(p, n),
         \A q \in Role : q # p => ice'[q] = ice[q], manifest' = manifest,
         Good(n, p, ice'[p]), Keeps(eng[p], n),
         Moves(eng[p], n) \/ (SideOf(eng[p]) = "out" /\ SideOf(n) = "looking"),
         n.linked => eng[p].linked,
         Len(eng[p].conns) <= 1 => Firm(eng[p], n, p)
  PROVE  Parts' /\ Seen
<1>1. eng' = [q \in Role |-> IF q = p THEN n ELSE eng[q]]
  BY DEF Slips
<1>2. ASSUME Len(eng["sender"].conns) <= 1, Len(eng["receiver"].conns) <= 1
      PROVE  Reached(eng'["sender"], eng'["receiver"])
  <2>1. Reached(eng["sender"], eng["receiver"])
    BY <1>2 DEF NegotiationInv, PairGood, Pair
  <2>2. p = "sender" => eng'["sender"] = n /\ eng'["receiver"] = eng["receiver"]
    BY <1>1 DEF Role
  <2>3. p = "receiver" => eng'["sender"] = eng["sender"] /\ eng'["receiver"] = n
    BY <1>1 DEF Role
  <2> QED BY <1>2, <2>1, <2>2, <2>3, ReachedKept DEF Role, Firm
<1> QED BY <1>2, EngineStep

LEMMA QuietTurn ==
  ASSUME NegotiationInv, NEW p \in Role, NEW n, Turns(p, n),
         \A q \in Role : q # p => ice'[q] = ice[q], manifest' = manifest,
         Good(n, p, ice'[p]), Keeps(eng[p], n),
         Moves(eng[p], n) \/ (SideOf(eng[p]) = "out" /\ SideOf(n) = "looking"),
         n.linked => eng[p].linked,
         Len(eng[p].conns) <= 1 => Firm(eng[p], n, p)
  PROVE  Parts' /\ Seen
BY TurnsShape, QuietSlip

\* What a method does to an engine without the other's knowledge.
LEMMA QuietlySlips ==
  ASSUME NegotiationInv, NEW p \in Role, NEW n, Slips(p, n),
         \A q \in Role : q # p => ice'[q] = ice[q], manifest' = manifest,
         Quietly(eng[p], n, p, ice'[p])
  PROVE  Parts' /\ Seen
BY QuietSlip DEF Quietly, Steady, Moves, Firm

LEMMA QuietlyTurns ==
  ASSUME NegotiationInv, NEW p \in Role, NEW n, Turns(p, n), UNCHANGED <<ice, manifest>>,
         Quietly(eng[p], n, p, ice[p])
  PROVE  Parts' /\ Seen
BY TurnsShape, QuietlySlips

LEMMA UnlinkedFirm == ASSUME NEW e, NEW n, NEW p, ~e.linked, ~n.linked PROVE Firm(e, n, p)
BY DEF Firm, Past, Kept

\* fail() of an engine that neither side relies on any more, or yet.
LEMMA FailSlips ==
  ASSUME NegotiationInv, NEW p \in Role, NEW s \in Endings, Slips(p, Fail(eng[p], s)),
         UNCHANGED <<ice, manifest>>, eng[p].state # "idle",
         (Len(eng[p].conns) <= 1 /\ eng[p].linked) => Ended(eng[p])
  PROVE  Parts' /\ Seen
<1>1. Good(eng[p], p, ice[p]) /\ Sound(eng[p])
  BY DEF NegotiationInv, SocketsInv, EnginesGood
<1>2. ASSUME Len(eng[p].conns) <= 1 PROVE Firm(eng[p], Fail(eng[p], s), p)
  <2>1. CASE Ended(eng[p])
    <3>1. Fail(eng[p], s) = eng[p]
      BY <1>1, <2>1, FailGood
    <3> QED BY <3>1 DEF Firm
  <2>2. CASE ~Ended(eng[p])
    <3>1. ~eng[p].linked /\ ~Fail(eng[p], s).linked
      BY <1>1, <1>2, <2>2, FailGood
    <3> QED BY <3>1, UnlinkedFirm
  <2> QED BY <2>1, <2>2
<1> QED BY <1>1, <1>2, FailGood, QuietSlip

-----------------------------------------------------------------------------
(* the session is created and joined, and sockets come and go *)

\* n is e with another state, or another channel.
Restates(e, n) ==
  /\ n \in Engine
  /\ n.cur = e.cur /\ n.cand = e.cand /\ n.early = e.early /\ n.conns = e.conns
  /\ n.heard = e.heard /\ n.linked = e.linked
  /\ n.cancelled = e.cancelled /\ n.unreachable = e.unreachable

LEMMA RestatesGood ==
  ASSUME NEW e, NEW n, NEW p, NEW i, Good(e, p, i), Restates(e, n), Begun(n), LetGo(n),
         n.has => e.has \/ e.conns = <<>>, e.has => n.has
  PROVE  Good(n, p, i) /\ Keeps(e, n)
<1>1. Typed(n)
  BY DEF Good, Typed, Restates
<1>2. Referring(n)
  <2>1. CASE e.conns = <<>>
    <3>1. Len(e.conns) = 0
      BY <2>1, ConnsAre DEF Good
    <3>2. n.cur = 0 /\ n.cand = 0
      BY <3>1 DEF Good, Typed, Restates
    <3> QED BY <2>1, <3>2 DEF Referring, Restates
  <2>2. CASE n.has => e.has
    BY <2>2 DEF Good, Referring, Restates
  <2> QED BY <2>1, <2>2
<1>3. Fetched(n, i) /\ Advanced(n, p) /\ Keeping(n)
  BY DEF Good, Fetched, Advanced, Keeping, Restates
<1>4. Keeps(e, n)
  BY DEF Keeps, Restates
<1> QED BY <1>1, <1>2, <1>3, <1>4 DEF Good

\* An engine without a connection is not linked.
LEMMA Unlinked ==
  ASSUME NEW e, NEW p, NEW i, Good(e, p, i),
         e.conns = <<>> \/ e.state \in {"idle", "creating"}
  PROVE  e.conns = <<>> /\ ~e.linked /\ ~Past(e)
<1>1. e.conns = <<>>
  BY DEF Good, Begun, NewEngine
<1> QED BY <1>1 DEF Good, Advanced, Past

LEMMA FreshChannels == NoChannel \in Channel /\ Connecting \in Channel /\ Connecting # NoChannel
BY AttemptsAssumption DEF NoChannel, Connecting, Channel, Socket

LEMMA EngineOf ==
  ASSUME NegotiationInv, NEW p \in Role
  PROVE  Good(eng[p], p, ice[p]) /\ Sound(eng[p]) /\ eng[p] \in Engine
BY DEF NegotiationInv, SocketsInv, EnginesGood, Good, Typed

LEMMA BeginStep ==
  ASSUME NegotiationInv, Begin
  PROVE  Parts' /\ Seen
<1> DEFINE e == eng["sender"]
           n == [e EXCEPT !.state = "creating"]
<1>1. Good(e, "sender", ice["sender"]) /\ e \in Engine /\ "sender" \in Role
  BY EngineOf DEF Role
<1>2. e = NewEngine /\ Turns("sender", n) /\ UNCHANGED <<ice, manifest>>
  BY <1>1 DEF Begin, Good, Begun
<1>3. /\ Restates(e, n) /\ n.state = "creating" /\ n.chan = e.chan /\ n.has = e.has
      /\ e.chan = NoChannel /\ ~e.has /\ e.conns = <<>> /\ ~e.linked /\ ~e.cancelled
  <2>1. Restates(e, n) /\ n.state = "creating" /\ n.chan = e.chan /\ n.has = e.has
    BY <1>1 DEF Restates, Engine, State
  <2> QED BY <1>2, <2>1 DEF NewEngine
<1>4. SideOf(e) = "out" /\ ~e.has
  BY <1>2 DEF SideOf, Ended, Stopped, NewEngine
<1> HIDE DEF e, n
<1>5. Begun(n) /\ LetGo(n) /\ SideOf(n) = "looking"
  BY <1>3 DEF Restates, Begun, LetGo, SideOf, Ended, Stopped, NoChannel
<1>6. ~n.linked /\ Firm(e, n, "sender")
  BY <1>3, UnlinkedFirm DEF Restates
<1>7. Good(n, "sender", ice["sender"]) /\ Keeps(e, n)
  BY <1>1, <1>3, <1>5, RestatesGood
<1> QED BY <1>1, <1>2, <1>4, <1>5, <1>6, <1>7, QuietTurn DEF e

LEMMA SessionCreatedStep ==
  ASSUME NegotiationInv, SessionCreated
  PROVE  Parts' /\ Seen
<1> DEFINE e == eng["sender"]
           n == [e EXCEPT !.has = TRUE, !.chan = Connecting]
<1>1. Good(e, "sender", ice["sender"]) /\ e \in Engine /\ "sender" \in Role
  BY EngineOf DEF Role
<1>2. /\ Turns("sender", n) /\ UNCHANGED <<ice, manifest>>
      /\ e.state = "creating" /\ e.chan = NoChannel
  BY DEF SessionCreated, Creating
<1>3. ~e.has /\ e.conns = <<>> /\ ~e.linked
  BY <1>1, <1>2, FreshChannels, Unlinked DEF Good, Begun
<1>4. Restates(e, n) /\ n.state = "creating" /\ n.chan = Connecting /\ n.has
  BY <1>1, <1>2, FreshChannels DEF Restates, Engine
<1> HIDE DEF e, n
<1>5. n.conns = <<>> /\ ~n.linked
  BY <1>3, <1>4 DEF Restates
<1>6. Begun(n) /\ LetGo(n)
  BY <1>4, <1>5 DEF Begun, LetGo, Ended, Connecting
<1>7. SideOf(e) = "looking" /\ SideOf(n) = "looking"
  BY <1>2, <1>3, <1>4, <1>5 DEF SideOf, Ended, Stopped
<1> QED BY <1>1, <1>2, <1>3, <1>4, <1>5, <1>6, <1>7, RestatesGood, UnlinkedFirm, QuietTurn DEF e, Moves

LEMMA CreateFailsStep ==
  ASSUME NegotiationInv, CreateFails
  PROVE  Parts' /\ Seen
<1>1. "sender" \in Role /\ "failed" \in Endings
  BY DEF Role, Endings
<1>2. ~eng["sender"].linked
  BY <1>1, EngineOf, Unlinked DEF CreateFails, Creating
<1> QED BY <1>1, <1>2, TurnsShape, FailSlips DEF CreateFails, Creating

LEMMA OpenStep ==
  ASSUME NegotiationInv, Open
  PROVE  Parts' /\ Seen
<1> DEFINE e == eng["receiver"]
           n == [e EXCEPT !.state = "connecting", !.has = TRUE, !.chan = Connecting]
<1>1. Good(e, "receiver", ice["receiver"]) /\ e \in Engine /\ "receiver" \in Role
  BY EngineOf DEF Role
<1>2. e = NewEngine /\ Turns("receiver", n) /\ UNCHANGED <<ice, manifest>>
  BY <1>1 DEF Open, Good, Begun
<1>3. Restates(e, n) /\ n.state = "connecting" /\ n.chan = Connecting /\ n.has
  BY <1>1, FreshChannels DEF Restates, Engine, State
<1>4. SideOf(e) = "out" /\ ~e.linked /\ e.conns = <<>> /\ ~e.has
  BY <1>2 DEF SideOf, Ended, Stopped, NewEngine
<1> HIDE DEF e, n
<1>5. n.conns = <<>> /\ ~n.linked
  BY <1>3, <1>4 DEF Restates
<1>6. Begun(n) /\ LetGo(n) /\ SideOf(n) = "looking"
  BY <1>3, <1>5 DEF Begun, LetGo, SideOf, Ended, Stopped, Connecting
<1> QED BY <1>1, <1>2, <1>3, <1>4, <1>5, <1>6, RestatesGood, UnlinkedFirm, QuietTurn DEF e

\* A step of its socket leaves an engine where it is in Rendezvous, if it has
\* its channel before and after, or let go of it before.
LEMMA RestatesSide ==
  ASSUME NEW e, NEW n, Restates(e, n), n.state # "idle", e.state # "idle",
         Ended(n) <=> Ended(e),
         e.cancelled => (n.has <=> e.has) /\ (n.chan = NoChannel <=> e.chan = NoChannel)
  PROVE  SideOf(n) = SideOf(e)
BY DEF SideOf, Stopped, Restates

LEMMA DialAcceptedStep ==
  ASSUME NegotiationInv, NEW p \in Role, DialAccepted(p)
  PROVE  Parts' /\ Seen
<1> DEFINE e == eng[p]
           m == [e EXCEPT !.chan = Opened(e.chan)]
           n == IF e.chan.first THEN [m EXCEPT !.state = "waiting"] ELSE m
<1>1. Good(e, p, ice[p]) /\ Sound(e) /\ e \in Engine
  BY EngineOf
<1>2. Turns(p, n) /\ UNCHANGED <<ice, manifest>> /\ e.chan.ws = "dialing"
  BY DEF DialAccepted
<1>3. /\ Opened(e.chan) \in Channel /\ Opened(e.chan).ws = "open"
      /\ Opened(e.chan).closed = e.chan.closed /\ Opened(e.chan).first = e.chan.first
  <2>1. e.chan \in Channel /\ 0 \in 0 .. MaxAttempts
    BY <1>1, AttemptsAssumption DEF Engine
  <2> QED BY <2>1 DEF Channel, Opened, Socket
<1>4. /\ Restates(e, n) /\ n.has = e.has /\ n.chan = Opened(e.chan)
      /\ n.state = IF e.chan.first THEN "waiting" ELSE e.state
  <2>1. \A c \in Channel : Restates(e, [e EXCEPT !.chan = c])
    BY <1>1 DEF Restates, Engine
  <2>2. m \in Engine /\ m.chan = Opened(e.chan) /\ m.has = e.has /\ m.state = e.state /\ Restates(e, m)
    BY <1>1, <1>3, <2>1 DEF Engine
  <2> HIDE DEF m
  <2> DEFINE w == [m EXCEPT !.state = "waiting"]
  <2>3. w \in Engine /\ \A f \in EngineFields \ {"state"} : w[f] = m[f]
    BY <2>2 DEF Engine, State, EngineFields
  <2>4. w.state = "waiting"
    BY <2>2 DEF Engine
  <2> HIDE DEF w
  <2>5. Restates(e, w) /\ w.chan = m.chan /\ w.has = m.has
    BY <2>2, <2>3 DEF Restates, EngineFields
  <2> QED BY <2>2, <2>4, <2>5 DEF w
<1> HIDE DEF e, m, n
<1>5. e.has /\ ~Ended(e) /\ e.state # "idle"
  BY <1>1, <1>2 DEF Good, Sound, Begun, NewEngine, NoChannel
<1>6. e.chan.first => e.conns = <<>>
  BY <1>1, <1>2 DEF Good, Begun
<1>7. n.state # "creating" /\ n.state # "idle" /\ ~Ended(n)
  BY <1>1, <1>4, <1>5 DEF Good, Begun, Connecting, Ended
<1>8. Begun(n) /\ LetGo(n)
  BY <1>3, <1>4, <1>5, <1>7 DEF Begun, LetGo
<1>9. Good(n, p, ice[p]) /\ Keeps(e, n)
  BY <1>1, <1>4, <1>5, <1>8, RestatesGood
<1>10. Moves(e, n)
  <2>1. n.chan # NoChannel /\ e.chan # NoChannel
    BY <1>2, <1>3, <1>4 DEF NoChannel
  <2> QED BY <1>4, <1>5, <1>7, <2>1, RestatesSide DEF Moves
<1>11. Firm(e, n, p)
  BY <1>1, <1>4, <1>5, <1>6, <1>7, Unlinked DEF Firm, Past, Kept, Restates, FailedFor, Ended
<1> QED BY <1>2, <1>4, <1>9, <1>10, <1>11, QuietTurn DEF e, Restates

LEMMA TimerFiresStep ==
  ASSUME NegotiationInv, NEW p \in Role, TimerFires(p)
  PROVE  Parts' /\ Seen
<1> DEFINE e == eng[p]
           n == [e EXCEPT !.chan = Redialing(e.chan)]
<1>1. Good(e, p, ice[p]) /\ Sound(e) /\ e \in Engine
  BY EngineOf
<1>2. Turns(p, n) /\ UNCHANGED <<ice, manifest>> /\ e.chan.timer
  BY DEF TimerFires
<1>3. /\ Redialing(e.chan) \in Channel /\ Redialing(e.chan).ws = "dialing"
      /\ Redialing(e.chan).closed = e.chan.closed /\ ~Redialing(e.chan).first
  BY <1>1, AttemptsAssumption DEF Engine, Channel, Redialing, Socket
<1>4. Restates(e, n) /\ n.has = e.has /\ n.chan = Redialing(e.chan) /\ n.state = e.state
  BY <1>1, <1>3 DEF Restates, Engine
<1> HIDE DEF e, n
<1>5. e.has /\ ~Ended(e) /\ e.state # "idle" /\ e.state # "creating"
  BY <1>1, <1>2 DEF Good, Sound, Begun, NewEngine, NoChannel, Connecting
<1>6. Begun(n) /\ LetGo(n) /\ ~Ended(n)
  BY <1>3, <1>4, <1>5 DEF Begun, LetGo, Ended
<1>7. Good(n, p, ice[p]) /\ Keeps(e, n)
  BY <1>1, <1>4, <1>5, <1>6, RestatesGood
<1>8. Moves(e, n)
  <2>1. n.chan # NoChannel /\ e.chan # NoChannel
    BY <1>2, <1>3, <1>4 DEF NoChannel
  <2> QED BY <1>4, <1>5, <1>6, <2>1, RestatesSide DEF Moves
<1>9. Firm(e, n, p)
  BY <1>4 DEF Firm, Past, Kept, Restates, FailedFor, Ended
<1> QED BY <1>2, <1>4, <1>7, <1>8, <1>9, QuietTurn DEF e, Restates

LEMMA DroppedTyped ==
  ASSUME NEW c \in Channel
  PROVE  /\ Dropped(c) \in Channel /\ Dropped(c).ws = "none" /\ Dropped(c).first = c.first
         /\ c.closed => Dropped(c).closed
<1>1. CASE c.closed
  BY <1>1 DEF Dropped, Channel, Socket
<1>2. CASE ~c.closed /\ ~c.reconnect
  BY <1>2 DEF Dropped, Channel, Socket
<1>3. CASE ~c.closed /\ c.reconnect
  <2>1. Dropped(c) = ScheduleRetry([c EXCEPT !.ws = "none"])
    BY <1>3 DEF Dropped
  <2>2. c.attempt < MaxAttempts => c.attempt + 1 \in 0 .. MaxAttempts
    BY AttemptsAssumption DEF Channel
  <2>3. c.attempt >= MaxAttempts \/ c.attempt < MaxAttempts
    BY AttemptsAssumption DEF Channel
  <2> QED BY <1>3, <2>1, <2>2, <2>3 DEF ScheduleRetry, Channel, Socket
<1> QED BY <1>1, <1>2, <1>3

\* onclose of a socket: the engine is as it was, or has failed because it still
\* needed the relay.
LEMMA RechannelGood ==
  ASSUME NEW e, NEW p \in Role, NEW i, Good(e, p, i), Sound(e),
         e.chan.ws # "none", e.chan.ws = "dialing" => ~e.chan.first
  PROVE  LET n == Rechannel(e, p, Dropped(e.chan)) IN
         /\ Good(n, p, i) /\ Keeps(e, n) /\ Moves(e, n) /\ n.linked = e.linked
         /\ Firm(e, n, p)
<1> DEFINE t == Dropped(e.chan)
           n == [e EXCEPT !.chan = t]
<1>1. e \in Engine /\ e.chan \in Channel
  BY DEF Good, Typed, Engine
<1>2. t \in Channel /\ t.ws = "none" /\ (e.chan.closed => t.closed)
  BY <1>1, DroppedTyped
<1>3. Sound(n)
  BY DropSound
<1>4. Restates(e, n) /\ n.chan = t /\ n.has = e.has /\ n.state = e.state
  <2> HIDE DEF t
  <2> QED BY <1>1, <1>2 DEF Restates, Engine
<1>5. Rechannel(e, p, t) = IF TellsOwner(e.chan, t) THEN ContactLost(n, p) ELSE n
  BY DEF Rechannel
<1> HIDE DEF t, n
<1>6. e.state # "idle" /\ (e.state = "creating" => ~e.has /\ e.cancelled) /\ e.chan # NoChannel
  BY DEF Good, Begun, NewEngine, NoChannel, Connecting
<1>7. Begun(n) /\ LetGo(n)
  <2>1. ~n.has => n.chan.closed
    BY <1>2, <1>4, <1>6 DEF Good, Begun
  <2>2. LetGo(n)
    BY <1>4 DEF Good, LetGo, Restates, Ended
  <2> QED BY <1>2, <1>4, <1>6, <2>1, <2>2 DEF Good, Begun, Restates, Ended
<1>8. Good(n, p, i) /\ Keeps(e, n)
  BY <1>4, <1>7, RestatesGood
<1>9. SideOf(n) = SideOf(e)
  <2>1. ~e.has => n.chan # NoChannel
    BY <1>2, <1>4, <1>6 DEF Good, Begun, NoChannel
  <2> QED BY <1>4, <1>6, <2>1 DEF SideOf, Stopped, Restates, Ended
<1>10. n.linked = e.linked /\ (Past(e) => Past(n)) /\ Firm(e, n, p)
  BY <1>4 DEF Firm, Past, Kept, Restates, FailedFor, Ended
<1>11. CASE ContactLost(n, p) = n \/ ~TellsOwner(e.chan, t)
  BY <1>5, <1>8, <1>9, <1>10, <1>11 DEF t, Moves
<1>12. CASE ContactLost(n, p) # n
  <2> DEFINE f == IF p = "sender" THEN "failed" ELSE "expired"
             m == Fail(n, f)
  <2>1. ContactLost(n, p) = m /\ n.state \in {"waiting", "connecting"} /\ f \in Endings
    BY <1>12 DEF ContactLost, Endings
  <2>2. n.state # "idle"
    BY <2>1
  <2>3. Good(m, p, i) /\ Moves(n, m) /\ Keeps(n, m) /\ m.linked = n.linked
        /\ m.state = f
    BY <1>3, <1>8, <2>1, <2>2, FailGood DEF Ended
  <2>4. ~Past(n) /\ (p # "sender" => Kept(m))
    BY <2>1, <2>3 DEF Past, Kept, FailedFor
  <2>5. Keeps(e, m)
    BY <1>4, <2>3 DEF Keeps, Restates
  <2>6. Moves(e, m)
    BY <1>9, <2>3 DEF Moves
  <2>7. Firm(e, m, p)
    BY <1>10, <2>4 DEF Firm
  <2> HIDE DEF m
  <2> QED BY <1>5, <1>8, <1>9, <1>10, <2>1, <2>3, <2>5, <2>6, <2>7 DEF t, Moves
<1> QED BY <1>11, <1>12

\* The first socket is refused: nothing but the session was there.
LEMMA FirstRefusedGood ==
  ASSUME NEW e, NEW p, NEW i, Good(e, p, i), Sound(e), NEW s \in Endings,
         e.chan.ws = "dialing", e.chan.first
  PROVE  LET n == Fail([e EXCEPT !.chan.ws = "none"], s) IN
         Good(n, p, i) /\ Keeps(e, n) /\ Moves(e, n) /\ n.linked = e.linked /\ Firm(e, n, p)
<1> DEFINE m == [e EXCEPT !.chan.ws = "none"]
           x == [m EXCEPT !.state = s]
           n == Cleanup(x)
<1>1. e \in Engine /\ e.chan \in Channel
  BY DEF Good, Typed, Engine
<1>2. e.conns = <<>> /\ e.has /\ ~Ended(e) /\ ~e.linked /\ e.state # "idle"
  BY Unlinked DEF Good, Begun, Sound, NewEngine, NoChannel
<1>3. m \in Engine /\ m.chan.ws = "none" /\ \A f \in EngineFields \ {"chan"} : m[f] = e[f]
  <2> DEFINE c == [e.chan EXCEPT !.ws = "none"]
  <2>1. m = [e EXCEPT !.chan = c] /\ c \in Channel /\ c.ws = "none"
    BY <1>1 DEF Channel, Socket
  <2> HIDE DEF m, c
  <2> QED BY <1>1, <2>1 DEF Engine, EngineFields
<1> HIDE DEF m
<1>4. x \in Engine /\ x.state = s /\ \A f \in EngineFields \ {"state"} : x[f] = m[f]
  BY <1>3 DEF Engine, EngineFields, State, Endings
<1> HIDE DEF x
<1>5. /\ x.conns = <<>> /\ x.cur = e.cur /\ x.cand = e.cand /\ x.early = e.early /\ x.heard = e.heard
      /\ ~x.linked /\ x.has /\ x.chan.ws = "none" /\ x.chan \in Channel /\ m.state = e.state
      /\ x.linked = e.linked
  BY <1>2, <1>3, <1>4 DEF EngineFields, Engine
<1>6. Typed(x) /\ Len(e.conns) = 0 /\ e.cand = 0
  <2>1. Typed(x)
    BY <1>2, <1>4, <1>5 DEF Good, Typed
  <2>2. Len(e.conns) = 0
    BY <1>2, ConnsAre DEF Good
  <2> QED BY <2>1, <2>2 DEF Good, Typed
<1>7. Fail(m, s) = n
  BY <1>2, <1>5 DEF Fail, Ended, x
<1>8. /\ Typed(n) /\ n.state = s /\ n.linked = e.linked /\ n.cand = 0 /\ n.early = e.early
      /\ n.heard = e.heard /\ ~n.has /\ n.cur = 0 /\ n.chan = Shut(x.chan) /\ Len(n.conns) = 0
  BY <1>2, <1>4, <1>5, <1>6, CleanupFacts
<1> HIDE DEF n
<1>9. n.conns = <<>>
  BY <1>8, ConnsAre
<1>10. n.chan.closed /\ n.chan.ws = "none"
  BY <1>5, <1>8 DEF Shut, Channel
<1>11. Ended(n) /\ n.state \notin {"idle", "creating"}
  BY <1>8 DEF Ended, Endings
<1>12. Good(n, p, i)
  BY <1>2, <1>6, <1>8, <1>9, <1>10, <1>11
     DEF Good, Fetched, Begun, Referring, Advanced, LetGo, Keeping
<1>13. Keeps(e, n) /\ Moves(e, n)
  BY <1>2, <1>6, <1>8, <1>11 DEF Keeps, Moves, SideOf, Stopped
<1> QED BY <1>2, <1>7, <1>8, <1>12, <1>13, UnlinkedFirm DEF m

\* A first socket given up while dialing reports its error to an engine that
\* is over, or cancelled.
LEMMA FirstAbortedGood ==
  ASSUME NEW e, NEW p, NEW i, Good(e, p, i), Sound(e), NEW s \in Endings,
         e.chan.ws = "aborting"
  PROVE  LET n == Fail([e EXCEPT !.chan.ws = "none"], s) IN
         /\ Good(n, p, i) /\ Keeps(e, n) /\ Moves(e, n) /\ n.linked = e.linked
         /\ Len(e.conns) <= 1 => Firm(e, n, p)
<1> DEFINE m == [e EXCEPT !.chan.ws = "none"]
           n == Fail(m, s)
<1>1. e \in Engine /\ e.chan \in Channel
  BY DEF Good, Typed, Engine
<1>2. Sound(m)
  BY UnsocketedSound
<1>3. /\ Restates(e, m) /\ m.chan.ws = "none" /\ m.chan.closed = e.chan.closed
      /\ m.has = e.has /\ m.state = e.state
  <2> DEFINE c == [e.chan EXCEPT !.ws = "none"]
  <2>1. m = [e EXCEPT !.chan = c] /\ c \in Channel /\ c.ws = "none" /\ c.closed = e.chan.closed
    BY <1>1 DEF Channel, Socket
  <2> HIDE DEF m, c
  <2> QED BY <1>1, <2>1 DEF Engine, Restates
<1> HIDE DEF m
<1>4. e.chan.closed /\ ~e.has /\ e.state # "idle" /\ (e.state = "creating" => e.cancelled)
  BY DEF Good, Begun, Sound, NewEngine, NoChannel
<1>5. Begun(m) /\ LetGo(m)
  <2>1. LetGo(m)
    BY <1>3 DEF Good, LetGo, Restates, Ended
  <2> QED BY <1>3, <1>4, <2>1 DEF Good, Begun, Restates, Ended
<1>6. Good(m, p, i) /\ Keeps(e, m)
  BY <1>3, <1>5, RestatesGood
<1>7. SideOf(m) = SideOf(e)
  <2>1. m.chan # NoChannel /\ e.chan # NoChannel
    <3>1. m.chan.closed /\ e.chan.closed
      BY <1>3, <1>4
    <3>2. ~NoChannel.closed
      BY DEF NoChannel
    <3> QED BY <3>1, <3>2
  <2> QED BY <1>3, <1>4, <2>1 DEF SideOf, Stopped, Restates, Ended
<1>8. m.linked = e.linked /\ (Past(e) => Past(m)) /\ Firm(e, m, p) /\ m.conns = e.conns
  BY <1>3 DEF Firm, Past, Kept, Restates, FailedFor, Ended
<1>9. /\ Good(n, p, i) /\ Moves(m, n) /\ Keeps(m, n) /\ n.linked = m.linked
      /\ Ended(n) /\ n.cancelled = m.cancelled /\ (Ended(m) => n = m)
  BY <1>2, <1>3, <1>4, <1>6, FailGood
<1> HIDE DEF n
<1>10. Keeps(e, n)
  BY <1>3, <1>8, <1>9 DEF Keeps
<1>11. ASSUME Len(e.conns) <= 1, e.linked PROVE Firm(e, n, p)
  <2>1. CASE Ended(m)
    BY <1>8, <1>9, <1>11, <2>1
  <2>2. CASE ~Ended(m)
    <3>1. e.state \notin {"idle", "creating"}
      BY <1>11, Unlinked
    <3>2. n.cancelled
      BY <1>3, <1>4, <1>9, <1>11, <2>2, <3>1 DEF Good, LetGo, Restates, Ended
    <3>3. Kept(n) /\ (Past(e) => Past(n))
      BY <1>3, <1>8, <1>9, <2>2, <3>1, <3>2 DEF Past, Kept, FailedFor, Ended, Endings
    <3> QED BY <3>3 DEF Firm
  <2> QED BY <2>1, <2>2
<1>12. Len(e.conns) <= 1 => Firm(e, n, p)
  BY <1>8, <1>9, <1>11, UnlinkedFirm
<1> QED BY <1>7, <1>8, <1>9, <1>10, <1>12 DEF Moves, n, m

LEMMA RefusedStep ==
  ASSUME NegotiationInv, NEW p \in Role, DialRefused(p) \/ DialAborted(p)
  PROVE  Parts' /\ Seen
<1> DEFINE e == eng[p]
           n == Refused(p)
<1>1. Good(e, p, ice[p]) /\ Sound(e)
  BY EngineOf
<1>2. Turns(p, n) /\ UNCHANGED <<ice, manifest>> /\ e.chan.ws \in {"dialing", "aborting"}
  BY DEF DialRefused, DialAborted
<1>3. /\ Good(n, p, ice[p]) /\ Keeps(e, n) /\ Moves(e, n) /\ n.linked = e.linked
      /\ Len(e.conns) <= 1 => Firm(e, n, p)
  <2> DEFINE s == IF p = "sender" THEN "failed" ELSE "expired"
  <2>1. s \in Endings
    BY DEF Endings
  <2>2. e.chan.first => n = Fail([e EXCEPT !.chan.ws = "none"], s)
    BY DEF Refused
  <2>3. ~e.chan.first => n = Rechannel(e, p, Dropped(e.chan))
    BY DEF Refused
  <2> HIDE DEF e, n, s
  <2>4. CASE e.chan.first /\ e.chan.ws = "dialing"
    BY <1>1, <2>1, <2>2, <2>4, FirstRefusedGood
  <2>5. CASE e.chan.first /\ e.chan.ws = "aborting"
    BY <1>1, <2>1, <2>2, <2>5, FirstAbortedGood
  <2>6. CASE ~e.chan.first
    BY <1>1, <1>2, <2>3, <2>6, RechannelGood
  <2> QED BY <1>2, <2>4, <2>5, <2>6
<1> HIDE DEF n
<1> QED BY <1>2, <1>3, QuietTurn

LEMMA BlipStep ==
  ASSUME NegotiationInv, NEW p \in Role, Blip(p)
  PROVE  Parts' /\ Seen
<1> DEFINE e == eng[p]
           n == Rechannel(e, p, Dropped(e.chan))
<1>1. Good(e, p, ice[p]) /\ Sound(e)
  BY EngineOf
<1>2. Turns(p, n) /\ UNCHANGED <<ice, manifest>> /\ e.chan.ws = "open"
  BY DEF Blip, Online
<1>3. /\ Good(n, p, ice[p]) /\ Keeps(e, n) /\ Moves(e, n) /\ n.linked = e.linked
      /\ Firm(e, n, p)
  <2> HIDE DEF e
  <2> QED BY <1>1, <1>2, RechannelGood
<1> HIDE DEF n
<1> QED BY <1>2, <1>3, QuietTurn

-----------------------------------------------------------------------------
(* fetches, promises and the user *)

LEMMA IceSettlesStep ==
  ASSUME NegotiationInv, NEW p \in Role, IceSettles(p)
  PROVE  Parts' /\ Seen
<1> DEFINE e == eng[p]
<1>1. Good(e, p, ice[p])
  BY EngineOf
<1>2. /\ \E j \in Final : ice' = [ice EXCEPT ![p] = j]
      /\ ice[p] = "pending" /\ Turns(p, Configured(e, p, ice'[p])) /\ UNCHANGED manifest
  BY DEF IceSettles, Final
<1>3. ice'[p] \in Final /\ \A q \in Role : q # p => ice'[q] = ice[q]
  BY <1>2 DEF NegotiationInv, Plain
<1>4. Near(e, p) /\ \A k \in DOMAIN e.conns : e.conns[k].phase = "config"
  BY <1>1, <1>2 DEF Good, Fetched, Near, Final
<1>5. Quietly(e, Configured(e, p, ice'[p]), p, ice'[p])
  <2> HIDE DEF e
  <2> QED BY <1>3, <1>4, ConfiguredGood
<1> QED BY <1>2, <1>3, <1>5, QuietTurn DEF Quietly, Steady, Moves, Firm

LEMMA CancelStep ==
  ASSUME NegotiationInv, NEW p \in Role, Cancel(p)
  PROVE  Parts' /\ Seen
<1> DEFINE e == eng[p]
           n == [Cleanup(e) EXCEPT !.cancelled = TRUE]
<1>1. Good(e, p, ice[p]) /\ Sound(e) /\ Typed(e)
  BY EngineOf DEF Good
<1>2. Turns(p, n) /\ UNCHANGED <<ice, manifest>> /\ e.state # "idle"
  BY DEF Cancel
<1>3. Cleaned(e, n) /\ n.cancelled /\ n.state = e.state
  <2> HIDE DEF e
  <2> QED BY <1>1, CleanupCleans
<1> HIDE DEF n
<1>4. Good(n, p, ice[p]) /\ Moves(e, n) /\ Keeps(e, n) /\ n.linked = e.linked
  BY <1>1, <1>2, <1>3, CleanedGood
<1>5. Firm(e, n, p)
  BY <1>3, <1>4 DEF Firm, Past, Kept, FailedFor
<1> QED BY <1>2, <1>4, <1>5, QuietTurn

\* The path between the two is lost: connectionState "failed".
LEMMA UnreachableStep ==
  ASSUME NegotiationInv, NEW p \in Role, NEW k \in DOMAIN eng[p].conns, Unreachable(p, k)
  PROVE  Parts' /\ Seen
<1> DEFINE e == eng[p]
           m == Fail(e, "failed")
           n == [m EXCEPT !.unreachable = m.unreachable \/ ~Ended(e)]
<1>1. Good(e, p, ice[p]) /\ Sound(e) /\ e.state # "idle" /\ "failed" \in Endings
  BY EngineOf DEF Good, Begun, NewEngine, Endings
<1>2. Turns(p, n) /\ UNCHANGED <<ice, manifest>>
  BY DEF Unreachable
<1>3. /\ Good(m, p, ice[p]) /\ Moves(e, m) /\ Keeps(e, m)
      /\ m.linked = e.linked /\ Ended(m) /\ (Ended(e) => m = e)
      /\ m.cancelled = e.cancelled
  BY <1>1, FailGood
<1> HIDE DEF m
<1>4. /\ n \in Engine
      /\ n.unreachable <=> (m.unreachable \/ ~Ended(e))
      /\ \A f \in EngineFields \ {"unreachable"} : n[f] = m[f]
  BY <1>3 DEF Good, Typed, Engine, EngineFields
<1> HIDE DEF n
<1>5. /\ n.state = m.state /\ n.chan = m.chan /\ n.has = m.has /\ n.linked = m.linked
      /\ n.cur = m.cur /\ n.cand = m.cand /\ n.early = m.early /\ n.conns = m.conns
      /\ n.cancelled = m.cancelled /\ n.heard = m.heard
  BY <1>4 DEF EngineFields
<1>6. Good(n, p, ice[p])
  <2>1. Typed(n)
    BY <1>3, <1>4, <1>5 DEF Good, Typed
  <2>2. Begun(n)
    BY <1>3, <1>5 DEF Good, Begun, Ended
  <2>3. Fetched(n, ice[p]) /\ Referring(n) /\ Advanced(n, p)
    BY <1>3, <1>5 DEF Good, Fetched, Referring, Advanced
  <2>4. LetGo(n) /\ Keeping(n)
    BY <1>3, <1>5 DEF Good, LetGo, Keeping, Ended
  <2> QED BY <2>1, <2>2, <2>3, <2>4 DEF Good
<1>7. Keeps(e, n)
  BY <1>3, <1>5 DEF Keeps
<1>8. Moves(e, n)
  BY <1>3, <1>5 DEF Moves, SideOf, Ended, Stopped
<1>9. Firm(e, n, p)
  <2>1. CASE Ended(e)
    BY <1>3, <1>4, <1>5, <2>1 DEF Firm, Past, Kept, FailedFor, Ended
  <2>2. CASE ~Ended(e)
    BY <1>3, <1>4, <1>5, <2>2 DEF Firm, Past, Kept, FailedFor, Ended
  <2> QED BY <2>1, <2>2
<1> QED BY <1>2, <1>3, <1>5, <1>6, <1>7, <1>8, <1>9, QuietTurn

\* One connection of an engine goes on, and the other side need not know.
LEMMA TurnGood ==
  ASSUME NEW e, NEW k, NEW p, NEW i, Good(e, p, i), k \in DOMAIN e.conns, NEW d \in Conn,
         Onward(e, e.conns[k], d, p), Discreet(e.conns[k], d),
         d.buffered = e.conns[k].buffered, d.added = e.conns[k].added
  PROVE  /\ Quietly(e, Turn(e, k, d), p, i) /\ Touched(e, Turn(e, k, d), k)
         /\ Turn(e, k, d).conns[k] = d
<1> DEFINE n == Turn(e, k, d)
<1>1. Touched(e, n, k) /\ n.conns[k] = d /\ n.heard = e.heard
  BY Touches DEF Good
<1> HIDE DEF n
<1>2. n.cand = 0 => n.heard \subseteq n.early
  BY <1>1 DEF Touched, Good, Keeping
<1>3. (n.cand # 0 /\ Len(e.conns) <= 1) =>
        n.heard \subseteq n.early \cup n.conns[k].buffered \cup n.conns[k].added
  BY <1>1 DEF Touched, Good, Keeping
<1>4. Good(n, p, i)
  BY <1>1, <1>2, <1>3, TouchedGood
<1> QED BY <1>1, <1>4, TouchedSteady, TouchedKeeps DEF Quietly, n

\* Two quiet methods in a row.
LEMMA QuietlyTwice ==
  ASSUME NEW e, NEW m, NEW n, NEW p, NEW i, Typed(e), Quietly(e, m, p, i), Quietly(m, n, p, i)
  PROVE  Quietly(e, n, p, i)
<1>1. DOMAIN m.conns = DOMAIN e.conns
  BY ConnsAre DEF Quietly, Good, Keeps
<1>2. Keeps(e, n)
  BY <1>1 DEF Quietly, Keeps
<1> QED BY <1>2 DEF Quietly, Steady

\* setRemoteDescription returned for connection k, which became d.
LEMMA AppliedGood ==
  ASSUME NEW e, NEW k, NEW p, NEW i, Good(e, p, i), k \in DOMAIN e.conns, NEW d \in Conn,
         Onward(e, e.conns[k], d, p), Discreet(e.conns[k], d), d.remote # 0,
         d.buffered = e.conns[k].buffered, d.added = e.conns[k].added
  PROVE  Quietly(e, RemoteReady(Turn(e, k, d)), p, i)
<1> DEFINE m == Turn(e, k, d)
<1>1. Quietly(e, m, p, i) /\ Touched(e, m, k) /\ m.conns[k] = d
  BY TurnGood
<1> HIDE DEF m
<1>2. Good(m, p, i) /\ Typed(m) /\ Typed(e)
  BY <1>1 DEF Quietly, Good
<1>3. (m.cand # 0 /\ Len(m.conns) <= 1) => m.conns[m.cand].remote # 0
  <2> SUFFICES ASSUME m.cand # 0, Len(m.conns) <= 1 PROVE m.conns[m.cand].remote # 0
    OBVIOUS
  <2>1. Len(m.conns) = 1 /\ k = 1
    BY <1>1, <1>2, ConnsAre DEF Touched
  <2>2. m.cand = 1
    BY <1>2, <2>1 DEF Typed
  <2> QED BY <1>1, <2>1, <2>2
<1>4. Quietly(m, RemoteReady(m), p, i)
  BY <1>2, <1>3, RemoteReadyGood
<1> QED BY <1>1, <1>2, <1>4, QuietlyTwice DEF m

LEMMA AnswerAppliedStep ==
  ASSUME NegotiationInv, NEW k \in DOMAIN eng["sender"].conns, AnswerApplied(k)
  PROVE  Parts' /\ Seen
<1> DEFINE e == eng["sender"]
           c == e.conns[k]
           d == [c EXCEPT !.remote = c.applying]
           n == RemoteReady(Turn(e, k, d))
<1>1. /\ "sender" \in Role /\ Good(e, "sender", ice["sender"]) /\ c \in Conn
      /\ k \in DOMAIN e.conns
  BY EngineOf, ConnsAre DEF Role, Good
<1>2. Turn(e, k, d) = [e EXCEPT !.conns[k].remote = c.applying]
  BY <1>1 DEF Turn, Good, Typed, Engine
<1>3. Turns("sender", n) /\ UNCHANGED <<ice, manifest>> /\ c.applying # 0
  BY <1>2 DEF AnswerApplied
<1>4. /\ d \in Conn /\ d.phase = c.phase /\ d.config = c.config /\ d.offer = c.offer
      /\ (d.shut <=> c.shut) /\ d.applying = c.applying /\ d.remote = c.applying
      /\ d.buffered = c.buffered /\ d.added = c.added
  BY <1>1 DEF Conn
<1> HIDE DEF d
<1>5. Onward(e, c, d, "sender")
  BY <1>1, <1>3, <1>4 DEF Onward, Good, Advanced, LetGo
<1>6. Discreet(c, d)
  BY <1>4 DEF Discreet
<1>7. Quietly(e, n, "sender", ice["sender"])
  <2> HIDE DEF e
  <2> QED BY <1>1, <1>3, <1>4, <1>5, <1>6, AppliedGood
<1> HIDE DEF n
<1> QED BY <1>1, <1>3, <1>7, QuietlyTurns

\* The method failed the engine when it had made d of the connection.
LEMMA TurnFails ==
  ASSUME NegotiationInv, NEW p \in Role, NEW k \in DOMAIN eng[p].conns, NEW d \in Conn,
         Onward(eng[p], eng[p].conns[k], d, p), Discreet(eng[p].conns[k], d),
         d.buffered = eng[p].conns[k].buffered, d.added = eng[p].conns[k].added,
         eng[p].conns[k].phase # "open",
         Turns(p, Fail(Turn(eng[p], k, d), "failed")), UNCHANGED <<ice, manifest>>
  PROVE  Parts' /\ Seen
<1> DEFINE e == eng[p]
           m == Turn(e, k, d)
           n == Fail(m, "failed")
<1>1. /\ Good(e, p, ice[p]) /\ Sound(e) /\ Typed(e) /\ "failed" \in Endings
      /\ k \in DOMAIN e.conns
  BY EngineOf DEF Good, Endings
<1>2. Quietly(e, m, p, ice[p]) /\ Touched(e, m, k)
  BY <1>1, TurnGood
<1> HIDE DEF m
<1>3. m.state = e.state /\ m.chan = e.chan /\ m.has = e.has
  BY <1>2 DEF Touched
<1>4. Sound(m)
  <2>1. m = [f \in EngineFields |-> m[f]]
    BY <1>2 DEF Quietly, Good, Typed, Engine, EngineFields
  <2> QED BY <1>1, <1>3, <2>1, LeavesSound DEF Leaves
<1>5. e.state # "idle"
  BY <1>1 DEF Good, Begun, NewEngine
<1>6. Good(n, p, ice[p]) /\ Moves(m, n) /\ Keeps(m, n) /\ n.linked = m.linked
  BY <1>1, <1>2, <1>3, <1>4, <1>5, FailGood DEF Quietly
<1>7. Turns(p, n)
  BY DEF m
<1> HIDE DEF n
<1>8. Keeps(e, n)
  <2>1. DOMAIN m.conns = DOMAIN e.conns
    BY <1>2 DEF Touched
  <2> QED BY <1>2, <1>6, <2>1 DEF Keeps, Quietly
<1>9. Moves(e, n) /\ n.linked = e.linked
  BY <1>2, <1>6 DEF Moves, Quietly, Steady
<1>10. Len(e.conns) <= 1 => Firm(e, n, p)
  <2> SUFFICES ASSUME Len(e.conns) <= 1, e.linked PROVE FALSE
    BY <1>9, UnlinkedFirm
  <2>1. \A j \in DOMAIN e.conns : j = k
    BY <1>1, ConnsAre
  <2> QED BY <1>1, <2>1 DEF Good, Advanced
<1> QED BY <1>6, <1>7, <1>8, <1>9, <1>10, QuietTurn

LEMMA OfferAppliedStep ==
  ASSUME NegotiationInv, NEW k \in DOMAIN eng["receiver"].conns, OfferApplied(k)
  PROVE  Parts' /\ Seen
<1> DEFINE e == eng["receiver"]
           c == e.conns[k]
           d == [c EXCEPT !.phase = "local", !.remote = c.offer]
           n == RemoteReady(Turn(e, k, d))
           d2 == [c EXCEPT !.phase = "wait"]
           m == Turn(e, k, d2)
<1>1. /\ "receiver" \in Role /\ Good(e, "receiver", ice["receiver"]) /\ c \in Conn /\ Sound(e)
      /\ "failed" \in Endings /\ k \in DOMAIN e.conns
  BY EngineOf, ConnsAre DEF Role, Good, Endings
<1>2. /\ Turn(e, k, d) = [e EXCEPT !.conns[k].phase = "local", !.conns[k].remote = c.offer]
      /\ m = [e EXCEPT !.conns[k].phase = "wait"]
  BY <1>1 DEF Turn, Good, Typed, Engine
<1>3. /\ Turns("receiver", IF c.shut THEN Fail(m, "failed") ELSE n)
      /\ UNCHANGED <<ice, manifest>> /\ c.phase = "remote"
  BY <1>2 DEF OfferApplied
<1>4. /\ d \in Conn /\ d.phase = "local" /\ d.config = c.config /\ d.offer = c.offer
      /\ (d.shut <=> c.shut) /\ d.applying = c.applying /\ d.remote = c.offer
      /\ d.buffered = c.buffered /\ d.added = c.added
      /\ d2 \in Conn /\ d2.phase = "wait" /\ d2.config = c.config /\ d2.offer = c.offer
      /\ (d2.shut <=> c.shut) /\ d2.applying = c.applying /\ d2.remote = c.remote
      /\ d2.buffered = c.buffered /\ d2.added = c.added /\ d2.ready = c.ready
  BY <1>1 DEF Conn, Phase
<1> HIDE DEF d, d2
<1>5. Onward(e, c, d, "receiver") /\ Onward(e, c, d2, "receiver")
  BY <1>1, <1>3, <1>4 DEF Onward, Good, Advanced, Keeping, Up
<1>6. Discreet(c, d) /\ Discreet(c, d2)
  BY <1>3, <1>4 DEF Discreet, Up, Said
<1>7. CASE ~c.shut
  <2>1. c.offer # 0
    BY <1>1 DEF Good, Advanced
  <2>2. Quietly(e, n, "receiver", ice["receiver"])
    <3> HIDE DEF e
    <3> QED BY <1>1, <1>3, <1>4, <1>5, <1>6, <2>1, AppliedGood
  <2> HIDE DEF n
  <2> QED BY <1>1, <1>3, <1>7, <2>2, QuietlyTurns
<1>8. CASE c.shut
  <2>1. Turns("receiver", Fail(m, "failed"))
    BY <1>3, <1>8
  <2> QED BY <1>1, <1>3, <1>4, <1>5, <1>6, <2>1, TurnFails
<1> QED BY <1>7, <1>8

-----------------------------------------------------------------------------
(* what an engine sends *)

LEMMA SentShape ==
  ASSUME NegotiationInv, NEW p \in Role, NEW n, NEW m \in Wire, Becomes(p, n, inbox[p], <<m>>)
  PROVE  /\ eng' = [q \in Role |-> IF q = p THEN n ELSE eng[q]]
         /\ inbox' \in [Role -> Seq(Wire)]
         /\ inbox'[p] \in {inbox[p], <<>>}
         /\ inbox'[Other(p)] \in {inbox[Other(p)], Append(inbox[Other(p)], m)}
         /\ shared' \in BOOLEAN
<1>1. inbox \in [Role -> Seq(Wire)] /\ <<>> \in Seq(Wire)
  BY EmptySeq DEF NegotiationInv, Plain
<1>2. inbox[Other(p)] \o <<m>> = Append(inbox[Other(p)], m)
  BY <1>1, Sides, AppendIsConcat
<1>3. /\ eng' = [q \in Role |-> IF q = p THEN n ELSE eng[q]]
      /\ inbox' = [q \in Role |-> inbox'[q]] /\ shared' \in BOOLEAN
      /\ inbox'[p] \in {inbox[p], <<>>}
      /\ inbox'[Other(p)] \in {inbox[Other(p)], Append(inbox[Other(p)], m)}
  BY <1>2, BecomesShape
<1>4. inbox'[p] \in Seq(Wire)
  BY <1>1, <1>3
<1>5. inbox'[Other(p)] \in Seq(Wire)
  <2>1. inbox[Other(p)] \in Seq(Wire)
    BY <1>1, Sides
  <2>2. Append(inbox[Other(p)], m) \in Seq(Wire)
    BY <2>1, TakesOne
  <2> QED BY <1>3, <2>1, <2>2
<1>6. \A q \in Role : inbox'[q] \in Seq(Wire)
  BY <1>4, <1>5, Sides
<1> QED BY <1>3, <1>6

LEMMA TrickleStep ==
  ASSUME NegotiationInv, NEW p \in Role, NEW k \in DOMAIN eng[p].conns, Trickle(p, k)
  PROVE  Parts' /\ Seen
<1> DEFINE e == eng[p]
           c == e.conns[k]
           d == [c EXCEPT !.trickled = TRUE]
           n == Turn(e, k, d)
           m == [type |-> "ice", from |-> k]
<1>1. Good(e, p, ice[p]) /\ k \in DOMAIN e.conns /\ c \in Conn /\ k \in Nat \ {0}
  BY EngineOf, ConnsAre DEF Good
<1>2. n = [e EXCEPT !.conns[k].trickled = TRUE]
  BY <1>1 DEF Turn, Good, Typed, Engine
<1>3. Becomes(p, n, inbox[p], <<m>>) /\ UNCHANGED <<ice, manifest>>
  BY <1>2 DEF Trickle
<1>4. /\ d \in Conn /\ d.phase = c.phase /\ d.config = c.config /\ d.offer = c.offer
      /\ (d.shut <=> c.shut) /\ d.applying = c.applying /\ d.remote = c.remote
      /\ d.buffered = c.buffered /\ d.added = c.added /\ d.ready = c.ready
  BY <1>1 DEF Conn
<1> HIDE DEF d
<1>5. Onward(e, c, d, p) /\ Discreet(c, d)
  BY <1>1, <1>4 DEF Onward, Discreet, Good, Advanced, LetGo, Keeping
<1>6. Quietly(e, n, p, ice[p])
  <2> HIDE DEF e
  <2> QED BY <1>1, <1>4, <1>5, TurnGood
<1>7. m \in Wire /\ m.type = "ice"
  BY <1>1 DEF Wire
<1> HIDE DEF n, m
<1>8. Slips(p, n)
  <2>1. inbox[p] \in Seq(Wire) /\ inbox[Other(p)] \in Seq(Wire)
    BY Sides DEF NegotiationInv, Plain
  <2>2. Loses(inbox[p], inbox'[p])
    BY <1>3, <1>7, SentShape, LosesNothing, LosesAll
  <2>3. Loses(inbox[Other(p)], Append(inbox[Other(p)], m))
    BY <1>7, <2>1, TakesOne
  <2>4. Loses(inbox[Other(p)], inbox'[Other(p)])
    BY <1>3, <1>7, <2>3, SentShape, LosesNothing
  <2>5. \A q \in Role : Loses(inbox[q], inbox'[q])
    BY <2>2, <2>4, Sides
  <2> QED BY <1>3, <1>7, <2>5, SentShape DEF Slips
<1> QED BY <1>3, <1>6, <1>8, QuietlySlips

-----------------------------------------------------------------------------
(* the channels open *)

\* e became n, linked by connection k.
Opens(e, n, k) ==
  /\ Typed(n) /\ k \in DOMAIN e.conns /\ n.linked /\ n.has = e.has
  /\ n.cur = e.cur /\ n.cand = e.cand /\ n.early = e.early /\ n.heard = e.heard
  /\ n.cancelled = e.cancelled /\ n.unreachable = e.unreachable
  /\ n.chan = IF e.has THEN RetireReconnect(e.chan) ELSE e.chan
  /\ Len(n.conns) = Len(e.conns) /\ DOMAIN n.conns = DOMAIN e.conns
  /\ \A j \in DOMAIN e.conns : j # k => n.conns[j] = e.conns[j]
  /\ e.conns[k].phase = "up" /\ n.conns[k].phase = "open"
  /\ Alike([e.conns[k] EXCEPT !.phase = "open"], n.conns[k])
  /\ n.conns[k].shut <=> e.conns[k].shut

LEMMA LinkedOpens ==
  ASSUME NEW e, Typed(e), NEW k \in DOMAIN e.conns, e.conns[k].phase = "up"
  PROVE  Opens(e, Linked(e, k), k) /\ Linked(e, k).state = e.state
<1> DEFINE c == e.conns[k]
           d == [c EXCEPT !.phase = "open"]
           cs == [e.conns EXCEPT ![k] = d]
           ch == IF e.has THEN RetireReconnect(e.chan) ELSE e.chan
           n == [e EXCEPT !.conns = cs, !.linked = TRUE, !.chan = ch]
<1>1. e.conns \in Seq(Conn) /\ c \in Conn /\ e.chan \in Channel
  BY ConnsAre DEF Typed, Engine
<1>2. d \in Conn /\ d.phase = "open" /\ d.shut = c.shut
  BY <1>1 DEF Conn, Phase
<1>3. /\ cs \in Seq(Conn) /\ Len(cs) = Len(e.conns) /\ DOMAIN cs = DOMAIN e.conns
      /\ \A j \in DOMAIN e.conns : cs[j] = IF j = k THEN d ELSE e.conns[j]
  BY <1>1, <1>2, ConnsExcept
<1>4. ch \in Channel
  BY <1>1 DEF RetireReconnect, Channel
<1>5. Linked(e, k) = n
  BY DEF Linked
<1> HIDE DEF cs, ch, d
<1>6. /\ \A f \in EngineFields \ {"conns", "linked", "chan"} : n[f] = e[f]
      /\ n.conns = cs /\ n.linked /\ n.chan = ch /\ n \in Engine
  BY <1>3, <1>4 DEF Typed, Engine, EngineFields
<1> HIDE DEF n
<1>7. Typed(n)
  BY <1>3, <1>6 DEF Typed, EngineFields
<1>8. /\ n.state = e.state /\ n.has = e.has /\ n.cur = e.cur /\ n.cand = e.cand
      /\ n.early = e.early /\ n.heard = e.heard
      /\ n.cancelled = e.cancelled /\ n.unreachable = e.unreachable
  BY <1>6 DEF EngineFields
<1>9. Alike(d, cs[k])
  BY <1>3 DEF Alike
<1>10. cs[k] = d
  BY <1>3
<1> QED BY <1>2, <1>3, <1>5, <1>6, <1>7, <1>8, <1>9, <1>10 DEF Opens, ch, d

LEMMA OpensGood ==
  ASSUME NEW e, NEW n, NEW k, NEW p, NEW i, Good(e, p, i), Opens(e, n, k), ~e.conns[k].shut,
         n.state \in {"offering", e.state}
  PROVE  /\ Good(n, p, i) /\ Keeps(e, n)
         /\ Len(e.conns) <= 1 => e.has /\ SideOf(n) = "linked" /\ SideOf(e) \in {"looking", "linked"}
<1> DEFINE c == e.conns[k]
           d == n.conns[k]
<1>1. Typed(e) /\ Typed(n) /\ k \in DOMAIN e.conns /\ c \in Conn /\ e.chan \in Channel
  BY ConnsAre DEF Good, Opens, Typed, Engine
<1>2. /\ d.phase = "open" /\ d.config = c.config /\ d.offer = c.offer /\ d.applying = c.applying
      /\ d.remote = c.remote /\ d.ready = c.ready /\ d.buffered = c.buffered /\ d.added = c.added
      /\ (d.shut <=> c.shut) /\ c.phase = "up"
  BY <1>1 DEF Opens, Alike, Conn
<1>3. \A j \in DOMAIN e.conns : j # k => n.conns[j] = e.conns[j]
  BY DEF Opens
<1> HIDE DEF d
<1>4. DOMAIN n.conns = DOMAIN e.conns /\ Len(n.conns) = Len(e.conns)
      /\ n.conns # <<>> /\ e.conns # <<>>
  BY <1>1 DEF Opens
<1>5. e.state # "idle" /\ e.state # "creating"
  BY <1>4 DEF Good, Begun, NewEngine
<1>6. /\ n.chan.ws = e.chan.ws /\ n.chan.closed = e.chan.closed /\ n.chan.first = e.chan.first
      /\ ~e.has => n.chan = e.chan
  BY <1>1 DEF Opens, RetireReconnect, Channel
<1>7. Fetched(n, i)
  BY <1>1, <1>2, <1>3, <1>4 DEF Good, Fetched, d
<1>8. Begun(n)
  BY <1>4, <1>5, <1>6 DEF Good, Begun, Ended, Opens
<1>9. Referring(n)
  BY <1>1, <1>2, <1>3, <1>4 DEF Good, Referring, Opens, d
<1>10. Advanced(n, p)
  <2>1. n.linked <=> \E j \in DOMAIN n.conns : n.conns[j].phase = "open"
    BY <1>1, <1>2, <1>4 DEF Opens, d
  <2> QED BY <1>1, <1>2, <1>3, <1>4, <2>1 DEF Good, Advanced, Up, d
<1>11. ASSUME Len(e.conns) <= 1 PROVE e.has /\ DOMAIN e.conns = {k}
  BY <1>1, <1>2, <1>11, ConnsAre DEF Good, LetGo, Up
<1>12. LetGo(n)
  BY <1>4, <1>11 DEF LetGo, Opens
<1>13. Keeping(n)
  BY <1>2, <1>4, <1>11 DEF Good, Keeping, Opens, d
<1>14. Keeps(e, n)
  BY <1>2, <1>3, <1>4 DEF Keeps, Up, Said, Opens, d
<1>15. ASSUME Len(e.conns) <= 1 PROVE SideOf(n) = "linked" /\ SideOf(e) \in {"looking", "linked"}
  BY <1>5, <1>11, <1>15 DEF Good, Begun, SideOf, Ended, Stopped, Opens
<1> QED BY <1>1, <1>7, <1>8, <1>9, <1>10, <1>11, <1>12, <1>13, <1>14, <1>15 DEF Good

LEMMA SenderOpensStep ==
  ASSUME NegotiationInv, NEW k \in DOMAIN eng["sender"].conns, SenderOpens(k)
  PROVE  Parts' /\ Seen
<1> DEFINE e == eng["sender"]
           m == Linked(e, k)
           n == [m EXCEPT !.state = "offering"]
<1>1. /\ "sender" \in Role /\ Good(e, "sender", ice["sender"]) /\ k \in DOMAIN e.conns
      /\ Typed(e)
  BY EngineOf DEF Role, Good
<1>2. /\ Turns("sender", n) /\ manifest' = "sent" /\ UNCHANGED ice
      /\ e.conns[k].phase = "up" /\ ~e.conns[k].shut
  BY DEF SenderOpens
<1>3. Opens(e, m, k) /\ Typed(m)
  <2>1. Opens(e, m, k)
    BY <1>1, <1>2, LinkedOpens
  <2> QED BY <2>1 DEF Opens
<1> HIDE DEF m
<1>4. n \in Engine /\ n.state = "offering" /\ \A f \in EngineFields \ {"state"} : n[f] = m[f]
  BY <1>3 DEF Typed, Engine, EngineFields, State
<1> HIDE DEF n
<1>5. Opens(e, n, k)
  <2>1. /\ n.chan = m.chan /\ n.has = m.has /\ n.linked = m.linked
        /\ n.cur = m.cur /\ n.cand = m.cand /\ n.early = m.early /\ n.conns = m.conns
        /\ n.cancelled = m.cancelled /\ n.unreachable = m.unreachable /\ n.heard = m.heard
    BY <1>4 DEF EngineFields
  <2>2. Typed(n)
    BY <1>3, <1>4, <2>1 DEF Typed
  <2> QED BY <1>3, <2>1, <2>2 DEF Opens
<1>6. /\ Good(n, "sender", ice["sender"]) /\ Keeps(e, n)
      /\ Len(e.conns) <= 1 => SideOf(n) = "linked" /\ SideOf(e) \in {"looking", "linked"}
  BY <1>1, <1>2, <1>4, <1>5, OpensGood
<1>7. Past(n)
  BY <1>4, <1>5 DEF Past, FailedFor, Ended, Opens
<1>8. Slips("sender", n)
  BY <1>1, <1>2, TurnsShape
<1>9. ASSUME Len(e.conns) <= 1 PROVE Reached(eng'["sender"], eng'["receiver"])
  <2>1. Kept(eng["receiver"])
    BY <1>9 DEF NegotiationInv, PairGood, Pair, Reached
  <2>2. eng'["sender"] = n /\ eng'["receiver"] = eng["receiver"]
    BY <1>8 DEF Slips, Role
  <2> QED BY <1>7, <2>1, <2>2 DEF Reached
<1>10. FormedBy(e)
  BY <1>1, <1>2 DEF FormedBy, Up
<1>11. \/ Len(e.conns) > 1
       \/ Moves(e, n)
       \/ SideOf(e) = "looking" /\ SideOf(n) = "linked" /\ FormedBy(e)
  <2>1. Len(e.conns) > 1 \/ Len(e.conns) <= 1
    BY <1>1, ConnsAre
  <2> QED BY <1>6, <1>10, <2>1 DEF Moves
<1> QED BY <1>1, <1>2, <1>6, <1>8, <1>9, <1>11, EngineStep

\* Of a receiver, what is seen of a step that links it.
LEMMA ReceiverFew ==
  ASSUME NegotiationInv, Len(eng["sender"].conns) <= 1
  PROVE  /\ Len(eng["receiver"].conns) <= 1
         /\ \A j \in DOMAIN eng["receiver"].conns :
              eng["receiver"].conns[j].phase \in Up => FormedBy(eng["sender"])
         /\ Reached(eng["sender"], eng["receiver"])
BY DEF NegotiationInv, PairGood, Pair, Once

LEMMA ReceiverOpensStep ==
  ASSUME NegotiationInv, NEW k \in DOMAIN eng["receiver"].conns, ReceiverOpens(k)
  PROVE  Parts' /\ Seen
<1> DEFINE e == eng["receiver"]
           s == eng["sender"]
           n == Linked(e, k)
<1>1. /\ "receiver" \in Role /\ Good(e, "receiver", ice["receiver"]) /\ k \in DOMAIN e.conns
      /\ Typed(e) /\ "sender" \in Role /\ Typed(s)
  BY EngineOf DEF Role, Good
<1>2. /\ Turns("receiver", n) /\ UNCHANGED <<ice, manifest>>
      /\ e.conns[k].phase = "up" /\ ~e.conns[k].shut
  BY DEF ReceiverOpens
<1>3. Opens(e, n, k) /\ n.state = e.state
  BY <1>1, <1>2, LinkedOpens
<1> HIDE DEF n
<1>4. /\ Good(n, "receiver", ice["receiver"]) /\ Keeps(e, n)
      /\ Len(e.conns) <= 1 => SideOf(n) = "linked" /\ SideOf(e) \in {"looking", "linked"}
  BY <1>1, <1>2, <1>3, OpensGood
<1>5. ASSUME Len(e.conns) <= 1 PROVE Kept(n)
  <2>1. e.has /\ ~Ended(e)
    BY <1>1, <1>2, <1>5 DEF Good, LetGo, Begun, Up
  <2> QED BY <1>3, <2>1 DEF Kept, FailedFor, Ended
<1>6. Slips("receiver", n)
  BY <1>1, <1>2, TurnsShape
<1>7. ASSUME Len(s.conns) <= 1 PROVE Reached(eng'["sender"], eng'["receiver"])
  <2>1. eng'["sender"] = s /\ eng'["receiver"] = n
    BY <1>6 DEF Slips, Role
  <2>2. Reached(s, e) /\ Len(e.conns) <= 1
    BY <1>7, ReceiverFew
  <2> QED BY <1>2, <1>5, <2>1, <2>2 DEF Reached
<1>8. Len(s.conns) <= 1 => FormedBy(s) /\ Len(e.conns) <= 1
  BY <1>1, <1>2, ReceiverFew DEF Up
<1>9. \/ Len(s.conns) > 1
      \/ Moves(e, n)
      \/ SideOf(e) = "looking" /\ SideOf(n) = "linked" /\ FormedBy(s)
  <2>1. Len(s.conns) > 1 \/ Len(s.conns) <= 1
    BY <1>1, ConnsAre
  <2> QED BY <1>4, <1>8, <2>1 DEF Moves
<1> QED BY <1>1, <1>2, <1>4, <1>6, <1>7, <1>9, EngineStep

LEMMA ManifestArrivesStep ==
  ASSUME NegotiationInv, NEW k \in DOMAIN eng["receiver"].conns, ManifestArrives(k)
  PROVE  Parts' /\ Seen
<1> DEFINE e == eng["receiver"]
           s == eng["sender"]
           n == [e EXCEPT !.state = "offered"]
<1>1. /\ "receiver" \in Role /\ Good(e, "receiver", ice["receiver"]) /\ k \in DOMAIN e.conns
      /\ Typed(e) /\ "sender" \in Role /\ Typed(s)
  BY EngineOf DEF Role, Good
<1>2. /\ Turns("receiver", n) /\ UNCHANGED ice /\ manifest' = "read"
      /\ e.conns[k].phase \in Up /\ ~e.conns[k].shut
  BY DEF ManifestArrives, Up
<1>3. Restates(e, n) /\ n.state = "offered" /\ n.has = e.has /\ n.chan = e.chan
  BY <1>1 DEF Restates, Typed, Engine, State
<1> HIDE DEF n
<1>4. e.conns # <<>>
  BY <1>1, <1>2
<1>5. e.state # "idle" /\ e.state # "creating"
  BY <1>1, <1>4 DEF Good, Begun, NewEngine
<1>6. ASSUME Len(e.conns) <= 1 PROVE e.has
  BY <1>1, <1>2, <1>6 DEF Good, LetGo, Up
<1>7. Begun(n) /\ LetGo(n)
  <2>1. LetGo(n)
    BY <1>3, <1>6 DEF LetGo, Restates
  <2> QED BY <1>1, <1>3, <1>4, <1>5, <2>1 DEF Good, Begun, Restates, Ended
<1>8. Good(n, "receiver", ice["receiver"]) /\ Keeps(e, n)
  BY <1>1, <1>3, <1>7, RestatesGood
<1>9. Kept(n)
  BY <1>3 DEF Kept, FailedFor, Ended
<1>10. Slips("receiver", n)
  BY <1>1, <1>2, TurnsShape
<1>11. ASSUME Len(s.conns) <= 1
       PROVE  Reached(eng'["sender"], eng'["receiver"]) /\ Moves(e, n)
  <2>1. eng'["sender"] = s /\ eng'["receiver"] = n
    BY <1>10 DEF Slips, Role
  <2>2. Reached(s, e) /\ Len(e.conns) <= 1
    BY <1>11, ReceiverFew
  <2>3. SideOf(n) = SideOf(e)
    BY <1>1, <1>3, <1>4, <1>5, <1>6, <2>2 DEF Good, Begun, SideOf, Ended, Stopped, Restates
  <2> QED BY <1>2, <1>9, <2>1, <2>2, <2>3 DEF Reached, Moves
<1>12. Len(s.conns) > 1 \/ Len(s.conns) <= 1
  BY <1>1, ConnsAre
<1> QED BY <1>1, <1>2, <1>8, <1>10, <1>11, <1>12, EngineStep

-----------------------------------------------------------------------------
(* descriptions are sent and heard *)

LEMMA BoxesLose ==
  ASSUME NEW s, NEW r, NEW sbox, NEW rbox, Pair(s, r, sbox, rbox), Typed(s), Typed(r),
         NEW sbox2, NEW rbox2, Loses(sbox, sbox2), Loses(rbox, rbox2)
  PROVE  Pair(s, r, sbox2, rbox2)
<1>1. Keeps(s, s) /\ Keeps(r, r)
  BY DEF Keeps
<1>2. Len(s.conns) <= 1 /\ Len(r.conns) <= 1 => Reached(s, r)
  BY DEF Pair
<1> QED BY <1>1, <1>2, QuietPair

LEMMA DescribedStep ==
  ASSUME NegotiationInv, NEW p \in Role, NEW k \in DOMAIN eng[p].conns, Described(p, k)
  PROVE  Parts' /\ Seen
<1> DEFINE e == eng[p]
           c == e.conns[k]
           d == [c EXCEPT !.phase = "wait"]
           n == Turn(e, k, d)
           m == [type |-> IF p = "sender" THEN "offer" ELSE "answer", from |-> k]
<1>1. /\ Good(e, p, ice[p]) /\ k \in DOMAIN e.conns /\ c \in Conn /\ k \in Nat \ {0}
      /\ Typed(e)
  BY EngineOf, ConnsAre DEF Good
<1>2. n = [e EXCEPT !.conns[k].phase = "wait"]
  BY <1>1 DEF Turn, Typed, Engine
<1>3. /\ IF e.has THEN Becomes(p, n, inbox[p], <<m>>) ELSE Turns(p, Fail(n, "failed"))
      /\ UNCHANGED <<ice, manifest>> /\ c.phase = "local"
  BY <1>2 DEF Described
<1>4. /\ d \in Conn /\ d.phase = "wait" /\ d.config = c.config /\ d.offer = c.offer
      /\ (d.shut <=> c.shut) /\ d.applying = c.applying /\ d.remote = c.remote
      /\ d.buffered = c.buffered /\ d.added = c.added /\ d.ready = c.ready
  BY <1>1 DEF Conn, Phase
<1> HIDE DEF d
<1>5. Onward(e, c, d, p) /\ Discreet(c, d)
  BY <1>1, <1>3, <1>4 DEF Onward, Discreet, Good, Advanced, Keeping, Up, Said
<1>6. CASE ~e.has
  <2>1. Turns(p, Fail(n, "failed"))
    BY <1>3, <1>6
  <2> QED BY <1>3, <1>4, <1>5, <2>1, TurnFails
<1>7. CASE e.has
  <2>1. m \in Wire
    BY <1>1 DEF Wire
  <2>2. Becomes(p, n, inbox[p], <<m>>)
    BY <1>3, <1>7
  <2>3. Quietly(e, n, p, ice[p]) /\ Touched(e, n, k) /\ n.conns[k] = d
    <3> HIDE DEF e
    <3> QED BY <1>1, <1>4, <1>5, TurnGood
  <2>4. Typed(n)
    BY <2>3 DEF Touched
  <2> HIDE DEF n
  <2>5. /\ eng' = [q \in Role |-> IF q = p THEN n ELSE eng[q]]
        /\ inbox' \in [Role -> Seq(Wire)] /\ shared' \in BOOLEAN
        /\ inbox'[p] \in {inbox[p], <<>>}
        /\ inbox'[Other(p)] \in {inbox[Other(p)], Append(inbox[Other(p)], m)}
    BY <2>1, <2>2, SentShape
  <2>6. \A q \in Role : Good(eng'[q], q, ice'[q])
    BY <1>3, <2>3, <2>5, EngineOf DEF Quietly
  <2>7. Loses(inbox[p], inbox'[p])
    BY <2>5, LosesNothing, LosesAll
  <2>8. /\ inbox["sender"] \in Seq(Wire) /\ inbox["receiver"] \in Seq(Wire)
        /\ "sender" \in Role /\ "receiver" \in Role
        /\ Pair(eng["sender"], eng["receiver"], inbox["sender"], inbox["receiver"])
        /\ Typed(eng["sender"]) /\ Typed(eng["receiver"])
    BY EngineOf DEF NegotiationInv, Plain, Role, PairGood, Good
  <2>9. Pair(eng'["sender"], eng'["receiver"], inbox'["sender"], inbox'["receiver"])
    <3>1. CASE p = "sender"
      <4>1. /\ eng'["sender"] = n /\ eng'["receiver"] = eng["receiver"] /\ e = eng["sender"]
            /\ inbox'["receiver"] \in {inbox["receiver"],
                                       Append(inbox["receiver"], [type |-> "offer", from |-> k])}
        BY <2>5, <2>8, <3>1 DEF Other
      <4>2. Advanced(eng["receiver"], "receiver")
        BY <2>8, EngineOf DEF Good
      <4>3. Pair(n, eng["receiver"], inbox["sender"], inbox'["receiver"])
        BY <1>3, <1>4, <1>5, <1>7, <2>3, <2>4, <2>8, <4>1, <4>2, OfferPair
      <4>4. Loses(inbox'["receiver"], inbox'["receiver"])
        BY LosesNothing
      <4> QED BY <1>3, <2>4, <2>7, <2>8, <3>1, <4>1, <4>3, <4>4, BoxesLose
    <3>2. CASE p = "receiver"
      <4>1. /\ eng'["receiver"] = n /\ eng'["sender"] = eng["sender"] /\ e = eng["receiver"]
            /\ inbox'["sender"] \in {inbox["sender"],
                                     Append(inbox["sender"], [type |-> "answer", from |-> k])}
        BY <2>5, <2>8, <3>2 DEF Other
      <4>2. Pair(eng["sender"], n, inbox'["sender"], inbox["receiver"])
        BY <1>3, <1>4, <1>5, <1>7, <2>3, <2>4, <2>8, <4>1, AnswerPair
      <4>3. Loses(inbox'["sender"], inbox'["sender"])
        BY LosesNothing
      <4> QED BY <1>3, <2>4, <2>7, <2>8, <3>2, <4>1, <4>2, <4>3, BoxesLose
    <3> QED BY <3>1, <3>2 DEF Role
  <2>10. Parts'
    BY <2>5, <2>6, <2>9, PartsThen DEF Parts
  <2>11. Seen
    <3>1. /\ Len(eng'["sender"].conns) = Len(eng["sender"].conns)
          /\ FormedBy(eng'["sender"]) <=> FormedBy(eng["sender"])
      BY <1>1, <2>3, <2>4, <2>5, <2>8, FormedKept DEF Quietly, Keeps
    <3> QED BY <2>3, <2>5, <3>1, MovesSeen DEF Quietly, Steady
  <2> QED BY <2>10, <2>11
<1> QED BY <1>6, <1>7

\* A sender that makes a connection is where it was, unless it is its second.
LEMMA GrowsSeen ==
  ASSUME NEW n, eng' = [q \in Role |-> IF q = "sender" THEN n ELSE eng[q]],
         Typed(eng["sender"]), Typed(n), Grown(eng["sender"], n, 0), SideOf(n) = SideOf(eng["sender"])
  PROVE  Seen
<1> DEFINE e == eng["sender"]
           l == Len(e.conns)
           l2 == Len(n.conns)
           sd == [q \in Role |-> Side(q)]
<1>1. l \in Nat /\ l2 = l + 1 /\ eng'["sender"] = n
  BY ConnsAre DEF Grown, Role
<1>2. DOMAIN e.conns = 1 .. l /\ DOMAIN n.conns = 1 .. l2
  BY ConnsAre
<1>3. ~FormedBy(e) /\ ~FormedBy(n)
  BY <1>1, <1>2 DEF Grown, FormedBy, Up, Said
<1>4. ~Formed /\ ~Formed'
  BY <1>1, <1>3, SideIs, SideIsThen
<1>5. Formed' = Formed
  BY <1>4 DEF Formed
<1>6. /\ \A q \in Role : Side(q) = IF l > 1 THEN "spoiled" ELSE SideOf(eng[q])
      /\ \A q \in Role : Side(q)' = IF l2 > 1 THEN "spoiled" ELSE SideOf(eng'[q])
  BY <1>1, SideIs, SideIsThen
<1> HIDE DEF l, l2, e
<1>7. CASE l > 1
  <2>1. l2 > 1
    BY <1>1, <1>7
  <2>2. sd' = sd
    BY <1>6, <1>7, <2>1
  <2> QED BY <1>5, <2>2 DEF Seen
<1>8. CASE l2 <= 1
  <2>1. ~(l > 1) /\ ~(l2 > 1)
    BY <1>1, <1>8
  <2>2. sd' = sd
    BY <1>6, <2>1
  <2> QED BY <1>5, <2>2 DEF Seen
<1>9. CASE l <= 1 /\ l2 > 1
  <2>1. sd' = [q \in Role |-> "spoiled"]
    BY <1>6, <1>9
  <2>2. R!Spoil
    BY <1>4, <1>5, <2>1 DEF R!Spoil, R!Role, Role
  <2> QED BY <2>2 DEF Seen, R!Next
<1>10. l > 1 \/ l2 <= 1 \/ (l <= 1 /\ l2 > 1)
  BY <1>1
<1> QED BY <1>7, <1>8, <1>9, <1>10

\* What a page's first connection does to its fetch.
LEMMA FetchStarts ==
  ASSUME NEW e, NEW p, NEW i, Good(e, p, i), NEW j, j = i \/ (i = "none" /\ j = "pending")
  PROVE  Good(e, p, j)
BY DEF Good, Fetched, Final

LEMMA ReceiveShape ==
  ASSUME NegotiationInv, NEW p \in Role, Receive(p)
  PROVE  LET n == OnSignal(eng[p], p, Head(inbox[p])) IN
         /\ Slips(p, n) /\ inbox[p] # <<>> /\ inbox[p] \in Seq(Wire)
         /\ inbox'[p] \in {Tail(inbox[p]), <<>>} /\ inbox'[Other(p)] = inbox[Other(p)]
         /\ \A q \in Role : q # p => ice'[q] = ice[q]
         /\ ice'[p] = ice[p] \/ (ice[p] = "none" /\ ice'[p] = "pending")
         /\ manifest' = manifest
         /\ eng[p].has /\ eng[p].chan.ws = "open" /\ eng[p].state # "idle"
         /\ Head(inbox[p]) \in Wire
<1> DEFINE n == OnSignal(eng[p], p, Head(inbox[p]))
<1>1. inbox \in [Role -> Seq(Wire)] /\ <<>> \in Seq(Wire) /\ inbox[p] # <<>>
  BY EmptySeq DEF NegotiationInv, Plain, Receive
<1>2. Becomes(p, n, Tail(inbox[p]), <<>>)
  BY DEF Receive
<1>3. inbox[Other(p)] \o <<>> = inbox[Other(p)]
  BY <1>1, Sides, ConcatEmptySeq
<1>4. /\ inbox'[p] \in {Tail(inbox[p]), <<>>} /\ inbox'[Other(p)] = inbox[Other(p)]
      /\ inbox' = [q \in Role |-> inbox'[q]]
      /\ eng' = [q \in Role |-> IF q = p THEN n ELSE eng[q]] /\ shared' \in BOOLEAN
  BY <1>2, <1>3, BecomesShape
<1>5. /\ Tail(inbox[p]) \in Seq(Wire) /\ Loses(inbox[p], Tail(inbox[p]))
      /\ Head(inbox[p]) \in Wire
  BY <1>1, LosesHead
<1>6. \A q \in Role : inbox'[q] \in Seq(Wire) /\ Loses(inbox[q], inbox'[q])
  <2>1. inbox'[p] \in Seq(Wire) /\ Loses(inbox[p], inbox'[p])
    BY <1>1, <1>4, <1>5, LosesAll
  <2>2. inbox'[Other(p)] \in Seq(Wire) /\ Loses(inbox[Other(p)], inbox'[Other(p)])
    BY <1>1, <1>4, Sides, LosesNothing
  <2> QED BY <2>1, <2>2, Sides
<1>7. Slips(p, n)
  BY <1>4, <1>6 DEF Slips
<1>8. /\ ice' \in {ice, [ice EXCEPT ![p] = "pending"]} /\ manifest' = manifest
      /\ ice' # ice => ice[p] = "none"
  BY DEF Receive
<1>9. /\ \A q \in Role : q # p => ice'[q] = ice[q]
      /\ ice'[p] = ice[p] \/ (ice[p] = "none" /\ ice'[p] = "pending")
  BY <1>8 DEF NegotiationInv, Plain
<1>10. eng[p].has /\ eng[p].chan.ws = "open" /\ eng[p].state # "idle"
  BY EngineOf DEF Receive, Online, Sound, Good, Begun, NewEngine, NoChannel
<1> HIDE DEF n
<1> QED BY <1>1, <1>4, <1>5, <1>7, <1>8, <1>9, <1>10 DEF n

\* A message that only p's own engine knows of.
LEMMA HearsQuietly ==
  ASSUME NegotiationInv, NEW p \in Role, Receive(p),
         Quietly(eng[p], OnSignal(eng[p], p, Head(inbox[p])), p, ice[p])
  PROVE  Parts' /\ Seen
<1> DEFINE n == OnSignal(eng[p], p, Head(inbox[p]))
<1>1. /\ Slips(p, n) /\ manifest' = manifest
      /\ \A q \in Role : q # p => ice'[q] = ice[q]
      /\ ice'[p] = ice[p] \/ (ice[p] = "none" /\ ice'[p] = "pending")
  BY ReceiveShape
<1> HIDE DEF n
<1>2. Quietly(eng[p], n, p, ice'[p])
  BY <1>1, FetchStarts DEF n, Quietly
<1> QED BY <1>1, <1>2, QuietlySlips

\* A message that fails an engine neither side relies on.
LEMMA HearsFailing ==
  ASSUME NegotiationInv, NEW p \in Role, Receive(p), NEW f \in Endings,
         OnSignal(eng[p], p, Head(inbox[p])) = Fail(eng[p], f),
         ~(Len(eng[p].conns) <= 1 /\ eng[p].linked)
  PROVE  Parts' /\ Seen
<1> DEFINE n == Fail(eng[p], f)
<1>1. /\ Slips(p, n) /\ manifest' = manifest /\ eng[p].state # "idle"
      /\ \A q \in Role : q # p => ice'[q] = ice[q]
      /\ ice'[p] = ice[p] \/ (ice[p] = "none" /\ ice'[p] = "pending")
  BY ReceiveShape
<1>2. Good(n, p, ice[p]) /\ Moves(eng[p], n) /\ Keeps(eng[p], n) /\ n.linked = eng[p].linked
  BY <1>1, EngineOf, FailGood
<1> HIDE DEF n
<1>3. Good(n, p, ice'[p])
  BY <1>1, <1>2, FetchStarts
<1>4. Len(eng[p].conns) <= 1 => Firm(eng[p], n, p)
  BY <1>2, UnlinkedFirm
<1> QED BY <1>1, <1>2, <1>3, <1>4, QuietSlip

\* The parts of the invariant after a message that the pair knows of.
LEMMA HearsPaired ==
  ASSUME NegotiationInv, NEW p \in Role, Receive(p), NEW n,
         OnSignal(eng[p], p, Head(inbox[p])) = n, Good(n, p, ice[p]),
         Pair(eng'["sender"], eng'["receiver"], inbox'["sender"], inbox'["receiver"])
  PROVE  Parts'
<1>1. /\ Slips(p, n) /\ manifest' = manifest
      /\ \A q \in Role : q # p => ice'[q] = ice[q]
      /\ ice'[p] = ice[p] \/ (ice[p] = "none" /\ ice'[p] = "pending")
  BY ReceiveShape
<1>2. \A q \in Role : Good(eng'[q], q, ice'[q])
  BY <1>1, EngineOf, FetchStarts DEF Slips
<1> QED BY <1>1, <1>2, PartsThen DEF Parts, Slips

LEMMA PairOf ==
  ASSUME NegotiationInv
  PROVE  /\ "sender" \in Role /\ "receiver" \in Role
         /\ Other("sender") = "receiver" /\ Other("receiver") = "sender"
         /\ Typed(eng["sender"]) /\ Typed(eng["receiver"]) /\ Advanced(eng["receiver"], "receiver")
         /\ inbox["sender"] \in Seq(Wire) /\ inbox["receiver"] \in Seq(Wire)
         /\ Pair(eng["sender"], eng["receiver"], inbox["sender"], inbox["receiver"])
BY EngineOf DEF Role, Other, NegotiationInv, Plain, PairGood, Good

LEMMA HearsJoined ==
  ASSUME NegotiationInv, Receive("sender"), Head(inbox["sender"]).type = "peer-joined"
  PROVE  Parts' /\ Seen
<1> DEFINE e == eng["sender"]
           n == Negotiate(e)
<1>1. OnSignal(e, "sender", Head(inbox["sender"])) = n
  BY DEF OnSignal
<1>2. /\ Slips("sender", n) /\ inbox'["receiver"] = inbox["receiver"]
      /\ e.has /\ e.chan.ws = "open"
  BY <1>1, PairOf, ReceiveShape
<1>3. Good(e, "sender", ice["sender"])
  BY PairOf, EngineOf
<1>4. \/ n = e
      \/ Good(n, "sender", ice["sender"]) /\ Steady(e, n) /\ Grown(e, n, 0)
  <2> HIDE DEF e
  <2> QED BY <1>2, <1>3, NegotiateGood
<1> HIDE DEF n
<1>5. CASE n = e
  BY <1>1, <1>3, <1>5, PairOf, Same, HearsQuietly
<1>6. CASE Good(n, "sender", ice["sender"]) /\ Steady(e, n) /\ Grown(e, n, 0)
  <2>1. /\ eng' = [q \in Role |-> IF q = "sender" THEN n ELSE eng[q]]
        /\ eng'["sender"] = n /\ eng'["receiver"] = eng["receiver"]
        /\ Loses(inbox["sender"], inbox'["sender"])
    BY <1>2, PairOf DEF Slips
  <2>2. Typed(n)
    BY <1>6 DEF Good
  <2>3. Pair(n, eng["receiver"], inbox'["sender"], inbox["receiver"])
    BY <1>6, <2>1, <2>2, PairOf, SenderGrows
  <2>4. Parts'
    BY <1>1, <1>2, <1>6, <2>1, <2>3, PairOf, HearsPaired
  <2>5. Seen
    BY <1>6, <2>1, <2>2, PairOf, GrowsSeen DEF Steady
  <2> QED BY <2>4, <2>5
<1> QED BY <1>4, <1>5, <1>6

LEMMA HearsOffer ==
  ASSUME NegotiationInv, Receive("receiver"), Head(inbox["receiver"]).type = "offer"
  PROVE  Parts' /\ Seen
<1> DEFINE e == eng["receiver"]
           h == Head(inbox["receiver"])
           n == Answer(e, h.from)
<1>1. OnSignal(e, "receiver", h) = n
  BY DEF OnSignal
<1>2. /\ Slips("receiver", n) /\ inbox'["sender"] = inbox["sender"]
      /\ inbox'["receiver"] \in {Tail(inbox["receiver"]), <<>>}
      /\ e.has /\ e.chan.ws = "open" /\ inbox["receiver"] # <<>> /\ h \in Wire
  BY <1>1, PairOf, ReceiveShape
<1>3. Good(e, "receiver", ice["receiver"]) /\ h.from \in Nat \ {0}
  BY <1>2, PairOf, EngineOf DEF Wire
<1>4. \/ n = e
      \/ Good(n, "receiver", ice["receiver"]) /\ Steady(e, n) /\ Grown(e, n, h.from)
  <2> HIDE DEF e, h
  <2> QED BY <1>2, <1>3, AnswerGood
<1> HIDE DEF n
<1>5. CASE n = e
  BY <1>1, <1>3, <1>5, PairOf, Same, HearsQuietly
<1>6. CASE Good(n, "receiver", ice["receiver"]) /\ Steady(e, n) /\ Grown(e, n, h.from)
  <2>1. /\ eng' = [q \in Role |-> IF q = "receiver" THEN n ELSE eng[q]]
        /\ eng'["receiver"] = n /\ eng'["sender"] = eng["sender"]
    BY <1>2, PairOf DEF Slips
  <2>2. Typed(n)
    BY <1>6 DEF Good
  <2>3. Pair(eng["sender"], n, inbox["sender"], inbox'["receiver"])
    BY <1>2, <1>6, <2>2, PairOf, ReceiverGrows
  <2>4. Parts'
    BY <1>1, <1>2, <1>6, <2>1, <2>3, PairOf, HearsPaired
  <2>5. Seen
    BY <1>6, <2>1, PairOf, MovesSeen DEF Steady
  <2> QED BY <2>4, <2>5
<1> QED BY <1>4, <1>5, <1>6

LEMMA HearsAnswer ==
  ASSUME NegotiationInv, Receive("sender"), Head(inbox["sender"]).type = "answer"
  PROVE  Parts' /\ Seen
<1> DEFINE e == eng["sender"]
           h == Head(inbox["sender"])
           n == ApplyAnswer(e, h.from)
<1>1. OnSignal(e, "sender", h) = n
  BY DEF OnSignal
<1>2. /\ Slips("sender", n) /\ inbox'["receiver"] = inbox["receiver"]
      /\ inbox'["sender"] \in {Tail(inbox["sender"]), <<>>}
      /\ e.has /\ e.chan.ws = "open" /\ inbox["sender"] # <<>> /\ h \in Wire
  BY <1>1, PairOf, ReceiveShape
<1>3. Good(e, "sender", ice["sender"]) /\ h.from \in Nat
  BY <1>2, PairOf, EngineOf DEF Wire
<1>4. \/ n = e
      \/ /\ e.cur # 0 /\ n = Fail(e, "failed")
         /\ e.conns[e.cur].phase # "wait" \/ e.conns[e.cur].applying # 0
      \/ Good(n, "sender", ice["sender"]) /\ Steady(e, n) /\ AnswerTaken(e, n, h.from)
  <2> HIDE DEF e, h
  <2> QED BY <1>2, <1>3, ApplyAnswerGood
<1> HIDE DEF n
<1>5. CASE n = e
  BY <1>1, <1>3, <1>5, PairOf, Same, HearsQuietly
<1>6. CASE /\ e.cur # 0 /\ n = Fail(e, "failed")
           /\ e.conns[e.cur].phase # "wait" \/ e.conns[e.cur].applying # 0
  <2>1. ~(Len(e.conns) <= 1)
    BY <1>2, <1>3, <1>6, PairOf, AnswerWaited
  <2>2. "failed" \in Endings
    BY DEF Endings
  <2> QED BY <1>1, <1>6, <2>1, <2>2, PairOf, HearsFailing
<1>7. CASE Good(n, "sender", ice["sender"]) /\ Steady(e, n) /\ AnswerTaken(e, n, h.from)
  <2>1. /\ eng' = [q \in Role |-> IF q = "sender" THEN n ELSE eng[q]]
        /\ eng'["sender"] = n /\ eng'["receiver"] = eng["receiver"]
    BY <1>2, PairOf DEF Slips
  <2>2. Typed(n)
    BY <1>7 DEF Good
  <2>3. Pair(n, eng["receiver"], inbox'["sender"], inbox["receiver"])
    BY <1>2, <1>7, <2>2, PairOf, TakenPair
  <2>4. Parts'
    BY <1>1, <1>2, <1>7, <2>1, <2>3, PairOf, HearsPaired
  <2>5. FormedBy(n) <=> FormedBy(e)
    <3>1. DOMAIN n.conns = DOMAIN e.conns
      BY <1>7 DEF AnswerTaken, Touched
    <3>2. \A k \in DOMAIN e.conns : n.conns[k].phase = e.conns[k].phase
      BY <1>7 DEF AnswerTaken, Touched
    <3> QED BY <3>1, <3>2 DEF FormedBy
  <2>6. Len(n.conns) = Len(e.conns)
    BY <1>7 DEF AnswerTaken, Touched
  <2>7. Seen
    BY <1>7, <2>1, <2>5, <2>6, PairOf, MovesSeen DEF Steady
  <2> QED BY <2>4, <2>7
<1> QED BY <1>4, <1>5, <1>6, <1>7

LEMMA ReceiveStep ==
  ASSUME NegotiationInv, NEW p \in Role, Receive(p)
  PROVE  Parts' /\ Seen
<1> DEFINE e == eng[p]
           h == Head(inbox[p])
           n == OnSignal(e, p, h)
<1>1. h \in Wire /\ e.state # "idle"
  BY ReceiveShape
<1>2. Good(e, p, ice[p])
  BY EngineOf
<1>3. CASE h.type = "peer-left"
  <2>1. n = PeerLeft(e, p)
    BY <1>3 DEF OnSignal
  <2>2. CASE e.linked
    BY <1>2, <2>1, <2>2, Same, HearsQuietly DEF PeerLeft
  <2>3. CASE ~e.linked
    <3> DEFINE f == IF p = "sender" THEN "failed" ELSE "senderGone"
    <3>1. n = Fail(e, f) /\ f \in Endings
      BY <2>1, <2>3 DEF PeerLeft, Endings
    <3> HIDE DEF f
    <3> QED BY <2>3, <3>1, HearsFailing
  <2> QED BY <2>2, <2>3
<1>4. CASE h.type = "peer-joined" /\ p = "sender"
  BY <1>4, HearsJoined
<1>5. CASE h.type = "offer" /\ p = "receiver"
  BY <1>5, HearsOffer
<1>6. CASE h.type = "answer" /\ p = "sender"
  BY <1>6, HearsAnswer
<1>7. CASE h.type = "ice"
  <2>1. n = QueueCandidate(e, h.from) /\ h.from \in Nat
    BY <1>1, <1>7 DEF OnSignal, Wire
  <2>2. Quietly(e, n, p, ice[p])
    <3> HIDE DEF e, h, n
    <3> QED BY <1>1, <1>2, <2>1, QueueGood
  <2> QED BY <2>2, HearsQuietly
<1>8. CASE /\ h.type # "peer-left" /\ h.type # "ice"
           /\ ~(h.type = "peer-joined" /\ p = "sender") /\ ~(h.type = "offer" /\ p = "receiver")
           /\ ~(h.type = "answer" /\ p = "sender")
  <2>1. n = e
    BY <1>8 DEF OnSignal
  <2> QED BY <1>2, <2>1, Same, HearsQuietly
<1> QED BY <1>3, <1>4, <1>5, <1>6, <1>7, <1>8

-----------------------------------------------------------------------------
(* the two connect *)

LEMMA TurnsUp ==
  ASSUME NEW e, Typed(e), NEW k \in DOMAIN e.conns, e.conns[k].phase = "wait"
  PROVE  Ups(e, [e EXCEPT !.conns[k].phase = "up"], k)
<1> DEFINE c == e.conns[k]
           d == [c EXCEPT !.phase = "up"]
           n == Turn(e, k, d)
<1>1. c \in Conn
  BY ConnsAre
<1>2. d \in Conn /\ d.phase = "up" /\ (d.shut <=> c.shut) /\ Alike(d, d)
  BY <1>1 DEF Conn, Phase, Alike
<1>3. n = [e EXCEPT !.conns[k].phase = "up"]
  BY <1>1 DEF Turn, Typed, Engine
<1> HIDE DEF d
<1>4. Touched(e, n, k) /\ n.conns[k] = d /\ n.heard = e.heard
  BY <1>2, Touches
<1> HIDE DEF n
<1>5. Ups(e, n, k)
  BY <1>2, <1>4 DEF Ups, d
<1> QED BY <1>3, <1>5

\* An engine whose only connection stands, and is not up, looks for its peer.
LEMMA StandsLooking ==
  ASSUME NEW e, NEW p, NEW i, Good(e, p, i), NEW k, Stands(e, k), ~e.conns[k].shut,
         Len(e.conns) <= 1, e.conns[k].phase = "wait"
  PROVE  SideOf(e) = "looking" /\ ~FormedBy(e)
<1>1. k \in DOMAIN e.conns /\ e.has
  BY DEF Stands
<1>2. \A j \in DOMAIN e.conns : e.conns[j].phase = "wait"
  BY <1>1, ConnsAre DEF Good
<1>3. ~e.linked /\ ~FormedBy(e)
  BY <1>2 DEF Good, Advanced, FormedBy, Up
<1>4. e.state # "idle" /\ ~Ended(e)
  BY <1>1 DEF Good, Begun, NewEngine
<1> QED BY <1>1, <1>3, <1>4 DEF SideOf, Stopped

LEMMA ConnectStep ==
  ASSUME NegotiationInv, NEW i \in DOMAIN eng["sender"].conns, NEW j \in DOMAIN eng["receiver"].conns,
         Connect(i, j)
  PROVE  Parts' /\ Seen
<1> DEFINE s == eng["sender"]
           r == eng["receiver"]
           s2 == [s EXCEPT !.conns[i].phase = "up"]
           r2 == [r EXCEPT !.conns[j].phase = "up"]
<1>1. /\ Good(s, "sender", ice["sender"]) /\ Good(r, "receiver", ice["receiver"])
      /\ Typed(s) /\ Typed(r) /\ i \in DOMAIN s.conns /\ j \in DOMAIN r.conns
      /\ i \in Nat \ {0} /\ j \in Nat \ {0}
      /\ Pair(s, r, inbox["sender"], inbox["receiver"])
  BY PairOf, EngineOf, ConnsAre
<1>2. /\ s.conns[i].remote = j /\ r.conns[j].remote = i
      /\ ~s.conns[i].shut /\ ~r.conns[j].shut
      /\ s.conns[i].phase = "wait" /\ r.conns[j].phase = "wait"
      /\ UNCHANGED <<inbox, ice, manifest, shared>>
  BY DEF Connect, Matched, quiet
<1>3. eng' = [q \in Role |-> IF q = "sender" THEN s2 ELSE r2]
  <2>1. eng = [q \in Role |-> eng[q]] /\ Role = {"sender", "receiver"}
    BY DEF NegotiationInv, SocketsInv, Role
  <2>2. eng' = [eng EXCEPT !["sender"].conns[i].phase = "up", !["receiver"].conns[j].phase = "up"]
    BY DEF Connect
  <2> QED BY <2>1, <2>2
<1>4. Ups(s, s2, i) /\ Ups(r, r2, j)
  BY <1>1, <1>2, TurnsUp
<1> HIDE DEF s2, r2
<1>5. Stands(s, i) /\ Stands(r, j)
  BY <1>1, <1>2 DEF Good, Advanced, Pair, Traced
<1>6. /\ Good(s2, "sender", ice["sender"]) /\ Steady(s, s2)
      /\ Good(r2, "receiver", ice["receiver"]) /\ Steady(r, r2)
  BY <1>1, <1>2, <1>4, <1>5, UpGood
<1>7. Pair(s2, r2, inbox["sender"], inbox["receiver"])
  BY <1>1, <1>4, <1>6, ConnectPair
<1>8. eng'["sender"] = s2 /\ eng'["receiver"] = r2
  BY <1>3 DEF Role
<1>9. Parts'
  <2>1. \A q \in Role : Good(eng'[q], q, ice'[q])
    BY <1>2, <1>6, <1>8 DEF Role
  <2> QED BY <1>2, <1>7, <1>8, <2>1, PartsThen DEF Parts, NegotiationInv, Plain
<1>10. Len(s2.conns) = Len(s.conns) /\ DOMAIN s2.conns = DOMAIN s.conns
  BY <1>4 DEF Ups, Touched
<1>11. ASSUME Len(s.conns) > 1 PROVE Seen
  <2>1. Len(eng'["sender"].conns) = Len(eng["sender"].conns) /\ Len(eng["sender"].conns) \in Nat
    BY <1>1, <1>8, <1>10, ConnsAre
  <2>2. Len(eng["sender"].conns) > 1
    BY <1>11
  <2>3. Len(eng'["sender"].conns) > 1
    BY <2>1, <2>2
  <2> QED BY <2>2, <2>3, SpoiledSeen
<1>12. ASSUME Len(s.conns) <= 1 PROVE Seen
  <2>1. ~(Len(s.conns) > 1)
    BY <1>1, <1>12, ConnsAre
  <2>2. Len(r.conns) <= 1
    BY <1>12, ReceiverFew
  <2>3. /\ SideOf(s) = "looking" /\ ~FormedBy(s) /\ SideOf(r) = "looking"
        /\ SideOf(s2) = "looking" /\ SideOf(r2) = "looking"
    BY <1>1, <1>2, <1>5, <1>6, <1>12, <2>2, StandsLooking DEF Steady
  <2>4. FormedBy(s2)
    BY <1>1, <1>4, <1>10 DEF FormedBy, Ups, Up
  <2>5. /\ \A q \in Role : Side(q) = "looking" /\ Side(q)' = "looking"
        /\ ~Formed /\ Formed'
    BY <1>8, <1>10, <2>1, <2>3, <2>4, SideIs, SideIsThen DEF Role
  <2>6. R!Form
    BY <2>5 DEF R!Form, R!Role, Role, Formed
  <2>7. R!Next
    BY <2>6 DEF R!Next
  <2> QED BY <2>7 DEF Seen
<1>13. Len(s.conns) > 1 \/ Len(s.conns) <= 1
  BY <1>1, ConnsAre
<1> QED BY <1>9, <1>11, <1>12, <1>13

-----------------------------------------------------------------------------
(* the relay *)

\* No engine changes, and no description is on its way that was not.
LEMMA RelayParts ==
  ASSUME NegotiationInv, UNCHANGED <<eng, ice, manifest, shared>>,
         inbox' \in [Role -> Seq(Wire)], \A q \in Role : Loses(inbox[q], inbox'[q])
  PROVE  Parts' /\ Seen
<1>1. Pair(eng["sender"], eng["receiver"], inbox'["sender"], inbox'["receiver"])
  BY PairOf, BoxesLose
<1>2. \A q \in Role : Good(eng[q], q, ice[q])
  BY EngineOf
<1>3. Parts'
  BY <1>1, <1>2, PartsThen DEF Parts, NegotiationInv, Plain
<1>4. (\A q \in Role : Side(q)' = Side(q)) /\ Formed' = Formed
  BY DEF Side, Formed, NegotiatedTwice, Ended, Stopped
<1>5. [q \in Role |-> Side(q)]' = [q \in Role |-> Side(q)]
  BY <1>4
<1> QED BY <1>3, <1>4, <1>5 DEF Seen

\* The relay tells q of its peer.
LEMMA TellsParts ==
  ASSUME NegotiationInv, UNCHANGED <<eng, ice, manifest, shared>>, NEW q \in Role,
         NEW t \in {"peer-joined", "peer-left"},
         inbox' \in {inbox, [inbox EXCEPT ![q] = Append(inbox[q], [type |-> t])]}
  PROVE  Parts' /\ Seen
<1> DEFINE m == [type |-> t]
           box == Append(inbox[q], m)
<1>1. inbox \in [Role -> Seq(Wire)]
  BY DEF NegotiationInv, Plain
<1>2. m \in Wire /\ m.type \notin {"offer", "answer"}
  BY DEF Wire
<1> HIDE DEF m
<1>3. box \in Seq(Wire) /\ Loses(inbox[q], box)
  BY <1>1, <1>2, TakesOne
<1>4. inbox' \in {inbox, [inbox EXCEPT ![q] = box]}
  BY DEF m
<1> HIDE DEF box
<1>5. inbox' \in [Role -> Seq(Wire)] /\ \A p \in Role : inbox'[p] = inbox[p] \/ (p = q /\ inbox'[p] = box)
  BY <1>1, <1>3, <1>4
<1>6. \A p \in Role : Loses(inbox[p], inbox'[p])
  BY <1>3, <1>5, LosesNothing
<1> QED BY <1>5, <1>6, RelayParts

LEMMA RelayStep ==
  ASSUME NegotiationInv, Expire \/ (\E p \in Role : Greet(p) \/ Depart(p)) \/ UNCHANGED vars
  PROVE  Parts' /\ Seen
<1>1. CASE Expire \/ UNCHANGED vars
  <2>1. UNCHANGED <<eng, ice, manifest, shared, inbox>>
    BY <1>1 DEF Expire, vars
  <2>2. "sender" \in Role
    BY DEF Role
  <2> QED BY <2>1, <2>2, TellsParts
<1>2. ASSUME NEW p \in Role, Greet(p) PROVE Parts' /\ Seen
  <2>1. "sender" \in Role
    BY DEF Role
  <2> QED BY <1>2, <2>1, TellsParts DEF Greet
<1>3. ASSUME NEW p \in Role, Depart(p) PROVE Parts' /\ Seen
  BY <1>3, Sides, TellsParts DEF Depart
<1> QED BY <1>1, <1>2, <1>3

-----------------------------------------------------------------------------
(* every step *)

\* The variables of a session that are no engine's and no message.
Settings ==
  /\ ice \in [Role -> {"none", "pending", "served", "fallback"}]
  /\ registered \in [Role -> BOOLEAN] /\ greeting \in [Role -> BOOLEAN]
  /\ manifest \in {"none", "sent", "read"}
  /\ expired \in BOOLEAN
  /\ spent \in 0 .. MaxEvents

LEMMA Spends ==
  ASSUME spent \in 0 .. MaxEvents
  PROVE  /\ \A k : Happens(k) => spent' \in 0 .. MaxEvents
         /\ MaxEvents \in 0 .. MaxEvents
BY EventsAssumption DEF Happens

LEMMA SettingsStep ==
  ASSUME Settings, [Next]_vars
  PROVE  Settings'
<1> USE DEF Settings, relayVars, quiet
<1>1. CASE Begin \/ SessionCreated \/ CreateFails \/ Open \/ Expire
  BY <1>1, Spends DEF Begin, SessionCreated, CreateFails, Open, Expire
<1>2. CASE Connects
  BY <1>2 DEF Connects, Connect
<1>3. ASSUME NEW p \in Role, Dials(p) \/ Blip(p) \/ TimerFires(p) \/ Cancel(p) PROVE Settings'
  BY <1>3, Spends DEF Dials, DialAccepted, DialRefused, DialAborted, Blip, TimerFires, Cancel
<1>4. ASSUME NEW p \in Role, Receive(p) PROVE Settings'
  <2>1. ice' \in {ice, [ice EXCEPT ![p] = "pending"]} /\ UNCHANGED <<relayVars, manifest>>
    BY <1>4 DEF Receive
  <2>2. spent' \in 0 .. MaxEvents
    BY <1>4, Spends DEF Receive
  <2> QED BY <2>1, <2>2
<1>5. ASSUME NEW p \in Role, IceSettles(p) PROVE Settings'
  BY <1>5, Spends DEF IceSettles
<1>6. ASSUME NEW p \in Role, Awaits(p) PROVE Settings'
  BY <1>6 DEF Awaits, Described, Trickle, AnswerApplied, SenderOpens, OfferApplied,
              ReceiverOpens, ManifestArrives
<1>7. ASSUME NEW p \in Role, Greet(p) \/ Depart(p) PROVE Settings'
  BY <1>7 DEF Greet, Depart
<1>8. ASSUME NEW p \in Role, NEW k, Unreachable(p, k) PROVE Settings'
  BY <1>8, Spends DEF Unreachable
<1>9. CASE UNCHANGED vars
  BY <1>9 DEF vars
<1> QED BY <1>1, <1>2, <1>3, <1>4, <1>5, <1>6, <1>7, <1>8, <1>9 DEF Next

LEMMA AwaitsStep ==
  ASSUME NegotiationInv, NEW p \in Role, Awaits(p)
  PROVE  Parts' /\ Seen
BY DescribedStep, TrickleStep, AnswerAppliedStep, SenderOpensStep, OfferAppliedStep,
   ReceiverOpensStep, ManifestArrivesStep DEF Awaits

LEMMA NegotiationStep == NegotiationInv /\ [Next]_vars => NegotiationInv' /\ Seen
<1> SUFFICES ASSUME NegotiationInv, [Next]_vars PROVE NegotiationInv' /\ Seen
  OBVIOUS
<1>1. SocketsInv'
  BY SocketsStep DEF NegotiationInv
<1>2. Settings'
  BY SettingsStep DEF NegotiationInv, Plain, Settings
<1>3. Parts' /\ Seen
  <2>1. CASE Begin \/ SessionCreated \/ CreateFails \/ Open
    BY <2>1, BeginStep, SessionCreatedStep, CreateFailsStep, OpenStep
  <2>2. CASE Connects
    BY <2>2, ConnectStep DEF Connects
  <2>3. CASE \/ Expire \/ UNCHANGED vars
             \/ \E p \in Role : Greet(p) \/ Depart(p)
    BY <2>3, RelayStep
  <2>4. CASE \E p \in Role : Dials(p) \/ Blip(p) \/ TimerFires(p)
    BY <2>4, DialAcceptedStep, RefusedStep, BlipStep, TimerFiresStep DEF Dials
  <2>5. CASE \E p \in Role : Receive(p) \/ IceSettles(p) \/ Cancel(p) \/ Awaits(p)
    BY <2>5, ReceiveStep, IceSettlesStep, CancelStep, AwaitsStep
  <2>6. CASE \E p \in Role : \E k \in DOMAIN eng[p].conns : Unreachable(p, k)
    BY <2>6, UnreachableStep
  <2> QED BY <2>1, <2>2, <2>3, <2>4, <2>5, <2>6 DEF Next
<1> QED BY <1>1, <1>2, <1>3 DEF NegotiationInv, Plain, Settings, Parts

LEMMA NegotiationInit == Init => NegotiationInv
<1> SUFFICES ASSUME Init PROVE NegotiationInv
  OBVIOUS
<1>1. SocketsInv
  BY DEF Init, SocketsInv, Sound, Shaped, NewEngine, NoChannel, EngineFields, ChannelFields
<1>2. Plain
  <2>1. <<>> \in Seq(Wire) /\ 0 \in 0 .. MaxEvents
    BY EmptySeq, EventsAssumption
  <2> QED BY <2>1 DEF Init, Plain
<1>3. Len(NewEngine.conns) = 0 /\ NewEngine.conns = <<>> /\ <<>> \in Seq(Conn)
  BY EmptySeq DEF NewEngine
<1>4. Typed(NewEngine)
  BY <1>3, FreshChannels DEF Typed, Engine, State, NewEngine
<1>5. \A p \in Role : Good(eng[p], p, ice[p])
  <2>1. /\ ~NewEngine.has /\ ~NewEngine.linked /\ NewEngine.heard = {} /\ NewEngine.state = "idle"
        /\ NewEngine.chan = NoChannel /\ NewEngine.chan.ws = "none"
    BY DEF NewEngine, NoChannel
  <2>2. ASSUME NEW p, NEW i PROVE Good(NewEngine, p, i)
    BY <1>3, <1>4, <2>1
       DEF Good, Fetched, Begun, Referring, Advanced, LetGo, Keeping, Ended
  <2> QED BY <2>2 DEF Init
<1>6. PairGood
  BY <1>3 DEF Init, PairGood, Pair, Traced, Once, Reached, Kept, Few, Carries, NewEngine, Role
<1> QED BY <1>1, <1>2, <1>5, <1>6 DEF NegotiationInv, EnginesGood

LEMMA NegotiationAlways == Spec => [](NegotiationInv) /\ [][Seen]_vars
<1>1. NegotiationInv /\ [Next]_vars => NegotiationInv'
  BY NegotiationStep
<1>2. NegotiationInv /\ [Next]_vars => [Seen]_vars
  BY NegotiationStep
<1> QED BY <1>1, <1>2, NegotiationInit, PTL DEF Spec

-----------------------------------------------------------------------------
(* an offer on screen is not taken for waiting *)

\* A receiver that had its offer waits for nothing any more.
Offered(e) == /\ DOMAIN e.conns # {}
              /\ e.cancelled \/ e.state \notin {"waiting", "connecting", "expired"}

Told == manifest = "read" /\ ~NegotiatedTwice => Offered(eng["receiver"])

Stays(e, n) == Offered(e) => Offered(n)

\* Engine n has what Offered looks at from e, and perhaps more connections.
Unmoved(e, n) ==
  n.state = e.state /\ n.cancelled = e.cancelled /\ DOMAIN e.conns \subseteq DOMAIN n.conns

LEMMA SameStays == ASSUME NEW e, NEW n, Unmoved(e, n) PROVE Stays(e, n)
BY DEF Unmoved, Stays, Offered

LEMMA FailStays ==
  ASSUME NEW e, Sound(e), NEW s, s \notin {"waiting", "connecting", "expired"}
  PROVE  Stays(e, Fail(e, s))
<1>1. CASE Ended(e)
  BY <1>1 DEF Fail, Stays
<1>2. CASE ~Ended(e)
  <2> DEFINE n == [e EXCEPT !.state = s]
             c == Cleanup(n)
  <2>1. Fail(e, s) = c
    BY <1>2 DEF Fail
  <2>2. n.state = s /\ n.conns = e.conns /\ n.cancelled = e.cancelled /\ Sound(n)
    BY StateSound DEF Sound, Shaped, EngineFields
  <2> HIDE DEF n
  <2>3. c.state = n.state /\ c.cancelled = n.cancelled /\ DOMAIN c.conns = DOMAIN n.conns
    BY <2>2 DEF Cleanup, Sound, Shaped, EngineFields
  <2> QED BY <2>1, <2>2, <2>3 DEF Stays, Offered
<1> QED BY <1>1, <1>2

\* A channel that closes tells its owner, who had waited for nothing more.
LEMMA RechannelStays ==
  ASSUME NEW e, Sound(e), NEW t
  PROVE  Stays(e, Rechannel(e, "receiver", t))
<1> DEFINE n == [e EXCEPT !.chan = t]
<1>1. Unmoved(e, n)
  BY DEF Unmoved, Sound, Shaped, EngineFields
<1>2. Offered(e) /\ ~e.cancelled => ContactLost(n, "receiver") = n
  <2> HIDE DEF n
  <2> QED BY <1>1 DEF ContactLost, Unmoved, Offered
<1>3. ContactLost(n, "receiver").cancelled = n.cancelled
      /\ DOMAIN ContactLost(n, "receiver").conns = DOMAIN n.conns
  <2>1. n = [f \in EngineFields |-> n[f]]
    BY DEF Sound, Shaped, EngineFields
  <2> HIDE DEF n
  <2> DEFINE m == [n EXCEPT !.state = "expired"]
  <2>2. m = [f \in EngineFields |-> m[f]] /\ m.cancelled = n.cancelled /\ m.conns = n.conns
    BY <2>1 DEF EngineFields
  <2>3. ContactLost(n, "receiver") \in {n, Cleanup(m)}
    BY DEF ContactLost, Fail
  <2> HIDE DEF m
  <2>4. Cleanup(m).cancelled = m.cancelled /\ DOMAIN Cleanup(m).conns = DOMAIN m.conns
    BY <2>2 DEF Cleanup, EngineFields
  <2> QED BY <2>2, <2>3, <2>4
<1>4. Rechannel(e, "receiver", t) \in {n, ContactLost(n, "receiver")}
  BY DEF Rechannel
<1> HIDE DEF n
<1> QED BY <1>1, <1>2, <1>3, <1>4 DEF Unmoved, Stays, Offered

LEMMA ConfiguredSame ==
  ASSUME NEW e, Sound(e), NEW p, NEW config
  PROVE  Unmoved(e, Configured(e, p, config)) 
BY DEF Configured, Unmoved, Sound, Shaped, EngineFields

\* onSignal of a receiver: a second offer, a candidate, or a departure.
LEMMA SignalStays ==
  ASSUME NEW e, Sound(e), e.conns \in Seq(Conn), NEW m
  PROVE  Stays(e, OnSignal(e, "receiver", m))
<1>1. CASE m.type = "peer-left"
  BY <1>1, FailStays, SameStays DEF OnSignal, PeerLeft, Unmoved
<1>2. CASE m.type = "offer"
  <2> DEFINE n == [e EXCEPT !.conns = Append(@, NewConn(m.from))]
  <2>1. Unmoved(e, n) /\ Sound(n)
    <3>1. DOMAIN e.conns \subseteq DOMAIN Append(e.conns, NewConn(m.from))
      BY AppendProperties, LenProperties
    <3> HIDE DEF NewConn
    <3> QED BY <3>1 DEF Unmoved, Sound, Shaped, EngineFields
  <2> HIDE DEF n
  <2>2. \A config : Unmoved(n, Configured(n, "receiver", config))
    BY <2>1, ConfiguredSame
  <2>3. OnSignal(e, "receiver", m) \in {e, n, Configured(n, "receiver", ice["receiver"])}
    BY <1>2 DEF OnSignal, Answer, Create, n
  <2> QED BY <2>1, <2>2, <2>3, SameStays DEF Unmoved
<1>3. CASE m.type = "ice"
  <2> DEFINE n == [e EXCEPT !.heard = @ \cup {m.from}]
  <2>1. n = [f \in EngineFields |-> n[f]] /\ Unmoved(e, n)
    BY DEF Unmoved, Sound, Shaped, EngineFields
  <2>2. OnSignal(e, "receiver", m) = QueueCandidate(e, m.from)
    BY <1>3 DEF OnSignal
  <2> HIDE DEF n
  <2>3. \A x : Unmoved(n, [n EXCEPT !.early = x]) /\ \A k : Unmoved(n, [n EXCEPT !.conns[k] = x])
    BY <2>1 DEF Unmoved, EngineFields
  <2>4. Unmoved(n, QueueCandidate(e, m.from))
    BY <2>3 DEF QueueCandidate, n
  <2> QED BY <2>1, <2>2, <2>4, SameStays DEF Unmoved
<1>4. CASE m.type \notin {"peer-left", "offer", "ice"}
  BY <1>4, SameStays DEF OnSignal, Unmoved
<1> QED BY <1>1, <1>2, <1>3, <1>4

\* A connection moves on, whatever it becomes.
LEMMA ConnSame ==
  ASSUME NEW e, Sound(e), NEW k, NEW c
  PROVE  Unmoved(e, [e EXCEPT !.conns[k] = c]) /\ Sound([e EXCEPT !.conns[k] = c])
BY DEF Unmoved, Sound, Shaped, EngineFields

\* One step of the receiver.
LEMMA ReceiverTurns ==
  ASSUME NegotiationInv, NEW n, NEW left, NEW msgs, Becomes("receiver", n, left, msgs),
         Stays(eng["receiver"], n)
  PROVE  Stays(eng["receiver"], eng'["receiver"])
<1>1. eng'["receiver"] = n
  BY BecomesShape DEF Role
<1> QED BY <1>1

LEMMA SenderTurns ==
  ASSUME NegotiationInv, NEW n, NEW left, NEW msgs, Becomes("sender", n, left, msgs)
  PROVE  Stays(eng["receiver"], eng'["receiver"])
<1>1. eng'["receiver"] = eng["receiver"]
  BY BecomesShape DEF Role
<1> QED BY <1>1 DEF Stays

\* The receiver's own steps that its page or the relay takes, MANIFEST apart.
LEMMA SocketsStay ==
  ASSUME NegotiationInv, ~NegotiatedTwice, Dials("receiver") \/ Blip("receiver") \/ TimerFires("receiver")
  PROVE  Stays(eng["receiver"], eng'["receiver"])
<1> DEFINE e == eng["receiver"]
<1>0. Sound(e) /\ Good(e, "receiver", ice["receiver"]) /\ Len(e.conns) <= 1
  BY EngineOf, ReceiverFew, PairOf DEF NegotiationInv, SocketsInv, Role, NegotiatedTwice
<1>1. \A n : Turns("receiver", n) /\ Stays(e, n) => Stays(e, eng'["receiver"])
  BY ReceiverTurns DEF Turns
<1>2. CASE Blip("receiver")
  BY <1>0, <1>1, <1>2, RechannelStays DEF Blip
<1>3. \A t : Unmoved(e, [e EXCEPT !.chan = t])
  BY <1>0 DEF Unmoved, Sound, Shaped, EngineFields
<1>4. CASE TimerFires("receiver")
  BY <1>1, <1>3, <1>4, SameStays DEF TimerFires
<1>5. e.chan.first /\ e.chan.ws = "dialing" => ~Offered(e)
  BY <1>0 DEF Good, Begun, Offered
<1>6. CASE DialAccepted("receiver")
  BY <1>1, <1>3, <1>5, <1>6, SameStays DEF DialAccepted, Stays
<1>7. CASE ~e.chan.first /\ (DialRefused("receiver") \/ DialAborted("receiver"))
  BY <1>0, <1>1, <1>7, RechannelStays DEF DialRefused, DialAborted, Refused
<1>8. CASE e.chan.first /\ DialRefused("receiver")
  BY <1>1, <1>5, <1>8 DEF DialRefused, Stays
<1>9. CASE e.chan.first /\ DialAborted("receiver")
  <2> DEFINE n == [e EXCEPT !.chan.ws = "none"]
  <2>1. Unmoved(e, n)
    BY <1>0 DEF Unmoved, Sound, Shaped, EngineFields
  <2>2. Turns("receiver", Fail(n, "expired"))
    BY <1>9 DEF DialAborted, Refused
  <2>3. ~e.has /\ (Ended(e) \/ e.cancelled \/ e.conns = <<>>)
    BY <1>0, <1>9 DEF DialAborted, Good, Begun, LetGo, NewEngine
  <2>4. Stays(e, Fail(n, "expired"))
    <3>1. CASE Ended(e)
      BY <2>1, <3>1, SameStays DEF Fail, Ended, Unmoved
    <3>2. CASE e.conns = <<>>
      BY <3>2 DEF Stays, Offered
    <3>3. CASE e.cancelled
      <4>1. \A x : Unmoved(x, x)
        BY DEF Unmoved
      <4> HIDE DEF n
      <4>2. n = [f \in EngineFields |-> n[f]]
        BY <1>0 DEF n, Sound, Shaped, EngineFields
      <4>3. Fail(n, "expired").cancelled = n.cancelled /\ DOMAIN Fail(n, "expired").conns = DOMAIN n.conns
        <5> DEFINE m == [n EXCEPT !.state = "expired"]
        <5>1. m = [f \in EngineFields |-> m[f]] /\ m.cancelled = n.cancelled /\ m.conns = n.conns
          BY <4>2 DEF EngineFields
        <5>2. Fail(n, "expired") \in {n, Cleanup(m)}
          BY DEF Fail
        <5> HIDE DEF m
        <5>3. Cleanup(m).cancelled = m.cancelled /\ DOMAIN Cleanup(m).conns = DOMAIN m.conns
          BY <5>1 DEF Cleanup, EngineFields
        <5> QED BY <5>1, <5>2, <5>3
      <4> QED BY <2>1, <3>3, <4>3 DEF Unmoved, Stays, Offered
    <3> QED BY <2>3, <3>1, <3>2, <3>3
  <2> QED BY <1>1, <2>2, <2>4
<1> QED BY <1>2, <1>4, <1>6, <1>7, <1>8, <1>9 DEF Dials

LEMMA AwaitsStay ==
  ASSUME NegotiationInv, NEW k \in DOMAIN eng["receiver"].conns,
         \/ Described("receiver", k) \/ Trickle("receiver", k) \/ OfferApplied(k) \/ ReceiverOpens(k)
         \/ ManifestArrives(k) \/ Unreachable("receiver", k)
  PROVE  /\ Stays(eng["receiver"], eng'["receiver"])
         /\ ManifestArrives(k) => Offered(eng'["receiver"])
<1> DEFINE e == eng["receiver"]
<1>0. Sound(e)
  BY DEF NegotiationInv, SocketsInv, Role
<1>8. CASE ManifestArrives(k)
  <2> DEFINE n == [e EXCEPT !.state = "offered"]
  <2>1. Offered(n)
    BY <1>0 DEF Offered, Sound, Shaped, EngineFields
  <2>2. eng'["receiver"] = n
    <3>1. Becomes("receiver", n, inbox["receiver"], <<>>)
      BY <1>8 DEF ManifestArrives, Turns
    <3> QED BY <3>1, BecomesShape DEF Role
  <2> QED BY <2>1, <2>2 DEF Stays
<1> SUFFICES ASSUME ~ManifestArrives(k) PROVE Stays(e, eng'["receiver"])
  BY <1>8
<1>1. \A n, left, msgs : Becomes("receiver", n, left, msgs) /\ Stays(e, n) => Stays(e, eng'["receiver"])
  BY ReceiverTurns
<1>2. \A x, y : Unmoved(x, y) /\ Sound(y) =>
         Stays(x, y) /\ \A s : s \notin {"waiting", "connecting", "expired"} => Stays(x, Fail(y, s))
  BY SameStays, FailStays DEF Stays, Unmoved, Offered
<1> DEFINE c == e.conns[k]
           waits == [e EXCEPT !.conns[k].phase = "wait"]
           trickled == [e EXCEPT !.conns[k].trickled = TRUE]
           applied == [e EXCEPT !.conns[k].phase = "local", !.conns[k].remote = e.conns[k].offer]
<1>3. /\ Unmoved(e, waits) /\ Sound(waits) /\ Unmoved(e, trickled) /\ Sound(trickled)
      /\ Unmoved(e, applied) /\ Sound(applied)
  BY <1>0 DEF Unmoved, Sound, Shaped, EngineFields
<1> DEFINE mine(n) == \E left, msgs : Becomes("receiver", n, left, msgs)
<1>11. \A n : mine(n) /\ Stays(e, n) => Stays(e, eng'["receiver"])
  BY <1>1
<1>4. CASE Described("receiver", k)
  <2>1. mine(waits) \/ mine(Fail(waits, "failed"))
    BY <1>4 DEF Described, Turns
  <2> HIDE DEF waits, mine
  <2> QED BY <1>2, <1>3, <1>11, <2>1
<1>5. CASE Trickle("receiver", k)
  <2>1. mine(trickled)
    BY <1>5 DEF Trickle
  <2> HIDE DEF trickled, mine
  <2> QED BY <1>2, <1>3, <1>11, <2>1
<1>6. CASE OfferApplied(k)
  <2>1. Unmoved(e, RemoteReady(applied))
    <3> HIDE DEF applied
    <3>1. \A x : Unmoved(applied, [applied EXCEPT !.conns[applied.cand] = x])
      BY <1>3, ConnSame
    <3>2. Unmoved(applied, applied)
      BY DEF Unmoved
    <3>3. Unmoved(applied, RemoteReady(applied))
      BY <3>1, <3>2 DEF RemoteReady
    <3> QED BY <1>3, <3>3 DEF Unmoved
  <2>2. mine(Fail(waits, "failed")) \/ mine(RemoteReady(applied))
    BY <1>6 DEF OfferApplied, Turns
  <2> HIDE DEF waits, applied, mine
  <2> QED BY <1>2, <1>3, <1>11, <2>1, <2>2, SameStays
<1>7. CASE ReceiverOpens(k)
  <2>1. Unmoved(e, Linked(e, k))
    BY <1>0 DEF Linked, Unmoved, Sound, Shaped, EngineFields
  <2>2. mine(Linked(e, k))
    BY <1>7 DEF ReceiverOpens, Turns
  <2> HIDE DEF mine
  <2> QED BY <1>11, <2>1, <2>2, SameStays
<1>9. CASE Unreachable("receiver", k)
  <2> DEFINE f == Fail(e, "failed")
  <2>1. Stays(e, f) /\ Sound(f)
    BY <1>0, FailStays, FailSound
  <2> HIDE DEF f
  <2>2. \A x : Unmoved(f, [f EXCEPT !.unreachable = x])
    BY <2>1 DEF Unmoved, Sound, Shaped, EngineFields
  <2>3. \A x : Stays(e, [f EXCEPT !.unreachable = x])
    BY <2>1, <2>2, SameStays DEF Stays
  <2>4. \E x : mine([f EXCEPT !.unreachable = x])
    BY <1>9 DEF Unreachable, Turns, f
  <2> HIDE DEF mine
  <2> QED BY <1>11, <2>3, <2>4
<1> QED BY <1>4, <1>5, <1>6, <1>7, <1>9

\* Once the sender negotiated twice it has, for ever.
LEMMA TwiceForEver == ASSUME Seen, ~NegotiatedTwice' PROVE ~NegotiatedTwice
<1> SUFFICES ASSUME NegotiatedTwice PROVE FALSE
  OBVIOUS
<1>1. \A p \in Role : Side(p) = "spoiled" /\ Side(p)' # "spoiled"
  BY DEF Side, NegotiatedTwice, SideOf, Ended, Stopped
<1>2. [p \in Role |-> Side(p)] # [p \in Role |-> Side(p)']
  <2>1. "sender" \in Role
    BY DEF Role
  <2> QED BY <1>1, <2>1
<1>3. R!Next
  BY <1>2 DEF Seen
<1> DEFINE sd == [p \in Role |-> Side(p)]
           sd2 == [p \in Role |-> Side(p)']
<1>4. \A p \in Role : sd[p] = "spoiled" /\ sd2[p] # "spoiled"
  BY <1>1
<1>5. "sender" \in Role /\ R!Role = Role
  BY DEF Role, R!Role
<1> HIDE DEF sd, sd2
<1> QED BY <1>3, <1>4, <1>5 DEF R!Next, R!Form, R!Spoil, R!Look, R!Link, R!Leave, sd, sd2

LEMMA ToldStep ==
  ASSUME NegotiationInv, Told, [Next]_vars, ~NegotiatedTwice'
  PROVE  Told'
<1> SUFFICES ASSUME manifest' = "read" PROVE Offered(eng'["receiver"])
  BY DEF Told, Offered
<1>0. ~NegotiatedTwice
  BY NegotiationStep, TwiceForEver
<1> DEFINE kept == Stays(eng["receiver"], eng'["receiver"])
<1>1. manifest' = manifest /\ kept => Offered(eng'["receiver"])
  BY <1>0 DEF Told, Stays
<1>2. ASSUME NEW n, NEW left, NEW msgs, Becomes("sender", n, left, msgs) PROVE kept
  BY <1>2, SenderTurns
<1>3. CASE UNCHANGED vars \/ Expire \/ \E p \in Role : Greet(p) \/ Depart(p)
  BY <1>1, <1>3 DEF vars, Expire, Greet, Depart, Stays
<1>4. CASE Connects
  <2>1. PICK i \in DOMAIN eng["sender"].conns, j \in DOMAIN eng["receiver"].conns : Connect(i, j)
    BY <1>4 DEF Connects
  <2>2. Unmoved(eng["receiver"], eng'["receiver"])
    BY <2>1 DEF Connect, NegotiationInv, SocketsInv, Sound, Shaped, EngineFields, Role, Unmoved
  <2> QED BY <1>1, <2>1, <2>2, SameStays DEF Connect, quiet
<1>5. CASE Begin \/ SessionCreated \/ CreateFails
  BY <1>1, <1>2, <1>5 DEF Begin, SessionCreated, CreateFails, Turns
<1>6. CASE Open
  <2>1. ~Offered(eng["receiver"]) /\ manifest' = manifest
    BY <1>6, EngineOf DEF Open, Role, Good, Begun, NewEngine, Offered
  <2> QED BY <1>0, <2>1 DEF Told
<1>7. ASSUME NEW p \in Role,
             \/ Dials(p) \/ Blip(p) \/ TimerFires(p) \/ Receive(p) \/ IceSettles(p)
             \/ Awaits(p) \/ Cancel(p) \/ \E k \in DOMAIN eng[p].conns : Unreachable(p, k)
      PROVE  Offered(eng'["receiver"])
  <2>1. CASE p = "sender"
    <3>1. CASE \E k \in DOMAIN eng["sender"].conns : SenderOpens(k)
      BY <3>1 DEF SenderOpens
    <3>2. CASE ~\E k \in DOMAIN eng["sender"].conns : SenderOpens(k)
      <4>1. /\ manifest' = manifest
            /\ \E n, left, msgs : Becomes("sender", n, left, msgs)
        BY <1>7, <2>1, <3>2
           DEF Dials, DialAccepted, DialRefused, DialAborted, Blip, TimerFires, Receive, IceSettles,
               Awaits, Described, Trickle, AnswerApplied, Cancel, Unreachable, Turns
      <4> QED BY <1>1, <1>2, <4>1
    <3> QED BY <3>1, <3>2
  <2>2. CASE p = "receiver"
    <3> DEFINE e == eng["receiver"]
    <3>0. Sound(e) /\ e.conns \in Seq(Conn)
      BY EngineOf DEF NegotiationInv, SocketsInv, Role, Good, Typed, Engine
    <3>1. \A n, left, msgs : Becomes("receiver", n, left, msgs) /\ Stays(e, n) => kept
      BY ReceiverTurns
    <3>2. CASE Dials("receiver") \/ Blip("receiver") \/ TimerFires("receiver")
      <4>1. manifest' = manifest
        BY <3>2 DEF Dials, DialAccepted, DialRefused, DialAborted, Blip, TimerFires
      <4> QED BY <1>0, <1>1, <3>2, <4>1, SocketsStay
    <3>3. CASE Receive("receiver")
      BY <1>1, <3>0, <3>1, <3>3, SignalStays DEF Receive
    <3>4. CASE IceSettles("receiver")
      <4>1. Stays(e, Configured(e, "receiver", ice'["receiver"]))
        BY <3>0, ConfiguredSame, SameStays
      <4> QED BY <1>1, <3>1, <3>4, <4>1 DEF IceSettles, Turns
    <3>5. CASE Cancel("receiver")
      <4> DEFINE c == Cleanup(e)
      <4>1. c = [f \in EngineFields |-> c[f]] /\ c.state = e.state /\ DOMAIN c.conns = DOMAIN e.conns
        BY <3>0 DEF Cleanup, Sound, Shaped, EngineFields
      <4> HIDE DEF c
      <4>2. Stays(e, [c EXCEPT !.cancelled = TRUE])
        BY <4>1 DEF Stays, Offered, EngineFields
      <4> QED BY <1>1, <3>1, <3>5, <4>2 DEF Cancel, Turns, c
    <3>6. ASSUME NEW k \in DOMAIN eng["receiver"].conns,
                 \/ Described("receiver", k) \/ Trickle("receiver", k) \/ OfferApplied(k)
                 \/ ReceiverOpens(k) \/ ManifestArrives(k) \/ Unreachable("receiver", k)
          PROVE  Offered(eng'["receiver"])
      <4>1. kept /\ (ManifestArrives(k) => Offered(eng'["receiver"]))
        BY <3>6, AwaitsStay
      <4>2. ManifestArrives(k) \/ manifest' = manifest
        BY <3>6 DEF Described, Trickle, OfferApplied, ReceiverOpens, Unreachable
      <4> QED BY <1>1, <4>1, <4>2
    <3> QED BY <1>7, <2>2, <3>2, <3>3, <3>4, <3>5, <3>6 DEF Awaits
  <2> QED BY <2>1, <2>2 DEF Role
<1> QED BY <1>3, <1>4, <1>5, <1>6, <1>7 DEF Next


-----------------------------------------------------------------------------
(* what follows *)

\* The variables are what they are declared to be, and whatever a connection
\* is called in a message or a reference exists.
THEOREM SessionTyped == Spec => []TypeOK
<1>1. NegotiationInv => TypeOK
  <2> SUFFICES ASSUME NegotiationInv PROVE TypeOK
    OBVIOUS
  <2>1. DOMAIN eng = Role
    BY DEF NegotiationInv, SocketsInv
  <2>2. ASSUME NEW p \in Role
        PROVE  /\ eng[p].state \in State /\ eng[p].chan \in Channel
               /\ eng[p].cur \in 0 .. Len(eng[p].conns) /\ eng[p].cand \in 0 .. Len(eng[p].conns)
               /\ \A k \in DOMAIN eng[p].conns : eng[p].conns[k].phase \in Phase
    <3>1. Typed(eng[p]) /\ \A k \in DOMAIN eng[p].conns : eng[p].conns[k] \in Conn
      BY EngineOf, ConnsAre DEF Good
    <3> QED BY <3>1 DEF Typed, Engine, Conn
  <2>3. ASSUME NEW p \in Role, NEW m \in ToSet(inbox[p])
        PROVE  m \in [type : {"peer-joined", "peer-left"}] \/ m.from > 0
    <3>1. inbox[p] \in Seq(Wire)
      BY DEF NegotiationInv, Plain
    <3>2. m \in Wire
      BY <3>1, ElementOfSeq, LenProperties DEF ToSet
    <3> QED BY <3>2 DEF Wire
  <2> QED BY <2>1, <2>2, <2>3 DEF TypeOK, NegotiationInv, Plain
<1> QED BY <1>1, NegotiationAlways, PTL

\* Whatever the peer and the relay did meanwhile, a page makes its connection
\* with the configuration its own fetch came to, and never with the fallback
\* because a message was early (connection.ts:41).
THEOREM ConfigIsAwaited == Spec => []ConfigAwaited
<1>1. NegotiationInv => ConfigAwaited
  BY EngineOf DEF Good, Fetched, ConfigAwaited
<1> QED BY <1>1, NegotiationAlways, PTL

\* However a candidate's arrival falls among the awaits of a page that makes
\* one connection, it is queued, buffered or added, and never lost
\* (queueCandidate, createPeerConnection, receiver.ts:102-108).
THEOREM CandidatesAreKept == Spec => []CandidatesKept
<1>1. NegotiationInv => CandidatesKept
  <2> SUFFICES ASSUME NegotiationInv, NEW p \in Role, Len(eng[p].conns) <= 1
               PROVE  eng[p].heard \subseteq eng[p].early \cup
                        UNION {eng[p].conns[k].buffered \cup eng[p].conns[k].added :
                                 k \in DOMAIN eng[p].conns}
    BY DEF CandidatesKept
  <2>1. Keeping(eng[p]) /\ Typed(eng[p])
    BY EngineOf DEF Good
  <2>2. CASE eng[p].cand = 0
    BY <2>1, <2>2 DEF Keeping
  <2>3. CASE eng[p].cand # 0
    <3>1. eng[p].cand \in DOMAIN eng[p].conns
      BY <2>1, <2>3, ConnsAre DEF Typed
    <3> QED BY <2>1, <2>3, <3>1 DEF Keeping
  <2> QED BY <2>2, <2>3
<1> QED BY <1>1, NegotiationAlways, PTL

LEMMA ToldAlways == Spec => [](NegotiationInv /\ Told)
<1>1. Init => NegotiationInv /\ Told
  BY NegotiationInit DEF Init, Told
<1>2. NegotiationInv /\ Told /\ [Next]_vars => (NegotiationInv /\ Told)'
  <2>1. NegotiatedTwice' => Told'
    BY DEF Told
  <2> QED BY <2>1, NegotiationStep, ToldStep
<1> QED BY <1>1, <1>2, PTL DEF Spec

\* Once a sender that negotiated once is linked, a socket that drops, a
\* peer-left or an expired session does not fail it: only cancel() and its own
\* connection do (sender.ts:266-270).  Nor does a linked receiver fail for them,
\* except by the expiry that a receiver without its offer takes (receiver.ts:159).
THEOREM LinkedOutlivesRelay == Spec => []LinkSurvivesRelay
<1>1. NegotiationInv /\ Told => LinkSurvivesRelay
  <2> SUFFICES ASSUME NegotiationInv, Told, ~NegotiatedTwice PROVE LinkSurvivesRelay
    BY DEF LinkSurvivesRelay
  <2>1. Len(eng["sender"].conns) <= 1
    BY PairOf, ConnsAre DEF NegotiatedTwice
  <2>2. Reached(eng["sender"], eng["receiver"])
    BY <2>1, ReceiverFew
  <2>3. eng["sender"].linked => FailedFor(eng["sender"], eng["sender"].unreachable)
    BY <2>2 DEF Reached, Past
  <2>4. eng["receiver"].linked =>
          FailedFor(eng["receiver"], eng["receiver"].unreachable \/ ExpiredWaiting)
    BY <2>2 DEF Reached, Kept, FailedFor, ExpiredWaiting, Told, Offered
  <2> QED BY <2>3, <2>4 DEF LinkSurvivesRelay, FailedFor, Role
<1> QED BY <1>1, ToldAlways, PTL

\* Every session implements Rendezvous: no connection is formed with somebody
\* gone, nobody is linked twice or before it is formed, and no outcome is ever
\* taken back, however sockets, messages and promises interleave.
THEOREM SessionImplementsRendezvous == Spec => ImplementsRendezvous
<1>1. Init => R!Init
  <2> SUFFICES ASSUME Init PROVE R!Init
    OBVIOUS
  <2>1. /\ eng["sender"].conns = <<>> /\ Len(eng["sender"].conns) = 0
        /\ \A p \in Role : SideOf(eng[p]) = "out"
    BY EmptySeq DEF Init, NewEngine, Role, SideOf, Ended, Stopped
  <2>2. (\A p \in Role : Side(p) = "out") /\ ~Formed
    BY <2>1, SideIs DEF FormedBy
  <2>3. Formed \in BOOLEAN
    BY DEF Formed
  <2> QED BY <2>2, <2>3 DEF R!Init, R!Role, Role
<1>2. Seen => [R!Next]_<<[p \in Role |-> Side(p)], Formed>>
  BY DEF Seen
<1>3. UNCHANGED vars => UNCHANGED <<[p \in Role |-> Side(p)], Formed>>
  <2> SUFFICES ASSUME UNCHANGED vars PROVE UNCHANGED <<[p \in Role |-> Side(p)], Formed>>
    OBVIOUS
  <2>1. (\A q \in Role : Side(q)' = Side(q)) /\ Formed' = Formed
    BY DEF vars, Side, Formed, NegotiatedTwice, Ended, Stopped
  <2> QED BY <2>1
<1> QED BY <1>1, <1>2, <1>3, NegotiationAlways, PTL DEF Spec, ImplementsRendezvous, R!Spec

-----------------------------------------------------------------------------
(* a cancelled engine is quiet *)

Silent(e) == e.cancelled /\ Settled(e) /\ e.state # "creating"

LEMMA SilentFacts ==
  ASSUME NegotiationInv, NEW p \in Role, Silent(eng[p])
  PROVE  /\ eng[p].state \notin {"idle", "creating"}
         /\ eng[p].chan.ws = "none" /\ ~eng[p].chan.timer
         /\ \A k \in DOMAIN eng[p].conns :
              eng[p].conns[k].shut /\ eng[p].conns[k].phase \in Said
BY EngineOf DEF Silent, Settled, Said, Good, Begun, NewEngine, Sound

LEMMA OthersTurn ==
  ASSUME NegotiationInv, NEW p \in Role, NEW q \in Role, NEW n, NEW left, NEW msgs,
         Becomes(q, n, left, msgs), q = p => n.state = eng[p].state
  PROVE  eng'[p].state = eng[p].state
BY BecomesShape

\* Of the steps of page q, those of a silent page do not change its state.
LEMMA SilentPage ==
  ASSUME NegotiationInv, NEW p \in Role, Silent(eng[p]), NEW q \in Role,
         \/ Dials(q) \/ Blip(q) \/ TimerFires(q) \/ Receive(q) \/ IceSettles(q) \/ Awaits(q)
         \/ Cancel(q) \/ \E k \in DOMAIN eng[q].conns : Unreachable(q, k)
  PROVE  eng'[p].state = eng[p].state
<1>1. \A n : Turns(q, n) /\ (q = p => n.state = eng[p].state) => eng'[p].state = eng[p].state
  BY OthersTurn DEF Turns
<1>2. CASE q # p
  <2>1. \E n, left, msgs : Becomes(q, n, left, msgs)
    BY DEF Dials, DialAccepted, DialRefused, DialAborted, Blip, TimerFires, Receive, IceSettles,
           Awaits, Described, Trickle, AnswerApplied, SenderOpens, OfferApplied, ReceiverOpens,
           ManifestArrives, Cancel, Unreachable, Turns
  <2> QED BY <1>2, <2>1, OthersTurn
<1>3. CASE q = p
  <2>1. ~(Dials(q) \/ Blip(q) \/ TimerFires(q) \/ Receive(q) \/ Cancel(q))
    BY <1>3, SilentFacts
       DEF Dials, DialAccepted, DialRefused, DialAborted, Blip, TimerFires, Receive, Cancel,
           Online, Silent
  <2>2. \A k \in DOMAIN eng[q].conns : ~Unreachable(q, k)
    BY <1>3, SilentFacts DEF Unreachable
  <2>3. CASE IceSettles(q)
    <3>1. Turns(q, Configured(eng[q], q, ice'[q]))
      BY <2>3 DEF IceSettles
    <3>2. Configured(eng[q], q, ice'[q]) = eng[q]
      BY <1>3, SilentFacts DEF Configured, Waiting, Said
    <3> QED BY <1>1, <1>3, <3>1, <3>2
  <2>4. CASE Awaits(q)
    <3>1. PICK k \in DOMAIN eng[q].conns :
            \/ Described(q, k) \/ Trickle(q, k)
            \/ q = "sender" /\ (AnswerApplied(k) \/ SenderOpens(k))
            \/ q = "receiver" /\ (OfferApplied(k) \/ ReceiverOpens(k) \/ ManifestArrives(k))
      BY <2>4 DEF Awaits
    <3> QED BY <1>3, <3>1, SilentFacts
            DEF Described, Trickle, AnswerApplied, SenderOpens, OfferApplied, ReceiverOpens,
                ManifestArrives, Said
  <2> QED BY <2>1, <2>2, <2>3, <2>4
<1> QED BY <1>2, <1>3

LEMMA SilentStep ==
  ASSUME NegotiationInv, [Next]_vars, NEW p \in Role, Silent(eng[p])
  PROVE  eng'[p].state = eng[p].state
<1>1. eng[p].state \notin {"idle", "creating"}
  BY SilentFacts
<1>2. CASE Begin \/ SessionCreated \/ CreateFails \/ Open
  <2>1. p = "receiver" \/ ~(Begin \/ SessionCreated \/ CreateFails)
    BY <1>1 DEF Begin, SessionCreated, CreateFails, Creating, Role
  <2>2. p = "sender" \/ ~Open
    BY <1>1 DEF Open, Role
  <2>3. "sender" \in Role /\ "receiver" \in Role /\ "sender" # "receiver"
    BY DEF Role
  <2>4. Begin \/ SessionCreated \/ CreateFails => \E n : Turns("sender", n)
    BY DEF Begin, SessionCreated, CreateFails
  <2>5. Open => \E n : Turns("receiver", n)
    BY DEF Open
  <2> QED BY <1>2, <2>1, <2>2, <2>3, <2>4, <2>5, OthersTurn DEF Turns
<1>3. CASE Connects
  <2>1. PICK i \in DOMAIN eng["sender"].conns, j \in DOMAIN eng["receiver"].conns : Connect(i, j)
    BY <1>3 DEF Connects
  <2>2. /\ eng["sender"].conns[i].phase = "wait" /\ ~eng["sender"].conns[i].shut
        /\ eng["receiver"].conns[j].phase = "wait" /\ ~eng["receiver"].conns[j].shut
    BY <2>1 DEF Connect, Matched
  <2> QED BY <2>2, SilentFacts DEF Role
<1>4. CASE Expire \/ (\E q \in Role : Greet(q) \/ Depart(q)) \/ UNCHANGED vars
  BY <1>4 DEF Expire, Greet, Depart, vars
<1>5. CASE \E q \in Role : \/ Dials(q) \/ Blip(q) \/ TimerFires(q) \/ Receive(q)
                           \/ IceSettles(q) \/ Awaits(q) \/ Cancel(q)
                           \/ \E k \in DOMAIN eng[q].conns : Unreachable(q, k)
  BY <1>5, SilentPage
<1> QED BY <1>2, <1>3, <1>4, <1>5 DEF Next

\* Once cancel() was called and its own promises have settled, nothing that
\* still happens to an engine (a retry, a message, a late description, a
\* connection event) reaches its page (page.tsx:86).
THEOREM CancelledStaysQuiet == Spec => CancelledIsQuiet
<1> DEFINE A == \A p \in Role : eng[p].cancelled /\ Settled(eng[p]) /\ eng[p].state # "creating"
                                  => eng'[p].state = eng[p].state
<1>1. NegotiationInv /\ [Next]_vars => A
  BY SilentStep DEF Silent
<1> HIDE DEF A
<1>2. Spec => [][A]_vars
  BY <1>1, NegotiationAlways, PTL DEF Spec
<1> QED BY <1>2 DEF CancelledIsQuiet, A
=============================================================================
