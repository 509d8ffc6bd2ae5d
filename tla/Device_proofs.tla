---------------------------- MODULE Device_proofs ----------------------------
(***************************************************************************)
(* What a tab guarantees whatever is sent, offered and on the disk: the    *)
(* screen is held awake while a transfer moves, nobody's file is silently  *)
(* replaced, a file whose row is ticked is there, whatever fails later,    *)
(* and a complete batch is ticked; a batch accepted into memory fits; the  *)
(* readout counts what was written, and rates it by the window it says; an *)
(* outcome shown is in the history; and what is offered can be read.       *)
(***************************************************************************)
EXTENDS Device, SequenceTheorems, FiniteSetTheorems, WellFoundedInduction, TLAPS

-----------------------------------------------------------------------------
(* the wake lock *)

GuardOK ==
  guard \in [on : BOOLEAN, sentinel : {"none", "live", "released"}, asked : BOOLEAN,
             refused : BOOLEAN]

AwakeInv == GuardOK /\ AwakeWhileMoving

\* The ends of a failure.
Lost == {"failed", "senderGone", "expired"}

\* A MANIFEST that parses, and one that does not.
OfferRead ==
  /\ rState = "waiting" /\ ~left
  /\ \E m \in Offers :
       /\ Parses(m)
       /\ manifest' = Read(m) /\ rows' = [k \in DOMAIN m.files |-> "queued"]
       /\ Emitted("offered", Read(m))
  /\ UNCHANGED <<aborted, phase, sink, disk, torn, fileVars, browser, refused, left, chosen, raced,
                 strangers, meterVars>>

OfferUnread ==
  /\ rState = "waiting" /\ ~left
  /\ Fails("failed", sink, phase)
  /\ UNCHANGED <<fileVars, placeVars, meterVars>>

LEMMA OfferCases == Offered => OfferRead \/ OfferUnread
BY DEF Offered, OfferRead, OfferUnread, fileVars, placeVars, meterVars

LEMMA LossesOK == ASSUME NEW s PROVE Losses(s) \subseteq Lost
BY DEF Losses, Lost

\* A render keeps the lock in step with what it puts on the screen.
LEMMA RenderKeeps ==
  ASSUME AwakeInv, NEW v, NEW active \in BOOLEAN, NEW tells, Renders(v, active, tells),
         active <=> Moving(v) /\ ~v.paused
  PROVE  AwakeInv'
<1>1. view' = v /\ hidden' = hidden /\ guard' = Guarded(guard, active)
  BY DEF Renders
<1>2. CASE active = guard.on
  BY <1>1, <1>2 DEF AwakeInv, GuardOK, AwakeWhileMoving, Guarded, Moving
<1>3. CASE active # guard.on /\ active
  BY <1>1, <1>3 DEF AwakeInv, GuardOK, AwakeWhileMoving, Guarded, Acquire, Moving
<1>4. CASE active # guard.on /\ ~active
  BY <1>1, <1>4 DEF AwakeInv, GuardOK, AwakeWhileMoving, Guarded, Moving
<1> QED BY <1>2, <1>3, <1>4

LEMMA StillKeeps ==
  ASSUME AwakeInv, UNCHANGED <<view, hidden, guard>>
  PROVE  AwakeInv'
BY DEF AwakeInv, GuardOK, AwakeWhileMoving, Moving

\* A snapshot of the sender.
LEMMA EmitKeeps ==
  ASSUME AwakeInv, NEW i, NEW e, Emits(i, e)
  PROVE  AwakeInv'
<1> DEFINE active == Moving(e) /\ ~e.paused
<1>1. active \in BOOLEAN /\ (active <=> Moving(Shown(i, e)) /\ ~Shown(i, e).paused)
  BY DEF Moving, Shown
<1>2. Renders(Shown(i, e), active, {"complete", "failed"})
  BY DEF Emits
<1> QED BY <1>1, <1>2, RenderKeeps

\* A snapshot of the receiver.
LEMMA REmitKeeps ==
  ASSUME AwakeInv, NEW s, s # "transferring", NEW files, Emitted(s, files)
  PROVE  AwakeInv'
<1>1. CASE left
  BY <1>1, StillKeeps DEF Emitted, shellVars
<1>2. CASE ~left
  <2> DEFINE v == [of |-> 1, state |-> s, paused |-> FALSE, listed |-> files # <<>>]
  <2>1. RMoving(s) \in BOOLEAN /\ (RMoving(s) <=> Moving(v) /\ ~v.paused)
    BY DEF RMoving, Moving
  <2>2. Renders(v, RMoving(s), {"complete"})
    BY <1>2 DEF Emitted
  <2> HIDE DEF v
  <2> QED BY <2>1, <2>2, RenderKeeps
<1> QED BY <1>1, <1>2

LEMMA FailKeeps ==
  ASSUME AwakeInv, NEW s \in Lost, NEW n, NEW p, Fails(s, n, p)
  PROVE  AwakeInv'
<1>1. CASE Immune
  BY <1>1, StillKeeps DEF Fails, shellVars
<1>2. CASE ~Immune
  BY <1>2, REmitKeeps DEF Fails, REmits, Lost
<1> QED BY <1>1, <1>2

LEMMA BlankKeeps ==
  ASSUME AwakeInv, Renders(NoView, FALSE, {})
  PROVE  AwakeInv'
<1>1. FALSE <=> Moving(NoView) /\ ~NoView.paused
  BY DEF Moving, NoView
<1> QED BY <1>1, RenderKeeps

LEMMA SurroundingsKeep ==
  ASSUME AwakeInv, Surroundings
  PROVE  AwakeInv'
<1> USE DEF AwakeInv, GuardOK, AwakeWhileMoving, Moving
<1>1. CASE LockGranted BY <1>1 DEF LockGranted
<1>2. CASE LockRefused BY <1>2 DEF LockRefused
<1>3. CASE Hide BY <1>3 DEF Hide
<1>4. CASE Show BY <1>4 DEF Show, Returned
<1> QED BY <1>1, <1>2, <1>3, <1>4 DEF Surroundings

LEMMA StagingKeeps ==
  ASSUME AwakeInv, StagingNext
  PROVE  AwakeInv'
<1> USE DEF shellVars
<1>1. CASE Pick \/ Drop \/ WalkEnds \/ Unstage \/ ClearStaged \/ ClearHistory \/ AskToNotify
  BY <1>1, StillKeeps DEF Pick, Drop, WalkEnds, Unstage, ClearStaged, ClearHistory, AskToNotify
<1>2. CASE Send
  <2> DEFINE e == [state |-> IF Startable(staged) THEN "creating" ELSE "failed",
                   paused |-> FALSE, batch |-> staged, cancelled |-> "no"]
  <2>1. Renders(Shown(ref', e), FALSE, {"complete", "failed"})
    BY <1>2 DEF Send
  <2>2. FALSE <=> Moving(Shown(ref', e)) /\ ~Shown(ref', e).paused
    BY DEF Moving, Shown
  <2> HIDE DEF e
  <2> QED BY <2>1, <2>2, RenderKeeps
<1>3. CASE PauseOrResume
  BY <1>3, EmitKeeps DEF PauseOrResume
<1>4. CASE Reset
  BY <1>4, BlankKeeps DEF Reset
<1>5. ASSUME NEW i, Reports(i) PROVE AwakeInv'
  BY <1>5, EmitKeeps DEF Reports
<1> QED BY <1>1, <1>2, <1>3, <1>4, <1>5 DEF StagingNext

LEMMA SavingKeeps ==
  ASSUME AwakeInv, SavingNext
  PROVE  AwakeInv'
<1> USE DEF shellVars
<1>1. CASE Accept \/ PickName \/ PickFolder \/ Look \/ Create \/ Opens \/ Matches \/ Closes \/ Stranger
            \/ TimePasses
  BY <1>1, StillKeeps
  DEF Accept, PickName, PickFolder, Look, Create, Opens, Matches, Closes, Stranger, TimePasses
<1>2. CASE OfferRead \/ Decline \/ Verifies \/ Completes
  BY <1>2, REmitKeeps DEF OfferRead, Decline, Verifies, Completes, REmits
<1>3. CASE OfferUnread \/ AcceptAgain \/ OpenFails \/ WriteFails \/ Mismatches \/ Breaks
  <2>1. \E s \in Lost, p \in {phase, "idle"} : Fails(s, sink, p)
    BY <1>3, LossesOK
    DEF OfferUnread, AcceptAgain, OpenFails, WriteFails, Mismatches, Breaks, Lost
  <2> QED BY <2>1, FailKeeps
<1>4. CASE Dismiss
  BY <1>4, FailKeeps, StillKeeps DEF Dismiss, Lost
<1>5. CASE HasherReady
  BY <1>5, REmitKeeps, StillKeeps DEF HasherReady, REmits
<1>6. CASE Piece
  BY <1>6, FailKeeps, StillKeeps DEF Piece, Lost
<1>7. CASE CloseFails
  BY <1>7, REmitKeeps, StillKeeps DEF CloseFails, REmits
<1>8. CASE Leave
  BY <1>8, BlankKeeps DEF Leave
<1> QED BY <1>1, <1>2, <1>3, <1>4, <1>5, <1>6, <1>7, <1>8, OfferCases DEF SavingNext

LEMMA AwakeStep == AwakeInv /\ [Next]_vars => AwakeInv'
<1> SUFFICES ASSUME AwakeInv, [Next]_vars PROVE AwakeInv'
  OBVIOUS
<1>1. CASE StagingNext BY <1>1, StagingKeeps
<1>2. CASE SavingNext BY <1>2, SavingKeeps
<1>3. CASE Surroundings BY <1>3, SurroundingsKeep
<1>4. CASE UNCHANGED vars BY <1>4, StillKeeps DEF vars, shellVars
<1> QED BY <1>1, <1>2, <1>3, <1>4 DEF Next

\* While a transfer moves on a page that is shown, the screen is held awake, or
\* is being asked for, or was refused (useTransferGuards.ts:47), whatever the
\* order of renders, answers of the platform, and hiding and showing the page.
THEOREM ScreenStaysAwake == Spec => []AwakeWhileMoving
<1>1. Init => AwakeInv
  BY DEF Init, ShellInit, AwakeInv, GuardOK, AwakeWhileMoving, NoGuard, NoView, Moving
<1>2. AwakeInv => AwakeWhileMoving
  BY DEF AwakeInv
<1> QED BY <1>1, <1>2, AwakeStep, PTL DEF Spec

-----------------------------------------------------------------------------
(* the files of others *)

\* The name is the user's choice, or was free and then taken by another program.
Excused(n) == n \in chosen \cup raced

\* What is on disk under the name may be replaced, and nobody else can take it.
Held(n) == n \in DiskName => Excused(n) \/ disk[n] \notin {Absent, Theirs}

DiskOK ==
  /\ disk = [n \in DiskName |-> disk[n]]
  /\ index \in Nat \ {0}
  /\ \A n \in DiskName : n.copy > MaxCopies => disk[n] # Theirs

\* What is open, or about to be, is held.
SinkHeld == Held(sink)
TargetHeld ==
  /\ phase = "opening" => Held(target)
  /\ phase \in {"checking", "closing"} /\ dest # "memory" => Held(target)
NotTheirs ==
  phase = "creating" /\ target \in DiskName => Excused(target) \/ disk[target] # Theirs

\* Only the file being received has a sink, and it is the one that was opened.
NoSinkYet == phase \in {"picking", "looking", "creating", "opening"} => sink \notin DiskName
SinkIsTarget ==
  /\ phase = "hasher" /\ dest # "memory" => sink = target
  /\ phase = "ready" /\ dest # "memory" /\ ~aborted /\ ~left => sink = target

\* Nothing is open behind an offer that can still be accepted.
OfferIsFresh ==
  /\ rState = "waiting" => phase = "idle" /\ sink \notin DiskName
  /\ rState = "offered" /\ phase = "idle" => sink \notin DiskName
  /\ aborted => rState \notin {"waiting", "offered"}

TheirsInv ==
  /\ DiskOK /\ SinkHeld /\ TargetHeld /\ NotTheirs /\ NoSinkYet /\ SinkIsTarget /\ OfferIsFresh

\* What one step does to the files of others.
Spared == \A n \in DiskName : disk[n] = Theirs /\ disk'[n] # Theirs => Excused(n)

LEMMA NamesOK == NoName \notin DiskName /\ InMemory \notin DiskName
BY SavingAssumption DEF NoName, InMemory

LEMMA ContentsOK ==
  /\ Absent # Theirs
  /\ \A k : Ours(k) \notin {Absent, Theirs}
  /\ [Absent EXCEPT !.is = "empty"] \notin {Absent, Theirs}
  /\ Theirs.is = "theirs" /\ Absent.is = "absent"
BY DEF Absent, Theirs, Ours

\* An abort removes at most the file of the sink.
LEMMA RemovedOK ==
  ASSUME DiskOK, NEW n, NEW d \in Removed(disk, n)
  PROVE  /\ d = [m \in DiskName |-> d[m]]
         /\ \A m \in DiskName : d[m] = disk[m] \/ (m = n /\ d[m] = Absent)
BY DEF DiskOK, Removed

\* Steps that touch neither the disk nor what is open.
sinkVars == <<rState, aborted, left, phase, index, target, dest, sink, disk, chosen, raced>>

LEMMA StillSpares ==
  ASSUME TheirsInv, UNCHANGED sinkVars
  PROVE  TheirsInv' /\ Spared
BY DEF TheirsInv, DiskOK, SinkHeld, TargetHeld, NotTheirs, NoSinkYet, SinkIsTarget, OfferIsFresh,
       Held, Excused, Spared, sinkVars

\* An abort, by fail() or by cancel().
LEMMA AbortSpares ==
  ASSUME TheirsInv, NEW p \in {phase, "idle"},
         AbortSink(sink), sink' = NoName, phase' = Stopped(p),
         UNCHANGED <<index, target, dest, chosen, raced>>,
         aborted' \/ left'
  PROVE  /\ DiskOK' /\ SinkHeld' /\ TargetHeld' /\ NotTheirs' /\ NoSinkYet' /\ SinkIsTarget'
         /\ Spared
<1>1. \A m \in DiskName : disk'[m] = disk[m] \/ (m = sink /\ disk'[m] = Absent)
  BY RemovedOK DEF AbortSink, TheirsInv
<1>2. disk' = [m \in DiskName |-> disk'[m]]
  BY RemovedOK DEF AbortSink, TheirsInv, DiskOK
<1>3. DiskOK'
  BY <1>1, <1>2, ContentsOK DEF TheirsInv, DiskOK
<1>4. SinkHeld' /\ NoSinkYet'
  BY NamesOK DEF SinkHeld, NoSinkYet, Held
<1>5. Spared
  BY <1>1 DEF Spared, TheirsInv, SinkHeld, Held, Excused
<1>6. TargetHeld'
  <2>1. phase' = "opening" => phase = "opening" /\ disk' = disk
    <3>1. phase' = "opening" => phase = "opening"
      BY DEF Stopped
    <3>2. phase = "opening" => disk' = disk
      BY DEF TheirsInv, NoSinkYet, AbortSink, Removed
    <3> QED BY <3>1, <3>2
  <2>2. phase' # "checking"
    BY DEF Stopped
  <2>3. phase' = "closing" => phase = "closing" /\ disk' = disk
    BY DEF Stopped, AbortSink
  <2> QED BY <2>1, <2>2, <2>3 DEF TheirsInv, TargetHeld, Held, Excused
<1>7. NotTheirs'
  <2>1. phase' = "creating" => phase = "creating"
    BY DEF Stopped
  <2> QED BY <1>1, <2>1, ContentsOK DEF TheirsInv, NotTheirs, Excused
<1>8. SinkIsTarget'
  <2>1. phase' # "hasher"
    BY DEF Stopped
  <2> QED BY <2>1 DEF SinkIsTarget
<1> QED BY <1>3, <1>4, <1>5, <1>6, <1>7, <1>8

LEMMA REmitState == ASSUME NEW s, NEW files, Emitted(s, files) PROVE rState' = s
BY DEF Emitted

LEMMA FailSpares ==
  ASSUME TheirsInv, NEW s \in Lost, NEW p \in {phase, "idle"},
         Fails(s, sink, p), UNCHANGED <<left, index, target, dest, chosen, raced>>
  PROVE  TheirsInv' /\ Spared
<1>1. CASE Immune
  <2>1. phase' = p /\ UNCHANGED <<sink, rState, aborted, disk>> /\ rState \notin {"waiting", "offered"}
    BY <1>1 DEF Fails, Immune, TheirsInv, OfferIsFresh
  <2>2. OfferIsFresh'
    BY <2>1 DEF TheirsInv, OfferIsFresh
  <2>3. DiskOK' /\ Spared
    BY <2>1 DEF TheirsInv, DiskOK, Spared
  <2>4. SinkHeld'
    BY <2>1 DEF TheirsInv, SinkHeld, Held, Excused
  <2>5. TargetHeld' /\ NotTheirs' /\ NoSinkYet' /\ SinkIsTarget'
    BY <2>1 DEF TheirsInv, TargetHeld, NotTheirs, NoSinkYet, SinkIsTarget, Held, Excused
  <2> QED BY <2>2, <2>3, <2>4, <2>5 DEF TheirsInv
<1>2. CASE ~Immune
  <2>1. /\ AbortSink(sink) /\ sink' = NoName /\ phase' = Stopped(p)
        /\ aborted' = TRUE /\ rState' = s
    BY <1>2, REmitState DEF Fails, REmits
  <2>2. OfferIsFresh'
    BY <2>1 DEF OfferIsFresh, Lost
  <2>3. /\ DiskOK' /\ SinkHeld' /\ TargetHeld' /\ NotTheirs' /\ NoSinkYet' /\ SinkIsTarget'
        /\ Spared
    BY <2>1, AbortSpares
  <2> QED BY <2>2, <2>3 DEF TheirsInv
<1> QED BY <1>1, <1>2

LEMMA LeaveSpares ==
  ASSUME TheirsInv, Leave
  PROVE  TheirsInv' /\ Spared
<1>1. /\ AbortSink(sink) /\ sink' = NoName /\ phase' = Stopped(phase) /\ left'
      /\ UNCHANGED <<rState, aborted, index, target, dest, chosen, raced>>
  BY DEF Leave, fileVars
<1>2. /\ DiskOK' /\ SinkHeld' /\ TargetHeld' /\ NotTheirs' /\ NoSinkYet' /\ SinkIsTarget'
      /\ Spared
  BY <1>1, AbortSpares
<1>3. OfferIsFresh'
  BY <1>1, NamesOK DEF TheirsInv, OfferIsFresh, Stopped
<1> QED BY <1>2, <1>3 DEF TheirsInv

\* The offer, and what only the page shows.
LEMMA OfferSpares ==
  ASSUME TheirsInv, OfferRead \/ Decline \/ Verifies \/ Completes
  PROVE  TheirsInv' /\ Spared
<1> USE DEF fileVars, placeVars
<1>1. UNCHANGED <<left, index, target, dest, sink, disk, chosen, raced>>
  BY DEF OfferRead, Decline, Verifies, Completes
<1>2. DiskOK' /\ SinkHeld' /\ Spared
  BY <1>1 DEF TheirsInv, DiskOK, SinkHeld, Held, Excused, Spared
<1>3. CASE OfferRead
  <2>1. rState = "waiting" /\ phase' = phase /\ rState' = "offered" /\ aborted' = aborted
    BY <1>3, REmitState DEF OfferRead
  <2> QED BY <1>1, <1>2, <2>1 DEF TheirsInv, TargetHeld, NotTheirs, NoSinkYet, SinkIsTarget, OfferIsFresh
<1>4. CASE Decline
  <2>1. phase' = Stopped(phase) /\ rState' = "declined" /\ aborted' = aborted
    BY <1>4, REmitState DEF Decline, REmits
  <2> QED BY <1>1, <1>2, <2>1
          DEF TheirsInv, TargetHeld, NotTheirs, NoSinkYet, SinkIsTarget, OfferIsFresh, Stopped,
              Held, Excused
<1>5. CASE Verifies \/ Completes
  <2>1. UNCHANGED <<phase, aborted>> /\ rState' \in {"verifying", "complete"}
    BY <1>5, REmitState DEF Verifies, Completes, REmits
  <2> QED BY <1>1, <1>2, <2>1
          DEF TheirsInv, TargetHeld, NotTheirs, NoSinkYet, SinkIsTarget, OfferIsFresh, Held, Excused
<1> QED BY <1>3, <1>4, <1>5

\* The destination is chosen.
LEMMA ChoiceSpares ==
  ASSUME TheirsInv, Accept \/ PickFolder \/ PickName
  PROVE  TheirsInv' /\ Spared
<1> USE DEF fileVars, placeVars
<1>1. CASE Accept
  <2>1. /\ rState = "offered" /\ phase = "idle" /\ sink \notin DiskName
        /\ UNCHANGED <<left, aborted, rState, index, target, disk, chosen, raced>>
    BY <1>1 DEF Accept, Acceptable, TheirsInv, OfferIsFresh
  <2>2. \/ dest' = "memory" /\ sink' = InMemory /\ phase' = "hasher"
        \/ phase' = "picking" /\ sink' = sink
    BY <1>1 DEF Accept
  <2> QED BY <2>1, <2>2, NamesOK
          DEF TheirsInv, DiskOK, SinkHeld, TargetHeld, NotTheirs, NoSinkYet, SinkIsTarget,
              OfferIsFresh, Held, Excused, Spared
<1>2. CASE PickFolder
  BY <1>2 DEF PickFolder, TheirsInv, DiskOK, SinkHeld, TargetHeld, NotTheirs, NoSinkYet,
              SinkIsTarget, OfferIsFresh, Held, Excused, Spared
<1>3. CASE PickName
  <2>1. PICK n \in DiskName :
          /\ target' = n /\ chosen' = chosen \cup {n}
          /\ disk' = IF disk[n] = Absent THEN [disk EXCEPT ![n].is = "empty"] ELSE disk
    BY <1>3 DEF PickName
  <2>2. /\ phase = "picking" /\ phase' = "opening"
        /\ UNCHANGED <<left, aborted, rState, index, sink, raced>>
    BY <1>3 DEF PickName
  <2>3. disk' = [m \in DiskName |-> disk'[m]]
    BY <2>1 DEF TheirsInv, DiskOK
  <2>4. \A m \in DiskName : \/ disk'[m] = disk[m]
                            \/ disk[m] = Absent /\ disk'[m] = [Absent EXCEPT !.is = "empty"]
    BY <2>1 DEF TheirsInv, DiskOK
  <2>5. DiskOK' /\ Spared
    BY <2>2, <2>3, <2>4, ContentsOK DEF TheirsInv, DiskOK, Spared
  <2>6. SinkHeld' /\ NoSinkYet'
    BY <2>2 DEF TheirsInv, SinkHeld, NoSinkYet, Held
  <2>7. TargetHeld'
    BY <2>1, <2>2 DEF TargetHeld, Held, Excused
  <2>8. NotTheirs' /\ SinkIsTarget' /\ OfferIsFresh'
    BY <2>2 DEF TheirsInv, NotTheirs, SinkIsTarget, OfferIsFresh
  <2> QED BY <2>5, <2>6, <2>7, <2>8 DEF TheirsInv
<1> QED BY <1>1, <1>2, <1>3

\* A file is opened.
LEMMA OpenSpares ==
  ASSUME TheirsInv, Look \/ Create \/ Opens \/ HasherReady
  PROVE  TheirsInv' /\ Spared
<1> USE DEF fileVars, placeVars
<1>1. CASE Look
  <2>1. /\ phase = "looking"
        /\ UNCHANGED <<left, aborted, rState, index, dest, sink, disk, chosen, raced>>
    BY <1>1 DEF Look
  <2>2. CASE phase' = phase /\ target' = target
    BY <2>1, <2>2 DEF TheirsInv, DiskOK, SinkHeld, TargetHeld, NotTheirs, NoSinkYet, SinkIsTarget,
                      OfferIsFresh, Held, Excused, Spared
  <2>3. CASE phase' = "creating" /\ \E i : target' = Candidate(index, i) /\ i \in {copy, MaxCopies + index}
    <3>1. target' \in DiskName => disk[target'] # Theirs
      <4>1. CASE copy <= MaxCopies
        <5>1. target' = Candidate(index, copy) /\ ~InUse(target')
          BY <1>1, <2>1, <2>3, <4>1 DEF Look
        <5> QED BY <5>1, ContentsOK DEF InUse
      <4>2. CASE ~(copy <= MaxCopies)
        <5>1. target' = Candidate(index, MaxCopies + index)
          BY <1>1, <2>1, <2>3, <4>2 DEF Look
        <5>2. target'.copy = MaxCopies + index /\ MaxCopies + index > MaxCopies
          BY <5>1, SavingAssumption DEF Candidate, TheirsInv, DiskOK
        <5> QED BY <5>2 DEF TheirsInv, DiskOK
      <4> QED BY <4>1, <4>2
    <3> QED BY <2>1, <2>3, <3>1
            DEF TheirsInv, DiskOK, SinkHeld, TargetHeld, NotTheirs, NoSinkYet, SinkIsTarget,
                OfferIsFresh, Held, Excused, Spared
  <2> QED BY <1>1, <2>2, <2>3 DEF Look
<1>2. CASE Create
  <2>1. /\ phase = "creating" /\ phase' = "opening" /\ sink \notin DiskName
        /\ UNCHANGED <<left, aborted, rState, index, target, dest, sink, chosen, raced>>
        /\ disk' = IF disk[target] = Absent THEN [disk EXCEPT ![target].is = "empty"] ELSE disk
    BY <1>2 DEF Create, TheirsInv, NoSinkYet
  <2>2. disk' = [m \in DiskName |-> disk'[m]]
    BY <2>1 DEF TheirsInv, DiskOK
  <2>3. \A m \in DiskName : \/ disk'[m] = disk[m] /\ (m = target => disk[m] # Absent)
                            \/ disk[m] = Absent /\ disk'[m] = [Absent EXCEPT !.is = "empty"]
    BY <2>1 DEF TheirsInv, DiskOK
  <2>4. DiskOK' /\ Spared
    BY <2>1, <2>2, <2>3, ContentsOK DEF TheirsInv, DiskOK, Spared
  <2>5. TargetHeld'
    BY <2>1, <2>3, ContentsOK DEF TheirsInv, TargetHeld, NotTheirs, Held, Excused
  <2> QED BY <2>1, <2>4, <2>5
          DEF TheirsInv, SinkHeld, NotTheirs, NoSinkYet, SinkIsTarget, OfferIsFresh, Held
<1>3. CASE Opens
  BY <1>3 DEF Opens, TheirsInv, DiskOK, SinkHeld, TargetHeld, NotTheirs, NoSinkYet,
              SinkIsTarget, OfferIsFresh, Held, Excused, Spared
<1>4. CASE HasherReady
  <2>1. /\ phase = "hasher" /\ phase' = "ready" /\ (rState' = rState \/ rState' = "receiving")
        /\ UNCHANGED <<left, aborted, index, target, dest, sink, disk, chosen, raced>>
    BY <1>4, REmitState DEF HasherReady, REmits
  <2> QED BY <2>1
          DEF TheirsInv, DiskOK, SinkHeld, TargetHeld, NotTheirs, NoSinkYet, SinkIsTarget,
              OfferIsFresh, Held, Excused, Spared
<1> QED BY <1>1, <1>2, <1>3, <1>4

\* A file is received and checked.
LEMMA PieceSpares ==
  ASSUME TheirsInv, Piece
  PROVE  TheirsInv' /\ Spared
<1> USE DEF placeVars
<1>1. /\ phase = "ready" /\ ~aborted /\ ~left
      /\ UNCHANGED <<index, target, dest, chosen, raced, left>>
  BY DEF Piece, Receiving
<1>2. CASE Fails("failed", sink, "idle")
  BY <1>1, <1>2, FailSpares DEF Lost
<1>3. CASE phase' \in {"checking", "ready"} /\ UNCHANGED <<rState, aborted, sink, disk>>
  <2>1. dest # "memory" => Held(target)
    BY <1>1 DEF TheirsInv, SinkHeld, SinkIsTarget
  <2> QED BY <1>1, <1>3, <2>1
          DEF TheirsInv, DiskOK, SinkHeld, TargetHeld, NotTheirs, NoSinkYet, SinkIsTarget,
              OfferIsFresh, Held, Excused, Spared
<1> QED BY <1>2, <1>3 DEF Piece

LEMMA MatchSpares ==
  ASSUME TheirsInv, Matches
  PROVE  TheirsInv' /\ Spared
BY DEF Matches, fileVars, placeVars, TheirsInv, DiskOK, SinkHeld, TargetHeld, NotTheirs, NoSinkYet,
       SinkIsTarget, OfferIsFresh, Held, Excused, Spared

\* A file is closed: whatever the disk comes to, only the target changes.
LEMMA CloseSpares ==
  ASSUME TheirsInv, Closes \/ CloseFails
  PROVE  TheirsInv' /\ Spared
<1> USE DEF fileVars, placeVars
<1>1. phase = "closing" /\ UNCHANGED <<left, target, dest, chosen, raced>>
  BY DEF Closes, CloseFails
<1>2. sink' \notin DiskName
  BY NamesOK DEF Closes, CloseFails, NextSink
<1>3. index' \in Nat \ {0}
  BY DEF Closes, CloseFails, TheirsInv, DiskOK
<1>4. /\ disk' = [m \in DiskName |-> disk'[m]]
      /\ \A m \in DiskName : \/ disk'[m] = disk[m]
                             \/ m = target /\ dest # "memory" /\ disk'[m] # Theirs
  <2>1. CASE Closes /\ dest = "memory"
    BY <2>1 DEF Closes, TheirsInv, DiskOK
  <2>2. CASE Closes /\ dest # "memory"
    <3> DEFINE saved == [disk EXCEPT ![target] = Ours(index)]
    <3>1. /\ saved = [m \in DiskName |-> saved[m]]
          /\ \A m \in DiskName : saved[m] = disk[m] \/ (m = target /\ saved[m] = Ours(index))
      BY DEF TheirsInv, DiskOK
    <3>2. disk' \in Removed(saved, target) \cup {saved}
      BY <2>2 DEF Closes
    <3>3. /\ disk' = [m \in DiskName |-> disk'[m]]
          /\ \A m \in DiskName : disk'[m] = saved[m] \/ (m = target /\ disk'[m] = Absent)
      <4> HIDE DEF saved
      <4> QED BY <3>1, <3>2 DEF Removed
    <3> HIDE DEF saved
    <3> QED BY <2>2, <3>1, <3>3, ContentsOK
  <2>3. CASE CloseFails
    <3>1. disk' \in Removed(disk, target) \cup {disk}
      BY <2>3 DEF CloseFails
    <3>2. DiskOK
      BY DEF TheirsInv
    <3>3. disk' # disk => dest = "directory" /\ disk' \in Removed(disk, target)
      BY <3>1 DEF Removed
    <3> QED BY <3>2, <3>3, RemovedOK, ContentsOK DEF DiskOK
  <2> QED BY <2>1, <2>2, <2>3
<1>5. DiskOK'
  BY <1>3, <1>4 DEF TheirsInv, DiskOK
<1>6. Spared
  BY <1>1, <1>4 DEF Spared, TheirsInv, TargetHeld, Held
<1>7. /\ phase' \in {"idle", "hasher", "looking", "picking"}
      /\ phase' = "hasher" => dest = "memory"
  BY DEF Closes, CloseFails, Begins
<1>8. SinkHeld' /\ TargetHeld' /\ NotTheirs' /\ NoSinkYet' /\ SinkIsTarget'
  BY <1>1, <1>2, <1>7 DEF SinkHeld, TargetHeld, NotTheirs, NoSinkYet, SinkIsTarget, Held
<1>9. OfferIsFresh'
  <2>1. \/ rState' = rState /\ aborted' = aborted
        \/ rState' = "failed"
    BY REmitState DEF Closes, CloseFails, REmits
  <2> QED BY <1>1, <1>2, <2>1 DEF TheirsInv, OfferIsFresh
<1> QED BY <1>5, <1>6, <1>8, <1>9 DEF TheirsInv

\* Another program takes no name that is held.
LEMMA StrangerSpares ==
  ASSUME TheirsInv, Stranger
  PROVE  TheirsInv' /\ Spared
<1>1. PICK n \in DiskName :
        /\ disk[n] = Absent /\ n.copy <= MaxCopies
        /\ disk' = [disk EXCEPT ![n] = Theirs]
        /\ raced' = IF phase = "creating" /\ n = target THEN raced \cup {n} ELSE raced
  BY DEF Stranger
<1>2. UNCHANGED <<rState, aborted, left, phase, index, target, dest, sink, chosen>>
  BY DEF Stranger, fileVars
<1>3. /\ disk' = [m \in DiskName |-> disk'[m]]
      /\ \A m \in DiskName : disk'[m] = IF m = n THEN Theirs ELSE disk[m]
  BY <1>1 DEF TheirsInv, DiskOK
<1>4. ~(n.copy > MaxCopies)
  BY <1>1, SavingAssumption
<1>5. DiskOK' /\ Spared
  BY <1>1, <1>2, <1>3, <1>4 DEF TheirsInv, DiskOK, Spared
<1>6. \A m : Held(m) => Held(m)'
  BY <1>1, <1>2, <1>3 DEF Held, Excused
<1>7. SinkHeld' /\ TargetHeld'
  BY <1>2, <1>6 DEF TheirsInv, SinkHeld, TargetHeld, Held, Excused
<1>8. NotTheirs'
  BY <1>1, <1>2, <1>3 DEF TheirsInv, NotTheirs, Excused
<1>9. NoSinkYet' /\ SinkIsTarget' /\ OfferIsFresh'
  BY <1>2 DEF TheirsInv, NoSinkYet, SinkIsTarget, OfferIsFresh
<1> QED BY <1>5, <1>7, <1>8, <1>9 DEF TheirsInv

LEMMA FailuresSpare ==
  ASSUME TheirsInv,
         OfferUnread \/ AcceptAgain \/ Dismiss \/ OpenFails \/ WriteFails \/ Mismatches \/ Breaks
  PROVE  TheirsInv' /\ Spared
<1>1. UNCHANGED <<left, index, target, dest, chosen, raced>>
  BY DEF OfferUnread, AcceptAgain, Dismiss, OpenFails, WriteFails, Mismatches, Breaks, fileVars,
         placeVars
<1>2. CASE \E s \in Lost, p \in {phase, "idle"} : Fails(s, sink, p)
  BY <1>1, <1>2, FailSpares
<1>3. CASE Dismiss /\ dest # "perFile"
  BY <1>1, <1>3
  DEF Dismiss, TheirsInv, DiskOK, SinkHeld, TargetHeld, NotTheirs, NoSinkYet, SinkIsTarget,
      OfferIsFresh, Held, Excused, Spared
<1> QED BY <1>2, <1>3, LossesOK
        DEF OfferUnread, AcceptAgain, Dismiss, OpenFails, WriteFails, Mismatches, Breaks, Lost

LEMMA TheirsStep == TheirsInv /\ [Next]_vars => TheirsInv' /\ Spared
<1> SUFFICES ASSUME TheirsInv, [Next]_vars PROVE TheirsInv' /\ Spared
  OBVIOUS
<1>1. CASE SavingNext
  <2>1. CASE TimePasses
    BY <2>1, StillSpares DEF TimePasses, fileVars, placeVars, sinkVars
  <2> QED BY <1>1, <2>1, OfferCases, OfferSpares, ChoiceSpares, OpenSpares, PieceSpares, MatchSpares,
             CloseSpares, StrangerSpares, FailuresSpare, LeaveSpares
          DEF SavingNext
<1>2. CASE UNCHANGED savingVars
  BY <1>2, StillSpares DEF savingVars, sinkVars
<1>3. CASE UNCHANGED vars
  BY <1>3, StillSpares DEF vars, savingVars, sinkVars
<1> QED BY <1>1, <1>2, <1>3 DEF Next

LEMMA TheirsStart == Init => TheirsInv
<1> SUFFICES ASSUME NEW b, NEW before \in Present, SavingInit(b, before) PROVE TheirsInv
  <2>1. (CHOOSE d \in Present : TRUE) \in Present
    BY SavingAssumption
  <2> QED BY <2>1 DEF Init
<1> QED BY SavingAssumption, NamesOK
        DEF SavingInit, TheirsInv, DiskOK, SinkHeld, TargetHeld, NotTheirs, NoSinkYet, SinkIsTarget,
            OfferIsFresh, Held, Excused

\* sink.ts:312: nobody's file is silently replaced, however many files a batch
\* has, however many names are taken, and whatever other programs create.
THEOREM NothingIsReplaced == Spec => TheirsKept
<1>1. TheirsInv /\ [Next]_vars => Spared
  BY TheirsStep
<1>2. Spared => \A n \in DiskName : disk[n] = Theirs /\ disk'[n] # Theirs => n \in chosen \cup raced
  BY DEF Spared, Excused
<1> QED BY <1>1, <1>2, TheirsStart, TheirsStep, PTL DEF Spec, TheirsKept

-----------------------------------------------------------------------------
(* the batch on the disk *)

OfferedFiles(files) == files = <<>> \/ \E m \in Offers : Parses(m) /\ files = Read(m)
ManifestOK == OfferedFiles(manifest)

\* A file of the batch is on disk only once it was closed, and in a folder its
\* name of last resort is that of an earlier file.
IsOurs(n) == disk[n].is = "ours"

DiskShape == disk = [n \in DiskName |-> disk[n]] /\ index \in Nat \ {0} /\ copy \in Nat \ {0}

OursBefore == \A n \in DiskName : IsOurs(n) => disk[n].file \in 1 .. index - 1

LastResort ==
  dest = "directory" =>
    \A n \in DiskName : IsOurs(n) /\ n.copy > MaxCopies => n.copy < MaxCopies + index

\* What is being opened, written or closed is no file of the batch yet.
Opened == {"creating", "opening", "hasher", "ready", "checking", "closing"}

TargetFresh ==
  phase \in Opened /\ dest # "memory" =>
    /\ target \in DiskName /\ ~IsOurs(target)
    /\ dest = "directory" => target.copy <= MaxCopies \/ target.copy = MaxCopies + index

SinkFresh == sink \in DiskName => ~IsOurs(sink)

\* How the destination goes with the offer and the dialogs.
Destined ==
  /\ dest \in {"none", "memory", "single", "directory", "perFile"}
  /\ dest = "single" => Len(manifest) = 1
  /\ dest = "perFile" => ~browser.folder
  /\ dest = "none" => index = 1 /\ phase \in {"idle", "picking"}
  /\ dest \in {"memory", "directory"} => phase # "picking"
  /\ dest # "directory" => phase \notin {"looking", "creating"}
  /\ dest = "memory" => phase # "opening"

\* How far the engine has come.
InBatch ==
  /\ rState = "waiting" => dest = "none" /\ phase = "idle" /\ manifest = <<>>
  /\ rState = "offered" => index = 1 /\ Len(manifest) > 0 /\ phase \notin {"ready", "checking", "closing"}
  /\ rState = "complete" => index > Len(manifest)
  /\ phase # "idle" => index <= Len(manifest)

RowsOK ==
  /\ rows = [k \in DOMAIN manifest |-> rows[k]]
  /\ \A k \in DOMAIN manifest : k < index => rows[k] = "verified"

\* A failure that finds a file closing marks it as torn, once.
TornOK ==
  /\ aborted \/ left => phase # "checking" /\ (phase = "closing" => torn = index)
  /\ torn # 0 => aborted \/ left

OnDisk(k) == k \in downloads \/ \E n \in DiskName : disk[n] = Ours(k)

Saved == \A k \in Ticked \ {torn} : OnDisk(k)

BatchInv ==
  /\ ManifestOK /\ DiskShape /\ OursBefore /\ LastResort /\ TargetFresh /\ SinkFresh
  /\ Destined /\ InBatch /\ RowsOK /\ TornOK /\ Saved

-----------------------------------------------------------------------------
(* what a step may do *)

\* No file of the batch appears or goes.
OursSame ==
  /\ disk' = [n \in DiskName |-> disk'[n]]
  /\ \A n \in DiskName : disk'[n] = disk[n] \/ (disk[n].is # "ours" /\ disk'[n].is # "ours")

LEMMA NotNames == NoName \notin DiskName /\ InMemory \notin DiskName
BY SavingAssumption DEF NoName, InMemory

LEMMA ManifestShape ==
  ASSUME NEW files, OfferedFiles(files)
  PROVE  /\ Len(files) \in Nat /\ Len(files) <= MaxFiles
         /\ DOMAIN files = 1 .. Len(files)
<1>1. CASE files = <<>>
  BY <1>1, LimitsAssumption
<1>2. CASE \E m \in Offers : Parses(m) /\ files = Read(m)
  <2>1. PICK m \in Offers : Parses(m) /\ files = Read(m)
    BY <1>2
  <2> DEFINE n == Len(m.files)
  <2>2. n \in 1 .. MaxFiles /\ DOMAIN m.files = 1 .. n
    BY <2>1, SavingAssumption DEF Parses
  <2>3. files = [k \in 1 .. n |-> Cleaned(m.files[k])]
    BY <2>1, <2>2 DEF Read
  <2> DEFINE S == {Cleaned(m.files[k]) : k \in 1 .. n}
  <2>4. files \in Seq(S)
    <3>1. \A k \in 1 .. n : Cleaned(m.files[k]) \in S
      OBVIOUS
    <3>2. n \in Nat
      BY <2>2, LimitsAssumption
    <3> HIDE DEF n, S
    <3> QED BY <2>3, <3>1, <3>2, IsASeq
  <2>5. Len(files) \in Nat /\ DOMAIN files = 1 .. Len(files)
    BY <2>4, LenProperties
  <2>6. DOMAIN files = 1 .. n
    BY <2>3
  <2>7. Len(files) = n
    BY <2>2, <2>5, <2>6, LimitsAssumption
  <2> QED BY <2>2, <2>5, <2>7, LimitsAssumption
<1> QED BY <1>1, <1>2 DEF OfferedFiles

\* The disk, as long as no file of the batch appears or goes.
LEMMA DiskKept ==
  ASSUME BatchInv, OursSame, index' = index, copy' \in Nat \ {0},
         dest' = dest \/ dest' # "directory" \/ index = 1
  PROVE  DiskShape' /\ OursBefore' /\ LastResort'
<1>1. \A n \in DiskName : disk'[n].is = "ours" => disk[n].is = "ours" /\ disk'[n] = disk[n]
  BY DEF OursSame
<1>2. DiskShape'
  BY DEF DiskShape, OursSame, BatchInv
<1>3. OursBefore'
  BY <1>1 DEF OursBefore, IsOurs, BatchInv
<1>4. LastResort'
  <2>1. index = 1 => \A n \in DiskName : disk[n].is # "ours"
    BY DEF OursBefore, IsOurs, BatchInv
  <2> QED BY <1>1, <2>1 DEF LastResort, IsOurs, BatchInv
<1> QED BY <1>2, <1>3, <1>4

LEMMA SavedKept ==
  ASSUME BatchInv, OursSame, downloads' = downloads, Ticked' \ {torn'} \subseteq Ticked \ {torn}
  PROVE  Saved'
<1>1. \A k : \A n \in DiskName : disk[n] = Ours(k) => disk'[n] = disk[n]
  BY DEF OursSame, Ours
<1>2. \A k : OnDisk(k) => OnDisk(k)'
  BY <1>1 DEF OnDisk, Ours
<1> QED BY <1>2 DEF Saved, BatchInv

LEMMA SameDisk == ASSUME BatchInv, disk' = disk PROVE OursSame
BY DEF OursSame, BatchInv, DiskShape

LEMMA RemovedSame ==
  ASSUME BatchInv, NEW d \in Removed(disk, sink)
  PROVE  /\ d = [n \in DiskName |-> d[n]]
         /\ \A n \in DiskName : d[n] = disk[n] \/ (disk[n].is # "ours" /\ d[n].is # "ours")
BY DEF Removed, BatchInv, DiskShape, SinkFresh, IsOurs, Absent

LEMMA AbortSame == ASSUME BatchInv, AbortSink(sink) PROVE OursSame
<1>1. CASE disk' = disk
  BY <1>1, SameDisk
<1>2. CASE disk' \in Removed(disk, sink)
  BY <1>2, RemovedSame DEF OursSame
<1> QED BY <1>1, <1>2 DEF AbortSink

LEMMA TickedSame == ASSUME rows' = rows PROVE Ticked' = Ticked
BY DEF Ticked, Mark

LEMMA CrossedKeeps ==
  ASSUME BatchInv, rows' = Crossed, UNCHANGED <<manifest, index>>
  PROVE  RowsOK' /\ Ticked' \subseteq Ticked
<1>1. CASE index \in DOMAIN rows
  <2>1. rows' = [rows EXCEPT ![index] = "failed"]
    BY <1>1 DEF Crossed
  <2>2. DOMAIN rows' = DOMAIN rows /\ \A k \in DOMAIN rows : k # index => rows'[k] = rows[k]
    BY <2>1 DEF RowsOK, BatchInv
  <2>3. rows'[index] = "failed"
    BY <1>1, <2>1 DEF RowsOK, BatchInv
  <2>4. rows' = [k \in DOMAIN manifest |-> rows'[k]]
    BY <2>1 DEF RowsOK, BatchInv
  <2>5. RowsOK'
    BY <2>2, <2>4 DEF RowsOK, BatchInv, DiskShape
  <2> QED BY <2>2, <2>3, <2>5 DEF Ticked, Mark
<1>2. CASE index \notin DOMAIN rows
  BY <1>2, TickedSame DEF Crossed, RowsOK, BatchInv
<1> QED BY <1>1, <1>2

-----------------------------------------------------------------------------
(* failures *)

LEMMA StateOf == ASSUME NEW s, NEW files, Emitted(s, files) PROVE rState' = s
BY DEF Emitted

\* What a sink being aborted, by fail() or cancel(), leaves of the invariant.
LEMMA AbortKeeps ==
  ASSUME BatchInv, NEW p \in {phase, "idle"}, AbortSink(sink), sink' = NoName,
         phase' = Stopped(p), torn' = Tearing, aborted' \/ left',
         rState' \notin {"waiting", "offered"}, rState' = "complete" => rState = "complete",
         UNCHANGED <<browser, manifest, index, copy, target, dest, downloads>>,
         rows' = rows \/ rows' = Crossed
  PROVE  BatchInv'
<1>1. OursSame
  BY AbortSame
<1>2. DiskShape' /\ OursBefore' /\ LastResort'
  BY <1>1, DiskKept DEF BatchInv, DiskShape
<1>3. RowsOK' /\ Ticked' \subseteq Ticked
  BY CrossedKeeps, TickedSame DEF RowsOK, BatchInv
<1>4. torn' = torn \/ torn = 0
  BY DEF Tearing, TornOK, BatchInv
<1>5. Saved'
  <2>1. 0 \notin Ticked
    BY ManifestShape DEF Ticked, RowsOK, ManifestOK, BatchInv
  <2> QED BY <1>1, <1>3, <1>4, <2>1, SavedKept
<1>6. phase' \in {phase, "idle"} /\ phase' # "checking"
  BY DEF Stopped
<1>7. TargetFresh'
  BY <1>1, <1>6 DEF TargetFresh, IsOurs, OursSame, BatchInv, Opened
<1>8. SinkFresh'
  BY NotNames DEF SinkFresh
<1>9. Destined' /\ InBatch' /\ ManifestOK'
  BY <1>6 DEF Destined, InBatch, ManifestOK, BatchInv
<1>10. TornOK'
  BY <1>6 DEF TornOK, Tearing, BatchInv
<1> QED BY <1>2, <1>3, <1>5, <1>7, <1>8, <1>9, <1>10 DEF BatchInv

\* The engine goes to phase p, and nothing else of the invariant moves.
LEMMA RestKeeps ==
  ASSUME BatchInv, phase' \in {phase, "idle"},
         rState' = rState,
         UNCHANGED <<browser, manifest, index, copy, target, dest, downloads, sink, aborted, left,
                     disk, torn, rows>>
  PROVE  BatchInv'
<1>1. OursSame /\ Ticked' = Ticked
  BY SameDisk, TickedSame
<1>2. DiskShape' /\ OursBefore' /\ LastResort' /\ Saved'
  BY <1>1, DiskKept, SavedKept DEF BatchInv, DiskShape
<1>3. TargetFresh' /\ SinkFresh'
  BY DEF TargetFresh, SinkFresh, IsOurs, BatchInv, Opened
<1>4. Destined' /\ InBatch' /\ ManifestOK' /\ RowsOK' /\ TornOK'
  BY DEF Destined, InBatch, ManifestOK, RowsOK, TornOK, BatchInv
<1> QED BY <1>2, <1>3, <1>4 DEF BatchInv

LEMMA FailKeepsBatch ==
  ASSUME BatchInv, NEW s \in Lost, NEW p \in {phase, "idle"},
         Fails(s, sink, p), UNCHANGED <<browser, manifest, left, index, copy, target, dest, downloads>>
  PROVE  BatchInv'
<1>1. CASE Immune
  BY <1>1, RestKeeps DEF Fails
<1>2. CASE ~Immune
  <2>1. /\ aborted' = TRUE /\ torn' = Tearing /\ phase' = Stopped(p) /\ rows' = Crossed
        /\ AbortSink(sink) /\ sink' = NoName /\ rState' = s
    BY <1>2, StateOf DEF Fails, REmits
  <2> QED BY <2>1, AbortKeeps DEF Lost
<1> QED BY <1>1, <1>2

LEMMA FailuresKeep ==
  ASSUME BatchInv,
         OfferUnread \/ AcceptAgain \/ Dismiss \/ OpenFails \/ WriteFails \/ Mismatches \/ Breaks
  PROVE  BatchInv'
<1>1. UNCHANGED <<browser, manifest, left, index, copy, target, dest, downloads>>
  BY DEF OfferUnread, AcceptAgain, Dismiss, OpenFails, WriteFails, Mismatches, Breaks, fileVars,
         placeVars
<1>2. CASE \E s \in Lost, p \in {phase, "idle"} : Fails(s, sink, p)
  BY <1>1, <1>2, FailKeepsBatch DEF Lost
<1>3. CASE Dismiss /\ dest # "perFile"
  BY <1>1, <1>3, RestKeeps DEF Dismiss
<1> QED BY <1>2, <1>3, LossesOK
        DEF OfferUnread, AcceptAgain, Dismiss, OpenFails, WriteFails, Mismatches, Breaks, Lost

LEMMA LeaveKeeps ==
  ASSUME BatchInv, Leave
  PROVE  BatchInv'
<1>1. /\ AbortSink(sink) /\ sink' = NoName /\ phase' = Stopped(phase) /\ left' = TRUE
      /\ torn' = Tearing /\ rows' = rows
      /\ UNCHANGED <<rState, aborted, browser, manifest, index, copy, target, dest, downloads>>
  BY DEF Leave, fileVars
<1>2. CASE rState \notin {"waiting", "offered"}
  BY <1>1, <1>2, AbortKeeps
<1>3. CASE rState \in {"waiting", "offered"}
  \* Nothing is being received yet, so nothing can be torn.
  <2>1. OursSame /\ Ticked' = Ticked
    BY <1>1, AbortSame, TickedSame
  <2>2. phase \notin {"ready", "checking", "closing"} /\ phase' \in {phase, "idle"} /\ torn' = torn
    BY <1>1, <1>3 DEF InBatch, BatchInv, Stopped, Tearing
  <2>3. DiskShape' /\ OursBefore' /\ LastResort' /\ Saved'
    BY <1>1, <2>1, <2>2, DiskKept, SavedKept DEF BatchInv, DiskShape
  <2>4. TargetFresh' /\ SinkFresh'
    BY <1>1, <2>1, <2>2, NotNames DEF TargetFresh, SinkFresh, IsOurs, OursSame, BatchInv, Opened
  <2>5. Destined' /\ InBatch' /\ ManifestOK' /\ RowsOK' /\ TornOK'
    BY <1>1, <2>2 DEF Destined, InBatch, ManifestOK, RowsOK, TornOK, BatchInv
  <2> QED BY <2>3, <2>4, <2>5 DEF BatchInv
<1> QED BY <1>2, <1>3

-----------------------------------------------------------------------------
(* the offer, and what only the page shows *)

LEMMA OfferKeeps ==
  ASSUME BatchInv, OfferRead
  PROVE  BatchInv'
<1>1. /\ rState = "waiting" /\ ~left /\ rState' = "offered" /\ aborted' = aborted
      /\ UNCHANGED <<browser, left, index, copy, target, dest, downloads, sink, disk, torn, phase>>
  BY StateOf DEF OfferRead, fileVars
<1>2. dest = "none" /\ phase = "idle" /\ index = 1 /\ manifest = <<>>
  BY <1>1 DEF InBatch, Destined, BatchInv
<1>3. \E m \in Offers :
        Parses(m) /\ manifest' = Read(m) /\ rows' = [k \in DOMAIN m.files |-> "queued"]
  BY DEF OfferRead
<1>4. ManifestOK'
  BY <1>3 DEF ManifestOK, OfferedFiles
<1>5. /\ rows' = [k \in DOMAIN manifest' |-> rows'[k]]
      /\ \A k \in DOMAIN rows' : rows'[k] = "queued"
  BY <1>3 DEF Read
<1>6. Len(manifest') > 0
  <2>1. PICK m \in Offers : Parses(m) /\ manifest' = Read(m)
    BY <1>3
  <2>2. 1 \in DOMAIN manifest'
    BY <2>1, SavingAssumption, LimitsAssumption DEF Parses, Read
  <2>3. DOMAIN manifest' = 1 .. Len(manifest') /\ Len(manifest') \in Nat
    BY <1>4, ManifestShape DEF ManifestOK
  <2> QED BY <2>2, <2>3
<1>7. OursSame
  BY <1>1, SameDisk
<1>8. DiskShape' /\ OursBefore' /\ LastResort'
  BY <1>1, <1>7, DiskKept DEF BatchInv, DiskShape
<1>9. Saved'
  <2>1. Ticked' = {}
    BY <1>5 DEF Ticked, Mark
  <2> QED BY <2>1 DEF Saved
<1>10. TargetFresh' /\ SinkFresh'
  BY <1>1, <1>2 DEF TargetFresh, SinkFresh, IsOurs, BatchInv, Opened
<1>11. Destined' /\ TornOK'
  BY <1>1, <1>2, <1>3 DEF Destined, TornOK, BatchInv
<1>12. InBatch' /\ RowsOK'
  <2>1. \A k \in DOMAIN manifest' : ~(k < 1)
    <3>1. DOMAIN manifest' = 1 .. Len(manifest') /\ Len(manifest') \in Nat
      BY <1>4, ManifestShape DEF ManifestOK
    <3> QED BY <3>1
  <2> QED BY <1>1, <1>2, <1>5, <1>6, <2>1 DEF InBatch, RowsOK, BatchInv
<1> QED BY <1>4, <1>8, <1>9, <1>10, <1>11, <1>12 DEF BatchInv

LEMMA ShownKeeps ==
  ASSUME BatchInv, Decline \/ Verifies \/ Completes
  PROVE  BatchInv'
<1>1. /\ UNCHANGED <<browser, manifest, left, index, copy, target, dest, downloads, sink, aborted,
                     disk, torn, rows>>
      /\ phase' \in {phase, "idle"}
  BY DEF Decline, Verifies, Completes, fileVars, placeVars, Stopped
<1>2. /\ rState' \in {"declined", "verifying", "complete"}
      /\ rState' = "complete" => index > Len(manifest)
  BY StateOf DEF Decline, Verifies, Completes, REmits
<1>3. OursSame /\ Ticked' = Ticked
  BY <1>1, SameDisk, TickedSame
<1>4. DiskShape' /\ OursBefore' /\ LastResort' /\ Saved'
  BY <1>1, <1>3, DiskKept, SavedKept DEF BatchInv, DiskShape
<1>5. TargetFresh' /\ SinkFresh'
  BY <1>1 DEF TargetFresh, SinkFresh, IsOurs, BatchInv, Opened
<1>6. Destined' /\ InBatch' /\ ManifestOK' /\ RowsOK' /\ TornOK'
  BY <1>1, <1>2 DEF Destined, InBatch, ManifestOK, RowsOK, TornOK, BatchInv
<1> QED BY <1>4, <1>5, <1>6 DEF BatchInv

-----------------------------------------------------------------------------
(* a destination, and a file in it *)

LEMMA ChoiceKeeps ==
  ASSUME BatchInv, Accept \/ PickFolder
  PROVE  BatchInv'
<1> USE DEF fileVars, placeVars
<1>1. /\ UNCHANGED <<browser, manifest, left, index, copy, target, downloads, aborted, disk, torn,
                     rows, rState>>
      /\ sink' \in {sink, InMemory}
  BY DEF Accept, PickFolder
<1>2. /\ index = 1 /\ index <= Len(manifest)
      /\ dest' = "directory" => phase' = "looking"
      /\ dest' = "memory" => phase' = "hasher"
      /\ dest' \in {"none", "perFile"} => phase' = "picking"
      /\ dest' = "perFile" => ~browser.folder
      /\ dest' \in {"none", "memory", "directory", "perFile"}
  <2>1. CASE Accept
    <3>1. rState = "offered"
      BY <2>1 DEF Accept, Acceptable
    <3>2. index = 1 /\ index <= Len(manifest)
      BY <3>1, ManifestShape DEF ManifestOK, InBatch, BatchInv
    <3> QED BY <2>1, <3>2 DEF Accept
  <2>2. CASE PickFolder
    <3>1. phase = "picking" /\ Len(manifest) > 1 /\ browser.folder /\ dest' = "directory" /\ phase' = "looking"
      BY <2>2 DEF PickFolder
    <3>2. dest # "perFile"
      BY <3>1 DEF Destined, BatchInv
    <3>3. dest # "single"
      <4> DEFINE n == Len(manifest)
      <4>1. n > 1 /\ n \in Nat
        BY <2>2, ManifestShape DEF PickFolder, ManifestOK, BatchInv
      <4>2. dest = "single" => n = 1
        BY DEF Destined, BatchInv
      <4> HIDE DEF n
      <4> QED BY <4>1, <4>2
    <3>4. dest \notin {"memory", "directory"}
      BY <3>1 DEF Destined, BatchInv
    <3>5. dest = "none"
      BY <3>2, <3>3, <3>4 DEF Destined, BatchInv
    <3> QED BY <3>1, <3>5 DEF Destined, InBatch, BatchInv
  <2> QED BY <2>1, <2>2
<1>3. OursSame /\ Ticked' = Ticked
  BY <1>1, SameDisk, TickedSame
<1>4. DiskShape' /\ OursBefore' /\ LastResort' /\ Saved'
  BY <1>1, <1>2, <1>3, DiskKept, SavedKept DEF BatchInv, DiskShape
<1>5. TargetFresh' /\ SinkFresh'
  BY <1>1, <1>2, NotNames DEF TargetFresh, SinkFresh, IsOurs, BatchInv, Opened
<1>6. Destined' /\ RowsOK' /\ TornOK' /\ ManifestOK'
  BY <1>1, <1>2 DEF Destined, RowsOK, TornOK, ManifestOK, BatchInv
<1>7. InBatch'
  <2>1. rState # "waiting"
    BY DEF Accept, Acceptable, PickFolder, InBatch, BatchInv
  <2> QED BY <1>1, <1>2, <2>1 DEF InBatch, BatchInv
<1> QED BY <1>4, <1>5, <1>6, <1>7 DEF BatchInv

\* A dialog, or createWritable's file, gives the target a file that is empty.
LEMMA PlaceKeeps ==
  ASSUME BatchInv, NEW n \in DiskName, target' = n, ~IsOurs(n), phase' = "opening", phase # "idle",
         disk' = IF disk[n] = Absent THEN [disk EXCEPT ![n].is = "empty"] ELSE disk,
         dest' \in {dest, "single"}, dest' \in {"single", "directory", "perFile"},
         dest' = "single" => Len(manifest) = 1,
         dest = "directory" => n.copy <= MaxCopies \/ n.copy = MaxCopies + index,
         UNCHANGED <<browser, manifest, left, index, copy, downloads, sink, aborted, torn, rows,
                     rState>>
  PROVE  BatchInv'
<1>1. /\ disk' = [m \in DiskName |-> disk'[m]]
      /\ \A m \in DiskName : m # n => disk'[m] = disk[m]
      /\ disk'[n] = disk[n] \/ disk'[n].is = "empty"
  BY DEF BatchInv, DiskShape, Absent
<1>2. OursSame /\ Ticked' = Ticked
  BY <1>1, TickedSame DEF OursSame, IsOurs
<1>3. dest' = dest \/ dest' # "directory"
  OBVIOUS
<1>4. DiskShape' /\ OursBefore' /\ LastResort' /\ Saved'
  BY <1>2, <1>3, DiskKept, SavedKept DEF BatchInv, DiskShape
<1>5. TargetFresh' /\ SinkFresh'
  BY <1>1, <1>2 DEF TargetFresh, SinkFresh, IsOurs, OursSame, BatchInv
<1>6. Destined' /\ RowsOK' /\ TornOK' /\ ManifestOK'
  BY DEF Destined, RowsOK, TornOK, ManifestOK, BatchInv
<1>7. InBatch'
  BY DEF InBatch, BatchInv
<1> QED BY <1>4, <1>5, <1>6, <1>7 DEF BatchInv

LEMMA PickNameKeeps ==
  ASSUME BatchInv, PickName
  PROVE  BatchInv'
<1>1. PICK n \in DiskName :
        /\ disk[n] \in {Absent, Theirs} /\ target' = n
        /\ disk' = IF disk[n] = Absent THEN [disk EXCEPT ![n].is = "empty"] ELSE disk
  BY DEF PickName
<1>2. /\ phase = "picking" /\ phase' = "opening" /\ (Len(manifest) = 1 \/ dest = "perFile")
      /\ dest' = IF dest = "none" THEN "single" ELSE dest
      /\ UNCHANGED <<browser, manifest, left, index, copy, downloads, sink, aborted, torn, rows,
                     rState>>
  BY DEF PickName
<1>3. ~IsOurs(n)
  BY <1>1 DEF IsOurs, Absent, Theirs
<1>4. dest \in {"none", "single", "perFile"}
  BY <1>2 DEF Destined, BatchInv
<1>5. dest' = "single" => Len(manifest) = 1
  BY <1>2 DEF Destined, BatchInv
<1> QED BY <1>1, <1>2, <1>3, <1>4, <1>5, PlaceKeeps

LEMMA CreateKeeps ==
  ASSUME BatchInv, Create
  PROVE  BatchInv'
<1>1. /\ phase = "creating" /\ phase' = "opening"
      /\ disk' = IF disk[target] = Absent THEN [disk EXCEPT ![target].is = "empty"] ELSE disk
      /\ UNCHANGED <<browser, manifest, left, index, copy, target, dest, downloads, sink, aborted,
                     torn, rows, rState>>
  BY DEF Create, fileVars, placeVars
<1>2. dest = "directory"
  BY <1>1 DEF Destined, BatchInv
<1>3. target \in DiskName /\ ~IsOurs(target) /\ (target.copy <= MaxCopies \/ target.copy = MaxCopies + index)
  BY <1>1, <1>2 DEF TargetFresh, Opened, BatchInv
<1> QED BY <1>1, <1>2, <1>3, PlaceKeeps

\* A name in the folder that nothing of the batch has.
LEMMA LookKeeps ==
  ASSUME BatchInv, Look
  PROVE  BatchInv'
<1>1. /\ phase = "looking"
      /\ UNCHANGED <<browser, manifest, left, index, dest, downloads, sink, aborted, disk, torn,
                     rows, rState>>
  BY DEF Look, placeVars
<1>2. /\ dest = "directory" /\ index \in DOMAIN manifest /\ index <= MaxFiles
      /\ manifest # <<>>
  <2> DEFINE n == Len(manifest)
  <2>1. n \in Nat /\ n <= MaxFiles /\ DOMAIN manifest = 1 .. n
    BY ManifestShape DEF ManifestOK, BatchInv
  <2>2. index \in Nat \ {0} /\ index <= n /\ dest = "directory"
    BY <1>1 DEF InBatch, Destined, DiskShape, BatchInv
  <2> HIDE DEF n
  <2>3. index \in DOMAIN manifest /\ index <= MaxFiles
    BY <2>1, <2>2, LimitsAssumption
  <2> QED BY <2>2, <2>3
<1>3. \A i \in 1 .. MaxCopies + MaxFiles : Candidate(index, i) \in DiskName
  <2>1. PICK m \in Offers : Parses(m) /\ manifest = Read(m)
    BY <1>2 DEF ManifestOK, OfferedFiles, BatchInv
  <2> QED BY <1>2, <2>1, SavingAssumption DEF Candidate
<1>4. \/ phase' = "looking" /\ target' = target /\ copy' = copy + 1
      \/ /\ phase' = "creating" /\ target' \in DiskName /\ copy' = copy /\ ~IsOurs(target')
         /\ target'.copy <= MaxCopies \/ target'.copy = MaxCopies + index
  <2>1. CASE copy <= MaxCopies /\ InUse(Candidate(index, copy))
    BY <1>1, <2>1 DEF Look
  <2>2. CASE copy <= MaxCopies /\ ~InUse(Candidate(index, copy))
    <3>1. phase' = "creating" /\ target' = Candidate(index, copy) /\ copy' = copy
      BY <2>2 DEF Look
    <3>2. copy \in 1 .. MaxCopies + MaxFiles
      BY <2>2, SavingAssumption, LimitsAssumption DEF DiskShape, BatchInv
    <3>3. Candidate(index, copy).copy = copy
      BY DEF Candidate
    <3>4. ~IsOurs(Candidate(index, copy))
      BY <2>2 DEF InUse, IsOurs
    <3> QED BY <1>3, <2>2, <3>1, <3>2, <3>3, <3>4 DEF IsOurs
  <2>3. CASE ~(copy <= MaxCopies)
    <3> DEFINE n == Candidate(index, MaxCopies + index)
    <3>1. phase' = "creating" /\ target' = n /\ copy' = copy
      BY <2>3 DEF Look
    <3>2. MaxCopies + index \in 1 .. MaxCopies + MaxFiles
      BY <1>2, SavingAssumption, LimitsAssumption DEF DiskShape, BatchInv
    <3>3. n \in DiskName /\ n.copy = MaxCopies + index
      BY <1>3, <3>2 DEF Candidate
    <3> HIDE DEF n
    <3>4. ~IsOurs(n)
      <4>1. MaxCopies + index > MaxCopies /\ ~(MaxCopies + index < MaxCopies + index)
        BY SavingAssumption DEF DiskShape, BatchInv
      <4> QED BY <1>2, <3>3, <4>1 DEF LastResort, BatchInv
    <3> QED BY <1>1, <3>1, <3>3, <3>4 DEF IsOurs
  <2> QED BY <2>1, <2>2, <2>3
<1>5. OursSame /\ Ticked' = Ticked
  BY <1>1, SameDisk, TickedSame
<1>6. DiskShape' /\ OursBefore' /\ LastResort' /\ Saved'
  <2>1. copy' \in Nat \ {0}
    BY <1>4 DEF DiskShape, BatchInv
  <2> QED BY <1>1, <1>5, <2>1, DiskKept, SavedKept DEF BatchInv
<1>7. TargetFresh'
  BY <1>1, <1>2, <1>4 DEF TargetFresh, IsOurs, Opened
<1>8. SinkFresh' /\ RowsOK' /\ ManifestOK'
  BY <1>1 DEF SinkFresh, RowsOK, ManifestOK, IsOurs, BatchInv
<1>9. Destined' /\ InBatch' /\ TornOK'
  BY <1>1, <1>2, <1>4 DEF Destined, InBatch, TornOK, BatchInv
<1> QED BY <1>6, <1>7, <1>8, <1>9 DEF BatchInv

LEMMA OpensKeeps ==
  ASSUME BatchInv, Opens
  PROVE  BatchInv'
<1>1. /\ phase = "opening" /\ phase' = "hasher" /\ sink' = target
      /\ UNCHANGED <<browser, manifest, left, index, copy, target, dest, downloads, aborted, disk,
                     torn, rows, rState>>
  BY DEF Opens, fileVars, placeVars
<1>2. OursSame /\ Ticked' = Ticked
  BY <1>1, SameDisk, TickedSame
<1>3. DiskShape' /\ OursBefore' /\ LastResort' /\ Saved'
  BY <1>1, <1>2, DiskKept, SavedKept DEF BatchInv, DiskShape
<1>4. TargetFresh' /\ SinkFresh'
  BY <1>1 DEF TargetFresh, SinkFresh, Destined, IsOurs, BatchInv, Opened
<1>5. Destined' /\ InBatch' /\ RowsOK' /\ TornOK' /\ ManifestOK'
  BY <1>1 DEF Destined, InBatch, RowsOK, TornOK, ManifestOK, BatchInv
<1> QED BY <1>3, <1>4, <1>5 DEF BatchInv

\* The row of the file at index changes, to something that is no tick.
LEMMA RowKeeps ==
  ASSUME BatchInv, rows' = [rows EXCEPT ![index] = "receiving"], UNCHANGED <<manifest, index>>
  PROVE  RowsOK' /\ Ticked' \subseteq Ticked
<1>1. /\ rows' = [k \in DOMAIN manifest |-> rows'[k]]
      /\ DOMAIN rows' = DOMAIN rows
      /\ \A k \in DOMAIN rows : k # index => rows'[k] = rows[k]
      /\ index \in DOMAIN rows => rows'[index] = "receiving"
  BY DEF RowsOK, BatchInv
<1>2. RowsOK'
  BY <1>1 DEF RowsOK, BatchInv, DiskShape
<1> QED BY <1>1, <1>2 DEF Ticked, Mark

LEMMA ReadyKeeps ==
  ASSUME BatchInv, HasherReady
  PROVE  BatchInv'
<1>1. /\ phase = "hasher" /\ phase' = "ready" /\ rows' = [rows EXCEPT ![index] = "receiving"]
      /\ rState' = IF index = 1 THEN "receiving" ELSE rState
      /\ UNCHANGED <<browser, manifest, left, index, copy, target, dest, downloads, sink, aborted,
                     disk, torn>>
  BY StateOf DEF HasherReady, fileVars, placeVars, REmits
<1>2. OursSame
  BY <1>1, SameDisk
<1>3. RowsOK' /\ Ticked' \subseteq Ticked
  BY <1>1, RowKeeps
<1>4. DiskShape' /\ OursBefore' /\ LastResort' /\ Saved'
  BY <1>1, <1>2, <1>3, DiskKept, SavedKept DEF BatchInv, DiskShape
<1>5. TargetFresh' /\ SinkFresh'
  BY <1>1 DEF TargetFresh, SinkFresh, IsOurs, BatchInv, Opened
<1>6. Destined' /\ TornOK' /\ ManifestOK'
  BY <1>1 DEF Destined, TornOK, ManifestOK, BatchInv
<1>7. InBatch'
  BY <1>1 DEF InBatch, BatchInv
<1> QED BY <1>3, <1>4, <1>5, <1>6, <1>7 DEF BatchInv

LEMMA PieceKeeps ==
  ASSUME BatchInv, Piece \/ Matches
  PROVE  BatchInv'
<1>1. UNCHANGED <<browser, manifest, left, index, copy, target, dest, downloads>>
  BY DEF Piece, Matches, placeVars, fileVars
<1>2. CASE Fails("failed", sink, "idle")
  BY <1>1, <1>2, FailKeepsBatch DEF Lost
<1>3. CASE /\ UNCHANGED <<rState, aborted, sink, disk, torn, rows>>
           /\ \/ phase = "ready" /\ ~aborted /\ ~left /\ phase' \in {"checking", "ready"}
              \/ phase = "checking" /\ phase' = "closing"
  <2>1. OursSame /\ Ticked' = Ticked
    BY <1>3, SameDisk, TickedSame
  <2>2. DiskShape' /\ OursBefore' /\ LastResort' /\ Saved'
    BY <1>1, <1>3, <2>1, DiskKept, SavedKept DEF BatchInv, DiskShape
  <2>3. TargetFresh' /\ SinkFresh'
    BY <1>1, <1>3 DEF TargetFresh, SinkFresh, IsOurs, BatchInv, Opened
  <2>4. Destined' /\ InBatch' /\ RowsOK' /\ ManifestOK'
    BY <1>1, <1>3 DEF Destined, InBatch, RowsOK, ManifestOK, BatchInv
  <2>5. TornOK'
    BY <1>1, <1>3 DEF TornOK, BatchInv
  <2> QED BY <2>2, <2>3, <2>4, <2>5 DEF BatchInv
<1> QED BY <1>2, <1>3 DEF Piece, Matches, Receiving

-----------------------------------------------------------------------------
(* the close *)

\* The only step that puts a file of the batch on the disk.
LEMMA ClosesKeeps ==
  ASSUME BatchInv, Closes
  PROVE  BatchInv'
<1> DEFINE saved == [disk EXCEPT ![target] = Ours(index)]
<1>1. /\ phase = "closing" /\ rows' = [rows EXCEPT ![index] = "verified"]
      /\ sink' \in {InMemory, NoName} /\ phase' = Begins(index + 1)
      /\ index' = index + 1 /\ copy' = 1
      /\ UNCHANGED <<browser, manifest, left, rState, aborted, torn, target, dest>>
  BY DEF Closes, NextSink, placeVars
<1>2. \/ dest = "memory" /\ downloads' = downloads \cup {index} /\ disk' = disk
      \/ /\ dest # "memory" /\ downloads' = downloads
         /\ disk' = saved \/ (torn = index /\ disk' \in Removed(saved, target))
  BY DEF Closes
<1>3. index \in DOMAIN manifest /\ index \in Nat \ {0}
  <2> DEFINE n == Len(manifest)
  <2>1. n \in Nat /\ DOMAIN manifest = 1 .. n
    BY ManifestShape DEF ManifestOK, BatchInv
  <2>2. index \in Nat \ {0} /\ index <= n
    BY <1>1 DEF InBatch, DiskShape, BatchInv
  <2> HIDE DEF n
  <2> QED BY <2>1, <2>2
<1>4. dest # "memory" =>
        /\ target \in DiskName /\ ~IsOurs(target)
        /\ dest = "directory" => target.copy <= MaxCopies \/ target.copy = MaxCopies + index
  BY <1>1 DEF TargetFresh, Opened, BatchInv
<1>5. /\ disk' = [n \in DiskName |-> disk'[n]]
      /\ \A n \in DiskName : disk'[n] = disk[n] \/ (n = target /\ dest # "memory" /\ disk'[n] \in {Ours(index), Absent})
      /\ dest # "memory" /\ torn # index => disk'[target] = Ours(index)
  <2>1. CASE dest = "memory"
    BY <1>2, <2>1 DEF DiskShape, BatchInv
  <2>2. CASE dest # "memory"
    <3>1. /\ saved = [n \in DiskName |-> saved[n]]
          /\ \A n \in DiskName : saved[n] = IF n = target THEN Ours(index) ELSE disk[n]
      BY DEF DiskShape, BatchInv
    <3>2. disk' = saved \/ (torn = index /\ disk' \in Removed(saved, target))
      BY <1>2, <2>2
    <3> HIDE DEF saved
    <3>3. /\ disk' = [n \in DiskName |-> disk'[n]]
          /\ \A n \in DiskName : disk'[n] = saved[n] \/ (n = target /\ disk'[n] = Absent)
      BY <3>1, <3>2 DEF Removed
    <3> QED BY <1>4, <2>2, <3>1, <3>2, <3>3
  <2> QED BY <2>1, <2>2
<1>6. Ours(index).is = "ours" /\ Ours(index).file = index /\ Absent.is # "ours"
  BY DEF Ours, Absent
<1>7. DiskShape' /\ OursBefore'
  <2>1. \A n \in DiskName : IsOurs(n)' => disk'[n].file \in 1 .. index
    BY <1>3, <1>5, <1>6 DEF OursBefore, IsOurs, BatchInv
  <2>2. DiskShape'
    BY <1>1, <1>3, <1>5 DEF DiskShape
  <2>3. index' - 1 = index
    BY <1>1, <1>3
  <2> QED BY <2>1, <2>2, <2>3 DEF OursBefore
<1>8. LastResort'
  <2> SUFFICES ASSUME dest' = "directory", NEW n \in DiskName, IsOurs(n)', n.copy > MaxCopies
               PROVE  n.copy < MaxCopies + index'
    BY DEF LastResort
  <2>1. n.copy \in Nat /\ MaxCopies \in Nat
    BY SavingAssumption
  <2>2. CASE IsOurs(n)
    BY <1>1, <1>3, <2>1, <2>2 DEF LastResort, BatchInv
  <2>3. CASE ~IsOurs(n)
    <3>1. n = target /\ dest = "directory"
      BY <1>1, <1>5, <2>3 DEF IsOurs
    <3> QED BY <1>1, <1>3, <1>4, <2>1, <3>1
  <2> QED BY <2>2, <2>3
<1>9. /\ phase' \in {"idle", "hasher", "looking", "picking"}
      /\ phase' = "hasher" => dest = "memory"
      /\ phase' = "looking" => dest = "directory"
      /\ phase' = "picking" => dest \notin {"memory", "directory"}
      /\ phase' # "idle" => ~(index' > Len(manifest))
  BY <1>1 DEF Begins
<1>10. TargetFresh' /\ SinkFresh'
  BY <1>1, <1>9, NotNames DEF TargetFresh, SinkFresh, Opened
<1>11. rState \notin {"waiting", "offered", "complete"}
  <2> DEFINE n == Len(manifest)
  <2>1. index \in Nat /\ n \in Nat /\ index <= n
    BY <1>1, <1>3, ManifestShape DEF InBatch, ManifestOK, BatchInv
  <2>2. rState = "complete" => index > n
    BY DEF InBatch, BatchInv
  <2> HIDE DEF n
  <2>3. rState # "complete"
    BY <2>1, <2>2
  <2> QED BY <1>1, <2>3 DEF InBatch, BatchInv
<1>12. Destined' /\ ManifestOK' /\ TornOK'
  BY <1>1, <1>9 DEF Destined, ManifestOK, TornOK, BatchInv
<1>13. InBatch'
  <2> DEFINE n == Len(manifest)
  <2>1. n \in Nat /\ index' \in Nat /\ n' = n
    BY <1>1, <1>3, ManifestShape DEF ManifestOK, BatchInv
  <2>2. phase' # "idle" => ~(index' > n)
    BY <1>9
  <2>3. phase' # "idle" => index' <= n
    <3> HIDE DEF n
    <3> QED BY <2>1, <2>2
  <2> QED BY <1>1, <1>11, <2>3 DEF InBatch
<1>14. /\ rows' = [k \in DOMAIN manifest |-> rows'[k]]
       /\ \A k \in DOMAIN manifest : rows'[k] = IF k = index THEN "verified" ELSE rows[k]
  BY <1>1 DEF RowsOK, BatchInv
<1>15. RowsOK'
  <2>1. \A k \in DOMAIN manifest : k < index' => k < index \/ k = index
    <3> DEFINE n == Len(manifest)
    <3>1. n \in Nat /\ DOMAIN manifest = 1 .. n
      BY ManifestShape DEF ManifestOK, BatchInv
    <3> HIDE DEF n
    <3> QED BY <1>1, <1>3, <3>1
  <2> QED BY <1>1, <1>14, <2>1 DEF RowsOK, BatchInv
<1>16. Saved'
  <2> SUFFICES ASSUME NEW k \in Ticked' \ {torn} PROVE OnDisk(k)'
    BY <1>1 DEF Saved
  <2>1. CASE k = index
    <3>1. CASE dest = "memory"
      BY <1>2, <2>1, <3>1 DEF OnDisk
    <3>2. CASE dest # "memory"
      BY <1>4, <1>5, <2>1, <3>2 DEF OnDisk
    <3> QED BY <3>1, <3>2
  <2>2. CASE k # index
    <3>1. k \in Ticked
      BY <1>1, <1>14, <2>2 DEF Ticked, Mark, RowsOK, BatchInv
    <3>2. OnDisk(k)
      BY <3>1 DEF Saved, BatchInv
    <3>3. CASE k \in downloads
      BY <1>2, <3>3 DEF OnDisk
    <3>4. CASE \E n \in DiskName : disk[n] = Ours(k)
      <4>1. PICK n \in DiskName : disk[n] = Ours(k)
        BY <3>4
      <4>2. IsOurs(n)
        BY <4>1 DEF IsOurs, Ours
      <4>3. disk'[n] = disk[n]
        BY <1>4, <1>5, <4>2
      <4> QED BY <4>1, <4>3 DEF OnDisk
    <3> QED BY <3>2, <3>3, <3>4 DEF OnDisk
  <2> QED BY <2>1, <2>2
<1> QED BY <1>7, <1>8, <1>10, <1>12, <1>13, <1>15, <1>16 DEF BatchInv

LEMMA CloseFailsKeeps ==
  ASSUME BatchInv, CloseFails
  PROVE  BatchInv'
<1>1. /\ phase = "closing" /\ phase' = "idle" /\ sink' = NoName
      /\ UNCHANGED <<browser, manifest, left, index, copy, target, dest, downloads, torn>>
      /\ disk' = disk \/ disk' \in Removed(disk, target)
  BY DEF CloseFails, fileVars, placeVars
<1>2. \/ UNCHANGED <<rState, aborted, rows>>
      \/ aborted' = TRUE /\ rows' = Crossed /\ rState' = "failed"
  BY StateOf DEF CloseFails, REmits
<1>3. OursSame
  <2>1. CASE disk' = disk
    BY <2>1, SameDisk
  <2>2. CASE disk' # disk
    <3>1. target \in DiskName /\ dest = "directory" /\ disk' = [disk EXCEPT ![target] = Absent]
      BY <1>1, <2>2 DEF Removed
    <3>2. ~IsOurs(target)
      BY <1>1, <3>1 DEF TargetFresh, Opened, BatchInv
    <3> QED BY <3>1, <3>2 DEF OursSame, DiskShape, IsOurs, Absent, BatchInv
  <2> QED BY <2>1, <2>2
<1>4. RowsOK' /\ Ticked' \subseteq Ticked
  BY <1>1, <1>2, CrossedKeeps, TickedSame DEF RowsOK, BatchInv
<1>5. DiskShape' /\ OursBefore' /\ LastResort' /\ Saved'
  BY <1>1, <1>3, <1>4, DiskKept, SavedKept DEF BatchInv, DiskShape
<1>6. TargetFresh' /\ SinkFresh'
  BY <1>1, NotNames DEF TargetFresh, SinkFresh, Opened
<1>7. Destined' /\ InBatch' /\ TornOK' /\ ManifestOK'
  BY <1>1, <1>2 DEF Destined, InBatch, TornOK, ManifestOK, BatchInv
<1> QED BY <1>4, <1>5, <1>6, <1>7 DEF BatchInv

\* Another program takes a name nothing has.
LEMMA StrangerKeeps ==
  ASSUME BatchInv, Stranger
  PROVE  BatchInv'
<1>1. PICK n \in DiskName : disk[n] = Absent /\ disk' = [disk EXCEPT ![n] = Theirs]
  BY DEF Stranger
<1>2. UNCHANGED <<browser, manifest, left, index, copy, target, dest, downloads, sink, aborted,
                  phase, torn, rows, rState>>
  BY DEF Stranger, fileVars
<1>3. OursSame /\ Ticked' = Ticked
  BY <1>1, <1>2, TickedSame DEF OursSame, DiskShape, Absent, Theirs, BatchInv
<1>4. DiskShape' /\ OursBefore' /\ LastResort' /\ Saved'
  BY <1>2, <1>3, DiskKept, SavedKept DEF BatchInv, DiskShape
<1>5. TargetFresh' /\ SinkFresh'
  BY <1>2, <1>3 DEF TargetFresh, SinkFresh, IsOurs, OursSame, BatchInv, Opened
<1>6. Destined' /\ InBatch' /\ RowsOK' /\ TornOK' /\ ManifestOK'
  BY <1>2 DEF Destined, InBatch, RowsOK, TornOK, ManifestOK, BatchInv
<1> QED BY <1>4, <1>5, <1>6 DEF BatchInv

-----------------------------------------------------------------------------
(* the theorem *)

LEMMA BatchStep == BatchInv /\ [Next]_vars => BatchInv'
<1> SUFFICES ASSUME BatchInv, [Next]_vars PROVE BatchInv'
  OBVIOUS
<1>1. CASE SavingNext
  <2>1. CASE TimePasses
    BY <2>1, RestKeeps DEF TimePasses, fileVars, placeVars
  <2> QED
    BY <1>1, <2>1, OfferCases, OfferKeeps, ShownKeeps, ChoiceKeeps, PickNameKeeps, LookKeeps, CreateKeeps, OpensKeeps,
       ReadyKeeps, PieceKeeps, ClosesKeeps, CloseFailsKeeps, StrangerKeeps, FailuresKeep, LeaveKeeps
    DEF SavingNext
<1>2. CASE UNCHANGED savingVars
  BY <1>2, RestKeeps DEF savingVars
<1>3. CASE UNCHANGED vars
  BY <1>3, RestKeeps DEF vars, savingVars
<1> QED BY <1>1, <1>2, <1>3 DEF Next

LEMMA BatchStart == Init => BatchInv
<1> SUFFICES ASSUME NEW b, NEW before \in Present, SavingInit(b, before) PROVE BatchInv
  <2>1. (CHOOSE d \in Present : TRUE) \in Present
    BY SavingAssumption
  <2> QED BY <2>1 DEF Init
<1>1. /\ manifest = <<>> /\ rows = <<>> /\ disk = before /\ index = 1 /\ copy = 1 /\ phase = "idle"
      /\ dest = "none" /\ sink = NoName /\ torn = 0 /\ rState = "waiting"
  BY DEF SavingInit
<1>2. disk = [n \in DiskName |-> disk[n]] /\ \A n \in DiskName : ~IsOurs(n)
  BY <1>1, SavingAssumption DEF IsOurs
<1>3. ManifestOK /\ DiskShape /\ OursBefore /\ LastResort /\ TargetFresh
  BY <1>1, <1>2 DEF ManifestOK, OfferedFiles, DiskShape, OursBefore, LastResort, TargetFresh, Opened
<1>4. SinkFresh /\ Destined /\ InBatch /\ RowsOK /\ TornOK
  BY <1>1, NotNames DEF SinkFresh, Destined, InBatch, RowsOK, TornOK
<1>5. Saved
  BY <1>1 DEF Saved, Ticked
<1> QED BY <1>3, <1>4, <1>5 DEF BatchInv

\* A file whose row is ticked is on the disk as it was sent, or was handed to
\* the browser's downloads, whatever fails later, the one that was being closed
\* when the batch failed excepted; and a batch shown as complete is ticked to
\* its last file (receiver.ts:457), for any batch, limits, names and disk.
THEOREM TickedIsSaved == Spec => []BatchOnDisk
<1>1. BatchInv => BatchOnDisk
  <2> SUFFICES ASSUME BatchInv PROVE BatchOnDisk
    OBVIOUS
  <2>1. \A k \in Ticked \ {torn} : k \in downloads \/ \E n \in DiskName : disk[n] = Ours(k)
    BY DEF BatchInv, Saved, OnDisk
  <2>2. ASSUME rState = "complete" PROVE Ticked = DOMAIN manifest
    <3> DEFINE n == Len(manifest)
    <3>1. n \in Nat /\ DOMAIN manifest = 1 .. n
      BY ManifestShape DEF ManifestOK, BatchInv
    <3>2. index > n /\ index \in Nat
      BY <2>2 DEF InBatch, DiskShape, BatchInv
    <3>3. \A k \in DOMAIN manifest : k < index
      <4> HIDE DEF n
      <4> QED BY <3>1, <3>2
    <3> QED BY <3>3 DEF Ticked, Mark, RowsOK, BatchInv
  <2> QED BY <2>1, <2>2 DEF BatchOnDisk
<1> QED BY <1>1, BatchStart, BatchStep, PTL DEF Spec

-----------------------------------------------------------------------------
(* adding up *)

\* The least natural number that is not in a set is not there for a reason.
LEMMA Induction ==
  ASSUME NEW T, 0 \in T, \A k \in Nat : k \in T => k + 1 \in T
  PROVE  \A k \in Nat : k \in T
<1> SUFFICES ASSUME NEW k \in Nat, k \notin T PROVE FALSE
  OBVIOUS
<1> DEFINE Below == OpToRel(<, Nat)
           U == Nat \ T
<1>1. \A x, y \in Nat : <<x, y>> \in Below <=> x < y
  BY DEF OpToRel
<1>2. IsWellFoundedOn(Below, Nat)
  BY NatLessThanWellFounded
<1>3. U \subseteq Nat /\ U # {}
  OBVIOUS
<1>4. PICK x \in U : \A y \in U : ~(<<y, x>> \in Below)
  <2> HIDE DEF Below, U
  <2> QED BY <1>2, <1>3, WFMin
<1>5. x \in Nat /\ x \notin T /\ x # 0
  OBVIOUS
<1>6. x - 1 \in Nat /\ x - 1 < x /\ (x - 1) + 1 = x
  BY <1>5
<1>7. x - 1 \notin U
  <2> HIDE DEF Below, U
  <2> QED BY <1>1, <1>4, <1>5, <1>6
<1> QED BY <1>5, <1>6, <1>7

\* A set of positions has a last one.
LEMMA MaxOf ==
  ASSUME NEW n \in Nat, NEW s \in SUBSET (1 .. n), s # {}
  PROVE  Max(s) \in s /\ \A y \in s : y <= Max(s)
<1> DEFINE T == {k \in Nat : \A t \in SUBSET (1 .. k) : t # {} => \E x \in t : \A y \in t : x >= y}
<1>1. 0 \in T
  <2>1. SUBSET (1 .. 0) = {{}}
    OBVIOUS
  <2> QED BY <2>1
<1>2. ASSUME NEW k \in Nat, k \in T PROVE k + 1 \in T
  <2> SUFFICES ASSUME NEW t \in SUBSET (1 .. k + 1), t # {} PROVE \E x \in t : \A y \in t : x >= y
    OBVIOUS
  <2>1. CASE k + 1 \in t
    BY <2>1
  <2>2. CASE k + 1 \notin t
    <3>1. t \in SUBSET (1 .. k)
      BY <2>2
    <3> QED BY <1>2, <3>1
  <2> QED BY <2>1, <2>2
<1>3. n \in T
  <2> HIDE DEF T
  <2> QED BY <1>1, <1>2, Induction
<1>4. \E x \in s : \A y \in s : x >= y
  BY <1>3
<1> QED BY <1>4 DEF Max

\* How TotalOf, a fold from the left, adds the sizes of any subset of the files.
Recursion(files, S, it) ==
  it = [s \in SUBSET S |-> IF s = {} THEN 0 ELSE it[s \ {Max(s)}] + files[Max(s)].size]

\* Such a function exists, one file after another.
LEMMA SumExists ==
  ASSUME NEW files, NEW n \in Nat
  PROVE  \E it : Recursion(files, 1 .. n, it)
<1> DEFINE T == {k \in Nat : \E it : Recursion(files, 1 .. k, it)}
<1>1. 0 \in T
  <2>1. SUBSET (1 .. 0) = {{}}
    OBVIOUS
  <2>2. Recursion(files, 1 .. 0, [s \in SUBSET (1 .. 0) |-> 0])
    BY <2>1 DEF Recursion
  <2> QED BY <2>2
<1>2. ASSUME NEW k \in Nat, k \in T PROVE k + 1 \in T
  <2>1. PICK it : Recursion(files, 1 .. k, it)
    BY <1>2
  <2> DEFINE m == k + 1
             next == [s \in SUBSET (1 .. m) |->
                        IF m \in s THEN it[s \ {m}] + files[m].size ELSE it[s]]
  <2>2. ASSUME NEW s \in SUBSET (1 .. m)
        PROVE  next[s] = IF s = {} THEN 0 ELSE next[s \ {Max(s)}] + files[Max(s)].size
    <3>1. CASE m \in s
      <4>1. Max(s) = m
        <5>1. m \in Nat /\ s # {}
          BY <3>1
        <5>2. Max(s) \in 1 .. m /\ m <= Max(s)
          BY <3>1, <5>1, MaxOf
        <5> QED BY <5>1, <5>2
      <4>2. s \ {m} \in SUBSET (1 .. m) /\ m \notin s \ {m}
        OBVIOUS
      <4>3. next[s] = it[s \ {m}] + files[m].size /\ next[s \ {m}] = it[s \ {m}]
        BY <3>1, <4>2
      <4> HIDE DEF next, m
      <4> QED BY <3>1, <4>1, <4>3
    <3>2. CASE m \notin s /\ s # {}
      <4>1. s \in SUBSET (1 .. k)
        BY <3>2
      <4>2. Max(s) \in s
        BY <3>2, <4>1, MaxOf
      <4>3. s \ {Max(s)} \in SUBSET (1 .. m) /\ m \notin s \ {Max(s)}
        BY <3>2
      <4>4. next[s] = it[s] /\ next[s \ {Max(s)}] = it[s \ {Max(s)}]
        BY <3>2, <4>3
      <4>5. it[s] = it[s \ {Max(s)}] + files[Max(s)].size
        BY <2>1, <3>2, <4>1 DEF Recursion
      <4> HIDE DEF next, m
      <4> QED BY <3>2, <4>4, <4>5
    <3>3. CASE s = {}
      <4>1. next[{}] = it[{}]
        BY <3>3
      <4>2. it[{}] = 0
        BY <2>1 DEF Recursion
      <4> HIDE DEF next, m
      <4> QED BY <3>3, <4>1, <4>2
    <3> QED BY <3>1, <3>2, <3>3
  <2>3. Recursion(files, 1 .. m, next)
    <3>1. next = [s \in SUBSET (1 .. m) |-> next[s]]
      OBVIOUS
    <3> HIDE DEF next, m
    <3> QED BY <2>2, <3>1 DEF Recursion
  <2> QED BY <2>3
<1> HIDE DEF T
<1>3. n \in T
  BY <1>1, <1>2, Induction
<1> QED BY <1>3 DEF T

\* g[k] is what the first k files come to, and all of them to TotalOf.
Sums(files, g) ==
  /\ g \in [0 .. Len(files) -> Nat]
  /\ g[0] = 0 /\ \A k \in 1 .. Len(files) : g[k] = g[k - 1] + files[k].size
  /\ TotalOf(files) = g[Len(files)]

LEMMA TotalIsSum ==
  ASSUME NEW files, NEW n \in Nat, DOMAIN files = 1 .. n
  PROVE  \E it : Recursion(files, 1 .. n, it) /\ TotalOf(files) = it[1 .. n]
<1> DEFINE it == CHOOSE f : Recursion(files, 1 .. n, f)
<1>1. Recursion(files, 1 .. n, it)
  BY SumExists
<1>2. TotalOf(files) = it[1 .. n]
  BY DEF TotalOf, FoldLeft, MapThenFoldSet, Recursion
<1> QED BY <1>1, <1>2

LEMMA SumsExist ==
  ASSUME NEW files, NEW n \in Nat, DOMAIN files = 1 .. n, Len(files) = n,
         \A k \in 1 .. n : files[k].size \in Nat
  PROVE  \E g : Sums(files, g)
<1>1. PICK it : Recursion(files, 1 .. n, it) /\ TotalOf(files) = it[1 .. n]
  BY TotalIsSum
<1>2. it[1 .. 0] = 0
  <2>1. 1 .. 0 = {}
    OBVIOUS
  <2>2. it[{}] = 0
    BY <1>1 DEF Recursion
  <2> QED BY <2>1, <2>2
<1>3. ASSUME NEW k \in 1 .. n PROVE it[1 .. k] = it[1 .. k - 1] + files[k].size
  <2>0. k \in 1 .. k /\ 1 .. k \subseteq 1 .. n
    OBVIOUS
  <2>1. 1 .. k \in SUBSET (1 .. n) /\ 1 .. k # {} /\ k \in 1 .. k
    BY <2>0
  <2>2. Max(1 .. k) = k
    <3>1. Max(1 .. k) \in 1 .. k /\ k <= Max(1 .. k)
      BY <2>1, MaxOf
    <3> QED BY <3>1
  <2>3. (1 .. k) \ {k} = 1 .. k - 1
    OBVIOUS
  <2>4. it[1 .. k] = it[(1 .. k) \ {Max(1 .. k)}] + files[Max(1 .. k)].size
    BY <1>1, <2>1 DEF Recursion
  <2> QED BY <2>2, <2>3, <2>4
<1> DEFINE T == {k \in Nat : k <= n => it[1 .. k] \in Nat}
<1>4. \A k \in Nat : k \in T
  <2>1. 0 \in T
    BY <1>2
  <2>2. ASSUME NEW k \in Nat, k \in T PROVE k + 1 \in T
    <3>1. CASE k + 1 <= n
      <4>1. k + 1 \in 1 .. n /\ (k + 1) - 1 = k /\ it[1 .. k] \in Nat
        BY <2>2, <3>1
      <4>2. it[1 .. k + 1] = it[1 .. k] + files[k + 1].size /\ files[k + 1].size \in Nat
        BY <1>3, <4>1
      <4>3. it[1 .. k + 1] \in Nat
        BY <4>1, <4>2
      <4> QED BY <4>3
    <3>2. CASE ~(k + 1 <= n)
      BY <3>2
    <3> QED BY <3>1, <3>2
  <2> HIDE DEF T
  <2> QED BY <2>1, <2>2, Induction
<1> DEFINE g == [k \in 0 .. n |-> it[1 .. k]]
<1>5. g \in [0 .. n -> Nat] /\ g[0] = 0 /\ TotalOf(files) = g[n]
  BY <1>1, <1>2, <1>4
<1>6. \A k \in 1 .. n : g[k] = g[k - 1] + files[k].size
  BY <1>3
<1> HIDE DEF g
<1> QED BY <1>5, <1>6 DEF Sums

\* Later files only add.
LEMMA SumsGrow ==
  ASSUME NEW files, NEW g, NEW n \in Nat, Len(files) = n, Sums(files, g),
         \A k \in 1 .. n : files[k].size \in Nat,
         NEW a \in 0 .. n
  PROVE  g[a] <= g[n]
<1>0. g \in [0 .. n -> Nat] /\ \A k \in 1 .. n : g[k] = g[k - 1] + files[k].size
  BY DEF Sums
<1> DEFINE T == {d \in Nat : a + d > n \/ g[a] <= g[a + d]}
<1>1. 0 \in T
  BY <1>0
<1>2. ASSUME NEW d \in Nat, d \in T PROVE d + 1 \in T
  <2>1. CASE a + (d + 1) > n
    BY <2>1
  <2>2. CASE ~(a + (d + 1) > n)
    <3> DEFINE b == a + d
    <3>1. b \in 0 .. n /\ b + 1 \in 1 .. n /\ (b + 1) - 1 = b /\ a + (d + 1) = b + 1
      BY <2>2
    <3>2. g[a] <= g[b]
      BY <1>2, <3>1
    <3> HIDE DEF b
    <3>3. g[b + 1] = g[b] + files[b + 1].size /\ files[b + 1].size \in Nat
      BY <1>0, <3>1
    <3>4. g[a] \in Nat /\ g[b] \in Nat
      BY <1>0, <3>1
    <3>5. g[a] <= g[b + 1]
      BY <3>2, <3>3, <3>4
    <3> QED BY <3>1, <3>5
  <2> QED BY <2>1, <2>2
<1> HIDE DEF T
<1>3. n - a \in Nat /\ a + (n - a) = n
  OBVIOUS
<1>4. n - a \in T
  BY <1>1, <1>2, <1>3, Induction
<1> QED BY <1>3, <1>4 DEF T

\* The first files of a batch come to the same on their own.
LEMMA SumsOfFirst ==
  ASSUME NEW files, NEW S, files \in Seq(S), NEW n \in Nat, Len(files) = n, NEW g, Sums(files, g),
         \A k \in 1 .. n : files[k].size \in Nat,
         NEW m \in 0 .. n
  PROVE  TotalOf(SubSeq(files, 1, m)) = g[m]
<1> DEFINE first == SubSeq(files, 1, m)
<1>1. /\ DOMAIN first = 1 .. m /\ Len(first) = m
      /\ \A k \in 1 .. m : first[k] = files[k]
  BY SubSeqProperties
<1>2. m \in Nat /\ \A k \in 1 .. m : first[k].size \in Nat
  BY <1>1
<1> HIDE DEF first
<1>3. PICK h : Sums(first, h)
  BY <1>1, <1>2, SumsExist
<1>4. /\ h[0] = 0 /\ \A k \in 1 .. m : h[k] = h[k - 1] + files[k].size
      /\ TotalOf(first) = h[m]
  BY <1>1, <1>3 DEF Sums
<1>5. g[0] = 0 /\ \A k \in 1 .. n : g[k] = g[k - 1] + files[k].size
  BY DEF Sums
<1> DEFINE T == {k \in Nat : k > m \/ h[k] = g[k]}
<1>6. 0 \in T
  BY <1>4, <1>5
<1>7. ASSUME NEW k \in Nat, k \in T PROVE k + 1 \in T
  <2>1. CASE k + 1 > m
    BY <2>1
  <2>2. CASE ~(k + 1 > m)
    <3>1. k + 1 \in 1 .. m /\ k + 1 \in 1 .. n /\ (k + 1) - 1 = k /\ h[k] = g[k]
      BY <1>2, <1>7, <2>2
    <3>2. h[k + 1] = g[k + 1]
      BY <1>4, <1>5, <3>1
    <3> QED BY <3>2
  <2> QED BY <2>1, <2>2
<1> HIDE DEF T
<1>8. m \in T
  BY <1>2, <1>6, <1>7, Induction
<1> QED BY <1>2, <1>4, <1>8 DEF T, first

-----------------------------------------------------------------------------
(* the count *)

\* A file that is being opened has not got a byte; one that is being checked or
\* closed has got them all.
Before == {"picking", "looking", "creating", "opening", "hasher"}
Whole == {"checking", "closing"}

BytesInv ==
  /\ index \in 1 .. Len(manifest) + 1 /\ written \in Nat
  /\ index <= Len(manifest) => written <= manifest[index].size
  /\ index > Len(manifest) => written = 0
  /\ phase \in Before => written = 0
  /\ phase \in Whole => written = manifest[index].size
  /\ rState \in {"waiting", "offered"} => written = 0 /\ used = 0

\* What was measured, and in memory what was taken from the budget, is the files
\* before index and the bytes of that one.
Counted(g) ==
  /\ Sums(manifest, g)
  /\ meter.transferred = g[index - 1] + written
  /\ dest = "memory" => used = meter.transferred /\ TotalOf(manifest) <= MemoryLimit

CountInv == BytesInv /\ \E g : Counted(g)

LEMMA SizesOK ==
  ASSUME NEW files, OfferedFiles(files)
  PROVE  \A k \in 1 .. Len(files) : files[k].size \in Nat
<1>1. CASE files = <<>>
  BY <1>1
<1>2. CASE \E m \in Offers : Parses(m) /\ files = Read(m)
  <2>1. PICK m \in Offers : Parses(m) /\ files = Read(m)
    BY <1>2
  <2>2. DOMAIN files = 1 .. Len(files) /\ DOMAIN files = DOMAIN m.files
    BY <2>1, ManifestShape DEF Read
  <2>3. \A k \in DOMAIN m.files : files[k].size = m.files[k].size /\ m.files[k].size \in Nat
    BY <2>1, SavingAssumption DEF Read, Cleaned
  <2> QED BY <2>2, <2>3
<1> QED BY <1>1, <1>2 DEF OfferedFiles

\* A step that counts nothing and closes nothing.
CountStill ==
  /\ UNCHANGED <<manifest, index, written, used, dest>>
  /\ meter'.transferred = meter.transferred
  /\ rState' # rState => rState' \notin {"waiting", "offered"}
  /\ phase' # phase => /\ phase' \in Before => written = 0
                       /\ phase' \in Whole => written = manifest[index].size

LEMMA CountKept ==
  ASSUME CountInv, CountStill
  PROVE  CountInv'
<1>1. BytesInv'
  BY DEF CountInv, BytesInv, CountStill, Before, Whole
<1>2. PICK g : Counted(g)
  BY DEF CountInv
<1>3. Counted(g)'
  BY <1>2 DEF Counted, CountStill, Sums
<1> QED BY <1>1, <1>3 DEF CountInv

LEMMA StoppedPhase ==
  /\ Stopped(phase) \in {phase, "idle"} /\ Stopped("idle") = "idle"
  /\ "idle" \notin Before \cup Whole
BY DEF Stopped, Before, Whole

LEMMA CountFails ==
  ASSUME CountInv, NEW s \in Lost, NEW p \in {phase, "idle"},
         Fails(s, sink, p), UNCHANGED <<manifest, index, written, used, dest, meter>>
  PROVE  CountInv'
<1>1. phase' \in {phase, "idle"}
  BY StoppedPhase DEF Fails
<1>2. rState' = rState \/ rState' = s
  BY StateOf DEF Fails, REmits
<1> QED BY <1>1, <1>2, StoppedPhase, CountKept DEF CountStill, Lost

LEMMA CountRest ==
  ASSUME BatchInv, CountInv,
         \/ OfferUnread \/ AcceptAgain \/ Decline \/ Dismiss \/ OpenFails \/ WriteFails
         \/ Mismatches \/ TimePasses
         \/ Matches \/ CloseFails \/ Verifies \/ Completes \/ Breaks \/ Leave \/ Stranger
         \/ Look \/ Create \/ Opens
  PROVE  CountInv'
<1> USE DEF fileVars, placeVars, meterVars
<1>1. CASE OfferUnread \/ AcceptAgain \/ OpenFails \/ WriteFails \/ Mismatches \/ Breaks
  <2>1. \E s \in Lost, p \in {phase, "idle"} : Fails(s, sink, p)
    BY <1>1, LossesOK DEF OfferUnread, AcceptAgain, OpenFails, WriteFails, Mismatches, Breaks, Lost
  <2> QED BY <1>1, <2>1, CountFails
          DEF OfferUnread, AcceptAgain, OpenFails, WriteFails, Mismatches, Breaks
<1>2. CASE Dismiss
  <2>1. CASE dest = "perFile"
    BY <1>2, <2>1, CountFails DEF Dismiss, Lost
  <2>2. CASE dest # "perFile"
    BY <1>2, <2>2, StoppedPhase, CountKept DEF Dismiss, CountStill
  <2> QED BY <2>1, <2>2
<1>3. CASE Decline \/ Leave
  <2>1. phase' \in {phase, "idle"} /\ (rState' = rState \/ rState' = "declined")
    BY <1>3, StoppedPhase, StateOf DEF Decline, Leave, REmits
  <2> QED BY <1>3, <2>1, StoppedPhase, CountKept DEF Decline, Leave, CountStill
<1>4. CASE Verifies \/ Completes
  <2>1. rState' \in {"verifying", "complete"}
    BY <1>4, StateOf DEF Verifies, Completes, REmits
  <2> QED BY <1>4, <2>1, CountKept DEF Verifies, Completes, CountStill
<1>5. CASE CloseFails
  <2>1. rState' = rState \/ rState' = "failed"
    BY <1>5, StateOf DEF CloseFails, REmits
  <2> QED BY <1>5, <2>1, StoppedPhase, CountKept DEF CloseFails, CountStill
<1>6. CASE Stranger \/ TimePasses
  BY <1>6, CountKept DEF Stranger, TimePasses, CountStill
<1>7. CASE Matches
  <2>1. phase' = "closing" /\ written = manifest[index].size
    BY <1>7 DEF Matches, CountInv, BytesInv, Whole
  <2> QED BY <1>7, <2>1, CountKept DEF Matches, CountStill, Before
<1>8. CASE Look \/ Create \/ Opens
  <2>1. written = 0 /\ phase' \notin Whole
    BY <1>8 DEF Look, Create, Opens, CountInv, BytesInv, Before, Whole
  <2> QED BY <1>8, <2>1, CountKept DEF Look, Create, Opens, CountStill
<1> QED BY <1>1, <1>2, <1>3, <1>4, <1>5, <1>6, <1>7, <1>8

\* An offer begins the count; a browser that keeps files in memory has checked
\* that all of them fit.
LEMMA CountOffer ==
  ASSUME BatchInv, CountInv, OfferRead
  PROVE  BatchInv' => CountInv'
<1> USE DEF fileVars, meterVars
<1>1. /\ rState = "waiting" /\ phase = "idle" /\ dest = "none" /\ index = 1
      /\ written = 0 /\ used = 0
      /\ UNCHANGED <<phase, index, written, used, dest, meter>>
  BY DEF OfferRead, BatchInv, InBatch, Destined, CountInv, BytesInv
<1>2. meter.transferred = 0
  <2>1. PICK g : Counted(g)
    BY DEF CountInv
  <2> QED BY <1>1, <2>1 DEF Counted, Sums
<1> SUFFICES ASSUME BatchInv' PROVE CountInv'
  OBVIOUS
<1> DEFINE n == Len(manifest')
<1>3. OfferedFiles(manifest') /\ n \in Nat /\ DOMAIN manifest' = 1 .. n
  BY ManifestShape DEF BatchInv, ManifestOK, OfferedFiles
<1>4. \A k \in 1 .. n : manifest'[k].size \in Nat
  BY <1>3, SizesOK
<1>5. PICK h : Sums(manifest', h)
  BY <1>3, <1>4, SumsExist
<1>6. Counted(h)'
  BY <1>1, <1>2, <1>5 DEF Counted, Sums
<1>7. BytesInv'
  <2>1. /\ index' = 1 /\ written' = 0 /\ used' = 0 /\ phase' = "idle" /\ n \in Nat
        /\ n >= 1 => 0 <= manifest'[1].size
    <3> HIDE DEF n
    <3> QED BY <1>1, <1>3, <1>4
  <2> QED BY <2>1 DEF BytesInv, Before, Whole
<1> QED BY <1>6, <1>7 DEF CountInv

LEMMA CountChoice ==
  ASSUME BatchInv, CountInv, Accept \/ PickName \/ PickFolder
  PROVE  CountInv'
<1> USE DEF fileVars, placeVars, meterVars
<1>1. UNCHANGED <<manifest, index, written, used, meter, rState>> /\ written = 0 /\ phase' \notin Whole
  BY DEF Accept, Acceptable, PickName, PickFolder, CountInv, BytesInv, Before, Whole
<1>2. BytesInv'
  BY <1>1 DEF CountInv, BytesInv
<1>3. PICK g : Counted(g)
  BY DEF CountInv
<1>4. dest' = "memory" => used = meter.transferred /\ TotalOf(manifest) <= MemoryLimit
  <2>1. CASE Accept
    <3>1. index = 1 /\ used = 0 /\ g[0] = 0
      BY <1>3, <2>1 DEF Accept, Acceptable, BatchInv, InBatch, CountInv, BytesInv, Counted, Sums
    <3>2. dest' = "memory" => Capability(browser, manifest) = "memory"
      BY <2>1 DEF Accept
    <3> QED BY <1>1, <1>3, <3>1, <3>2 DEF Capability, Counted
  <2>2. CASE PickName \/ PickFolder
    BY <1>3, <2>2 DEF PickName, PickFolder, Counted
  <2> QED BY <2>1, <2>2
<1>5. Counted(g)'
  BY <1>1, <1>3, <1>4 DEF Counted, Sums
<1> QED BY <1>2, <1>5 DEF CountInv

LEMMA CountReady ==
  ASSUME CountInv, HasherReady
  PROVE  CountInv'
<1> USE DEF fileVars, placeVars, meterVars
<1>1. /\ UNCHANGED <<manifest, index, written, used, dest>> /\ written = 0 /\ phase' = "ready"
      /\ (rState' = rState \/ rState' = "receiving")
  BY StateOf DEF HasherReady, CountInv, BytesInv, Before, REmits
<1>2. meter'.transferred = meter.transferred
  <2>1. PICK g : Counted(g)
    BY DEF CountInv
  <2>2. CASE index = 1
    BY <1>1, <2>1, <2>2 DEF HasherReady, Started, Counted, Sums
  <2>3. CASE index # 1
    BY <2>3 DEF HasherReady
  <2> QED BY <2>2, <2>3
<1> QED BY <1>1, <1>2, CountKept DEF CountStill, Before, Whole

LEMMA CountPiece ==
  ASSUME BatchInv, CountInv, Piece
  PROVE  CountInv'
<1> USE DEF placeVars
<1>0. /\ UNCHANGED <<manifest, index, dest>>
      /\ phase = "ready" /\ rState \notin {"waiting", "offered"}
      /\ written < manifest[index].size
      /\ index \in 1 .. Len(manifest) /\ written \in Nat
  BY DEF Piece, Receiving, RMoving, BatchInv, InBatch, CountInv, BytesInv
<1> DEFINE n == Len(manifest)
<1>1. n \in Nat /\ \A k \in 1 .. n : manifest[k].size \in Nat
  BY ManifestShape, SizesOK DEF BatchInv, ManifestOK
<1>2. PICK g : Counted(g)
  BY DEF CountInv
<1>3. /\ g \in [0 .. n -> Nat] /\ TotalOf(manifest) = g[n]
      /\ g[index] = g[index - 1] + manifest[index].size
  BY <1>0, <1>2 DEF Counted, Sums
<1>4. g[index] <= g[n]
  <2>1. index \in 0 .. n
    BY <1>0
  <2> HIDE DEF n
  <2> QED BY <1>1, <1>2, <2>1, SumsGrow DEF Counted, n
<1>5. dest = "memory" => ~(used + 1 > MemoryLimit)
  <2>1. index \in 0 .. n /\ index - 1 \in 0 .. n /\ index \in 1 .. n
    BY <1>0, <1>1
  <2>2. g[index - 1] \in Nat /\ g[index] \in Nat /\ g[n] \in Nat /\ manifest[index].size \in Nat
    <3> HIDE DEF n
    <3> QED BY <1>1, <1>3, <2>1
  <2>3. dest = "memory" => used = g[index - 1] + written /\ g[n] <= MemoryLimit
    BY <1>2, <1>3 DEF Counted
  <2> HIDE DEF n
  <2> QED BY <1>0, <1>3, <1>4, <2>2, <2>3, LimitsAssumption
<1>6. CASE (IF dest = "memory" THEN used + 1 ELSE used) > MemoryLimit
  <2>1. dest # "memory" /\ Fails("failed", sink, "idle") /\ UNCHANGED <<written, meter, used>>
    BY <1>5, <1>6 DEF Piece, meterVars
  <2> QED BY <1>0, <2>1, CountFails DEF Lost
<1>7. CASE ~((IF dest = "memory" THEN used + 1 ELSE used) > MemoryLimit)
  <2>1. /\ written' = written + 1 /\ rState' = rState
        /\ used' = (IF dest = "memory" THEN used + 1 ELSE used)
        /\ phase' = IF written' = manifest[index].size THEN "checking" ELSE "ready"
        /\ meter'.transferred = meter.transferred + 1
    <3>1. /\ written' = written + 1
          /\ phase' = IF written' = manifest[index].size THEN "checking" ELSE "ready"
          /\ meter' = Measured(meter, meter.transferred + 1, clock)
          /\ rState' = rState
      BY <1>7 DEF Piece
    <3>2. used' = (IF dest = "memory" THEN used + 1 ELSE used)
      BY DEF Piece
    <3>3. meter'.transferred = meter.transferred + 1
      BY <3>1 DEF Measured
    <3> QED BY <3>1, <3>2, <3>3
  <2>2. BytesInv'
    BY <1>0, <1>1, <2>1 DEF CountInv, BytesInv, Before, Whole
  <2>3. g[index - 1] \in Nat
    <3>1. index - 1 \in 0 .. n
      BY <1>0, <1>1
    <3> QED BY <1>3, <3>1
  <2>4. Counted(g)'
    <3>1. Sums(manifest', g)
      BY <1>0, <1>2 DEF Counted, Sums
    <3>2. meter'.transferred = g[index' - 1] + written'
      BY <1>0, <1>2, <2>1, <2>3 DEF Counted
    <3>3. dest' = "memory" => used' = meter'.transferred /\ TotalOf(manifest') <= MemoryLimit
      BY <1>0, <1>2, <2>1 DEF Counted
    <3> QED BY <3>1, <3>2, <3>3 DEF Counted, Sums
  <2> QED BY <2>2, <2>4 DEF CountInv
<1> QED BY <1>6, <1>7

LEMMA CountCloses ==
  ASSUME BatchInv, CountInv, Closes
  PROVE  CountInv'
<1> USE DEF placeVars, meterVars
<1> DEFINE n == Len(manifest)
<1>0. /\ UNCHANGED <<manifest, used, dest, meter, rState>> /\ index' = index + 1 /\ written' = 0
      /\ phase = "closing" /\ phase' \notin Whole /\ index \in 1 .. n /\ written = manifest[index].size
  BY DEF Closes, Begins, Whole, BatchInv, InBatch, CountInv, BytesInv
<1>1. n \in Nat /\ \A k \in 1 .. n : manifest[k].size \in Nat
  BY ManifestShape, SizesOK DEF BatchInv, ManifestOK
<1>2. PICK g : Counted(g)
  BY DEF CountInv
<1>3. g \in [0 .. n -> Nat] /\ g[index] = g[index - 1] + manifest[index].size
  BY <1>0, <1>2 DEF Counted, Sums
<1>4. index' \in 1 .. Len(manifest') + 1 /\ (index' <= Len(manifest') => 0 <= manifest'[index'].size)
  <2>1. Len(manifest') = n /\ \A k \in 1 .. n : manifest'[k].size \in Nat
    BY <1>0, <1>1
  <2> HIDE DEF n
  <2> QED BY <1>0, <1>1, <2>1
<1>5. BytesInv'
  BY <1>0, <1>4 DEF CountInv, BytesInv
<1>6. Counted(g)'
  <2>1. meter.transferred = g[index] /\ index' - 1 = index /\ g[index] \in Nat
    <3>1. index \in 0 .. n
      BY <1>0
    <3> QED BY <1>0, <1>2, <1>3, <3>1 DEF Counted
  <2>2. meter'.transferred = g[index' - 1] + written'
    BY <1>0, <2>1
  <2> QED BY <1>0, <1>2, <2>2 DEF Counted, Sums
<1> QED BY <1>5, <1>6 DEF CountInv

LEMMA CountStep == BatchInv /\ CountInv /\ [Next]_vars => CountInv'
<1> SUFFICES ASSUME BatchInv, CountInv, [Next]_vars PROVE CountInv'
  OBVIOUS
<1>0. BatchInv'
  BY BatchStep
<1>1. CASE SavingNext
  BY <1>0, <1>1, OfferCases, CountRest, CountOffer, CountChoice, CountReady, CountPiece, CountCloses
    DEF SavingNext
<1>2. CASE UNCHANGED savingVars
  BY <1>2, CountKept DEF savingVars, CountStill
<1>3. CASE UNCHANGED vars
  BY <1>3, CountKept DEF vars, savingVars, CountStill
<1> QED BY <1>1, <1>2, <1>3 DEF Next

LEMMA CountStart == Init => CountInv
<1> SUFFICES ASSUME NEW b, NEW before \in Present, SavingInit(b, before) PROVE CountInv
  <2>1. (CHOOSE d \in Present : TRUE) \in Present
    BY SavingAssumption
  <2> QED BY <2>1 DEF Init
<1>1. /\ manifest = <<>> /\ index = 1 /\ written = 0 /\ used = 0 /\ phase = "idle"
      /\ dest = "none" /\ meter.transferred = 0
  BY DEF SavingInit, Started
<1>2. Len(manifest) = 0 /\ DOMAIN manifest = 1 .. 0
  BY <1>1
<1>3. PICK g : Sums(manifest, g)
  BY <1>2, SumsExist
<1>4. Counted(g)
  BY <1>1, <1>3 DEF Counted, Sums
<1>5. BytesInv
  BY <1>1, <1>2 DEF BytesInv, Before, Whole
<1> QED BY <1>4, <1>5 DEF CountInv

LEMMA CountInvariant == Spec => [](BatchInv /\ CountInv)
BY BatchStart, BatchStep, CountStart, CountStep, PTL DEF Spec

\* What has been received is no more than the batch.
LEMMA WithinTotal ==
  ASSUME BatchInv, BytesInv, NEW g, Counted(g)
  PROVE  g[index - 1] + written <= TotalOf(manifest)
<1> DEFINE n == Len(manifest)
<1>1. n \in Nat /\ \A k \in 1 .. n : manifest[k].size \in Nat
  BY ManifestShape, SizesOK DEF BatchInv, ManifestOK
<1>2. /\ g \in [0 .. n -> Nat] /\ TotalOf(manifest) = g[n] /\ index \in 1 .. n + 1 /\ written \in Nat
      /\ \A k \in 1 .. n : g[k] = g[k - 1] + manifest[k].size
  BY DEF Counted, Sums, BytesInv
<1>3. CASE index > n
  <2>1. index - 1 = n /\ written = 0
    <3>1. written = 0
      BY <1>3 DEF BytesInv
    <3> HIDE DEF n
    <3> QED BY <1>1, <1>2, <1>3, <3>1
  <2> HIDE DEF n
  <2>2. g[n] \in Nat
    BY <1>1, <1>2
  <2> QED BY <1>2, <2>1, <2>2
<1>4. CASE ~(index > n)
  <2>1. index \in 1 .. n /\ index \in 0 .. n /\ index - 1 \in 0 .. n
    <3> HIDE DEF n
    <3> QED BY <1>1, <1>2, <1>4
  <2>2. g[index] <= g[n]
    <3>1. Sums(manifest, g)
      BY DEF Counted
    <3> HIDE DEF n
    <3> QED BY <1>1, <2>1, <3>1, SumsGrow DEF n
  <2>3. written <= manifest[index].size
    BY <2>1 DEF BytesInv
  <2>4. g[index] = g[index - 1] + manifest[index].size /\ g[index - 1] \in Nat /\ g[n] \in Nat
        /\ manifest[index].size \in Nat
    <3> HIDE DEF n
    <3> QED BY <1>1, <1>2, <2>1
  <2> HIDE DEF n
  <2> QED BY <1>2, <2>2, <2>3, <2>4
<1> QED BY <1>3, <1>4

\* A batch the page offered to accept into memory fits there to its last byte:
\* assessCapability (sink.ts:90) and the budget of MemorySink count alike, for
\* batches of any length and any limit.
THEOREM BatchFits == Spec => []HonestBatchFits
<1>1. BatchInv /\ CountInv => HonestBatchFits
  <2> SUFFICES ASSUME BatchInv, CountInv, dest = "memory" PROVE used <= MemoryLimit
    BY DEF HonestBatchFits
  <2>1. PICK g : Counted(g)
    BY DEF CountInv
  <2> DEFINE sum == g[index - 1] + written
  <2>2. sum <= TotalOf(manifest)
    BY <2>1, WithinTotal DEF CountInv
  <2>3. used = sum /\ TotalOf(manifest) <= MemoryLimit
    BY <2>1 DEF Counted
  <2>4. sum \in Nat /\ TotalOf(manifest) \in Nat
    <3>1. g \in [0 .. Len(manifest) -> Nat] /\ Len(manifest) \in Nat
          /\ index - 1 \in 0 .. Len(manifest) /\ written \in Nat /\ TotalOf(manifest) = g[Len(manifest)]
      BY <2>1, ManifestShape DEF Counted, Sums, CountInv, BytesInv, BatchInv, ManifestOK
    <3> QED BY <3>1
  <2> HIDE DEF sum
  <2> QED BY <2>2, <2>3, <2>4, LimitsAssumption
<1> QED BY <1>1, CountInvariant, PTL

-----------------------------------------------------------------------------
(* the readout *)

Reading == [at : Nat, bytes : Nat]
InOrder(rs) == \A i, j \in DOMAIN rs : i <= j => rs[i].at <= rs[j].at

\* The readings older than the window, and where what counts begins.
Old(rs) == {i \in DOMAIN rs : rs[Len(rs)].at - rs[i].at > Window}
From(rs) == Max({1} \cup Old(rs))

\* ss is what is left of rs from f on.
EndOf(ss, rs, f) ==
  /\ ss \in Seq(Reading) /\ f \in 1 .. Len(rs) /\ Len(ss) = Len(rs) - f + 1
  /\ \A j \in 1 .. Len(ss) : ss[j] = rs[f + j - 1]

\* The meter keeps what the window needs, and nothing else.
ReadingsInv ==
  /\ readings \in Seq(Reading) /\ readings # <<>> /\ InOrder(readings)
  /\ clock \in Nat /\ readings[Len(readings)].at <= clock
  /\ EndOf(meter.samples, readings, From(readings))

LEMMA FromOK ==
  ASSUME NEW rs \in Seq(Reading), rs # <<>>
  PROVE  /\ From(rs) \in 1 .. Len(rs) /\ From(rs) \in {1} \cup Old(rs)
         /\ \A i \in Old(rs) : i <= From(rs)
<1> DEFINE n == Len(rs)
           s == {1} \cup Old(rs)
<1>1. n \in Nat /\ n # 0 /\ DOMAIN rs = 1 .. n
  BY EmptySeq, LenProperties
<1>2. s \in SUBSET (1 .. n) /\ s # {}
  BY <1>1 DEF Old
<1>3. Max(s) \in s /\ \A y \in s : y <= Max(s)
  <2> HIDE DEF n, s
  <2> QED BY <1>1, <1>2, MaxOf
<1> QED BY <1>2, <1>3 DEF From

\* One more reading: the samples the loop of set() drops are those the window
\* has left behind.
LEMMA KeptIsEnd ==
  ASSUME NEW rs \in Seq(Reading), rs # <<>>, InOrder(rs), NEW ss, EndOf(ss, rs, From(rs)),
         NEW r \in Reading, rs[Len(rs)].at <= r.at
  PROVE  /\ InOrder(Append(rs, r))
         /\ EndOf(Kept(Append(ss, r), r.at), Append(rs, r), From(Append(rs, r)))
<1> DEFINE n == Len(rs)
           f == From(rs)
           m == Len(ss)
           rs2 == Append(rs, r)
           ss2 == Append(ss, r)
           f2 == From(rs2)
           now == r.at
<1>1. n \in Nat /\ n # 0 /\ DOMAIN rs = 1 .. n /\ \A i \in 1 .. n : rs[i] \in Reading
  BY EmptySeq, LenProperties, ElementOfSeq
<1>2. f \in 1 .. n /\ m = n - f + 1 /\ ss \in Seq(Reading) /\ \A j \in 1 .. m : ss[j] = rs[f + j - 1]
  BY DEF EndOf
<1>3. /\ rs2 \in Seq(Reading) /\ Len(rs2) = n + 1 /\ DOMAIN rs2 = 1 .. n + 1
      /\ rs2[n + 1] = r /\ \A i \in 1 .. n : rs2[i] = rs[i]
  BY AppendProperties, LenProperties
<1>4. /\ ss2 \in Seq(Reading) /\ Len(ss2) = m + 1
      /\ ss2[m + 1] = r /\ \A i \in 1 .. m : ss2[i] = ss[i]
  BY <1>2, AppendProperties
<1>5. m \in Nat
  <2> HIDE DEF n, f, m
  <2> QED BY <1>1, <1>2
<1>6. \A j \in 1 .. m + 1 : f + j - 1 \in 1 .. n + 1 /\ ss2[j] = rs2[f + j - 1]
  <2> SUFFICES ASSUME NEW j \in 1 .. m + 1
               PROVE  f + j - 1 \in 1 .. n + 1 /\ ss2[j] = rs2[f + j - 1]
    OBVIOUS
  <2>1. CASE j = m + 1
    <3>1. f + j - 1 = n + 1
      <4> HIDE DEF n, f, m
      <4> QED BY <1>1, <1>2, <2>1
    <3> QED BY <1>1, <1>3, <1>4, <2>1, <3>1
  <2>2. CASE j # m + 1
    <3>1. j \in 1 .. m /\ f + j - 1 \in 1 .. n
      <4> HIDE DEF n, f, m
      <4> QED BY <1>1, <1>2, <1>5, <2>2
    <3> QED BY <1>1, <1>2, <1>3, <1>4, <3>1
  <2> QED BY <2>1, <2>2
<1> HIDE DEF ss2
<1>7. InOrder(rs2)
  <2> SUFFICES ASSUME NEW i \in 1 .. n + 1, NEW j \in 1 .. n + 1, i <= j
               PROVE  rs2[i].at <= rs2[j].at
    BY <1>3 DEF InOrder
  <2>1. rs[n].at <= now /\ now \in Nat /\ \A k \in 1 .. n : rs[k].at \in Nat /\ rs[k].at <= rs[n].at
    <3>1. \A k \in 1 .. n : rs[k].at <= rs[n].at
      <4>1. n \in 1 .. n
        BY <1>1
      <4> QED BY <1>1, <4>1 DEF InOrder
    <3> QED BY <1>1, <3>1 DEF Reading
  <2>2. CASE j = n + 1
    <3>1. rs2[j].at = now
      BY <1>3, <2>2
    <3>2. rs2[i].at = now \/ (i \in 1 .. n /\ rs2[i].at = rs[i].at)
      <4> HIDE DEF n, rs2
      <4> QED BY <1>1, <1>3
    <3> HIDE DEF n, rs2, now
    <3> QED BY <1>1, <2>1, <3>1, <3>2
  <2>3. CASE j # n + 1
    <3>1. i \in 1 .. n /\ j \in 1 .. n
      <4> HIDE DEF n, rs2
      <4> QED BY <1>1, <2>3
    <3>2. rs2[i] = rs[i] /\ rs2[j] = rs[j]
      BY <1>3, <3>1
    <3> QED BY <1>1, <3>1, <3>2 DEF InOrder
  <2> QED BY <2>2, <2>3
<1>8. Old(rs2) = {i \in 1 .. n + 1 : now - rs2[i].at > Window}
  BY <1>3 DEF Old
<1>9. \A i \in 1 .. n + 1 : rs2[i].at \in Nat
  <2> SUFFICES ASSUME NEW i \in 1 .. n + 1 PROVE rs2[i].at \in Nat
    OBVIOUS
  <2>1. rs2[i] = r \/ (i \in 1 .. n /\ rs2[i] = rs[i])
    <3> HIDE DEF n, rs2
    <3> QED BY <1>1, <1>3
  <2> HIDE DEF n, rs2
  <2> QED BY <1>1, <2>1 DEF Reading
<1> HIDE DEF rs2
<1>10. f2 \in 1 .. n + 1 /\ (f2 = 1 \/ f2 \in Old(rs2)) /\ \A i \in Old(rs2) : i <= f2
  <2>1. rs2 # <<>>
    BY <1>1, <1>3
  <2> QED BY <1>3, <2>1, FromOK
<1>11. \A i, j \in 1 .. n + 1 : j \in Old(rs2) /\ i <= j => i \in Old(rs2)
  <2> SUFFICES ASSUME NEW i \in 1 .. n + 1, NEW j \in 1 .. n + 1, j \in Old(rs2), i <= j
               PROVE  i \in Old(rs2)
    OBVIOUS
  <2>1. rs2[i].at <= rs2[j].at
    BY <1>3, <1>7 DEF InOrder
  <2>2. now - rs2[j].at > Window
    BY <1>8
  <2>3. now \in Nat /\ Window \in Nat
    BY MeterAssumption DEF Reading
  <2>4. now - rs2[i].at > Window
    <3> HIDE DEF now
    <3> QED BY <1>9, <2>1, <2>2, <2>3
  <2> QED BY <1>8, <2>4
<1>12. n + 1 \notin Old(rs2)
  <2>1. now - rs2[n + 1].at = 0
    BY <1>3 DEF Reading
  <2> QED BY <1>8, <2>1, MeterAssumption
<1>13. f <= f2
  <2>1. CASE f = 1
    <3> HIDE DEF n, f, f2
    <3> QED BY <1>10, <2>1
  <2>2. CASE f # 1
    <3>1. f \in Old(rs)
      BY <2>2, FromOK
    <3>2. rs[n].at - rs[f].at > Window /\ rs2[f] = rs[f]
      BY <1>2, <1>3, <3>1 DEF Old
    <3>3. rs[n].at \in Nat /\ rs[f].at \in Nat /\ rs[n].at <= now /\ now \in Nat
      <4>1. n \in 1 .. n
        BY <1>1
      <4> QED BY <1>1, <1>2, <4>1 DEF Reading
    <3>4. now - rs2[f].at > Window
      <4> HIDE DEF n, f, now
      <4> QED BY <3>2, <3>3, MeterAssumption
    <3>5. f \in 1 .. n + 1
      <4> HIDE DEF n, f
      <4> QED BY <1>1, <1>2
    <3> QED BY <1>8, <1>10, <3>4, <3>5
  <2> QED BY <2>1, <2>2
<1> DEFINE D == {0} \cup {d \in 1 .. Len(ss2) - 1 : \A j \in 1 .. d : now - ss2[j + 1].at > Window}
           drop == f2 - f
<1>14. f2 \in 1 .. n \/ f2 = 1
  <2>1. f2 # n + 1
    <3>1. CASE f2 \in Old(rs2)
      BY <1>12, <3>1
    <3>2. CASE f2 = 1
      <4> HIDE DEF n, f2
      <4> QED BY <1>1, <3>2
    <3> QED BY <1>10, <3>1, <3>2
  <2> HIDE DEF n, f2
  <2> QED BY <1>1, <1>10, <2>1
<1>15. drop \in 0 .. m
  <2> HIDE DEF n, f, f2, m
  <2> QED BY <1>1, <1>2, <1>5, <1>13, <1>14
<1>16. \A j \in 1 .. m : now - ss2[j + 1].at > Window <=> f + j \in Old(rs2)
  <2> SUFFICES ASSUME NEW j \in 1 .. m
               PROVE  now - ss2[j + 1].at > Window <=> f + j \in Old(rs2)
    OBVIOUS
  <2>1. j + 1 \in 1 .. m + 1 /\ f + (j + 1) - 1 = f + j
    <3> HIDE DEF n, f, m
    <3> QED BY <1>1, <1>2, <1>5
  <2>2. f + j \in 1 .. n + 1 /\ ss2[j + 1] = rs2[f + j]
    <3>1. f + (j + 1) - 1 \in 1 .. n + 1 /\ ss2[j + 1] = rs2[f + (j + 1) - 1]
      BY <1>6, <2>1
    <3> HIDE DEF f
    <3> QED BY <2>1, <3>1
  <2> QED BY <1>8, <2>2
<1>17. drop \in D
  <2>1. CASE drop = 0
    BY <2>1
  <2>2. CASE drop # 0
    <3>1. drop \in 1 .. Len(ss2) - 1
      <4>1. drop \in 1 .. m
        <5> HIDE DEF drop
        <5> QED BY <1>5, <1>15, <2>2
      <4>2. Len(ss2) - 1 = m
        <5> HIDE DEF m
        <5> QED BY <1>4, <1>5
      <4> QED BY <4>1, <4>2
    <3>2. ASSUME NEW j \in 1 .. drop PROVE now - ss2[j + 1].at > Window
      <4>1. f2 \in Old(rs2)
        <5>1. f2 # 1
          <6> HIDE DEF f, f2, n
          <6> QED BY <1>1, <1>2, <1>13, <2>2 DEF drop
        <5> QED BY <1>10, <5>1
      <4>2. f + j \in 1 .. n + 1 /\ f + j <= f2 /\ j \in 1 .. m
        <5> HIDE DEF f, f2, n, m
        <5> QED BY <1>1, <1>2, <1>5, <1>10, <1>15 DEF drop
      <4>3. f + j \in Old(rs2)
        BY <1>10, <1>11, <4>1, <4>2
      <4> QED BY <1>16, <4>2, <4>3
    <3> HIDE DEF drop
    <3> QED BY <3>1, <3>2
  <2> QED BY <2>1, <2>2
<1>18. ASSUME NEW d \in D PROVE d <= drop
  <2>1. CASE d = 0
    <3> HIDE DEF drop
    <3> QED BY <1>5, <1>15, <2>1
  <2>2. CASE d # 0
    <3>1. d \in 1 .. m /\ now - ss2[d + 1].at > Window
      <4>1. d \in 1 .. Len(ss2) - 1 /\ now - ss2[d + 1].at > Window
        BY <2>2
      <4>2. Len(ss2) - 1 = m
        <5> HIDE DEF m
        <5> QED BY <1>4, <1>5
      <4> QED BY <4>1, <4>2
    <3>2. f + d <= f2
      BY <1>10, <1>16, <3>1
    <3> HIDE DEF f, f2, n
    <3> QED BY <1>1, <1>2, <1>10, <3>1, <3>2 DEF drop
  <2> QED BY <2>1, <2>2
<1>19. Max(D) = drop
  <2>1. D \subseteq Int /\ drop \in Int
    <3>1. \A d \in D : d = 0 \/ d \in 1 .. Len(ss2) - 1
      OBVIOUS
    <3>2. drop \in Int
      <4> HIDE DEF drop
      <4> QED BY <1>15
    <3> HIDE DEF D, drop
    <3> QED BY <3>1, <3>2
  <2> HIDE DEF D, drop
  <2>2. \A x \in D : (\A y \in D : x >= y) => x = drop
    <3> SUFFICES ASSUME NEW x \in D, \A y \in D : x >= y PROVE x = drop
      OBVIOUS
    <3>1. x >= drop /\ x <= drop /\ x \in Int
      BY <1>17, <1>18, <2>1
    <3> QED BY <2>1, <3>1
  <2>3. \A y \in D : drop >= y
    BY <1>18, <2>1
  <2> QED BY <1>17, <2>2, <2>3 DEF Max
<1>20. Kept(ss2, now) = SubSeq(ss2, drop + 1, m + 1)
  <2>1. Kept(ss2, now) = SubSeq(ss2, Max(D) + 1, Len(ss2))
    BY DEF Kept
  <2> HIDE DEF D, drop
  <2> QED BY <1>4, <1>19, <2>1
<1> DEFINE kept == SubSeq(ss2, drop + 1, m + 1)
<1>21. /\ kept \in Seq(Reading) /\ Len(kept) = (m + 1) - drop
       /\ \A j \in 1 .. (m + 1) - drop : kept[j] = ss2[drop + j]
  <2>1. drop \in 0 .. m /\ drop + 1 \in 1 .. m + 1 /\ drop + 1 \in Int /\ m + 1 \in Int
    <3> HIDE DEF m, drop
    <3> QED BY <1>5, <1>15
  <2>2. kept \in Seq(Reading)
    <3> HIDE DEF drop, m
    <3> QED BY <1>4, <1>5, <2>1, SubSeqProperties
  <2>3. Len(kept) = (m + 1) - drop
    <3> HIDE DEF drop, m
    <3> QED BY <1>4, <1>5, <2>1, SubSeqProperties
  <2>4. ASSUME NEW j \in 1 .. (m + 1) - drop PROVE kept[j] = ss2[drop + j]
    <3>1. kept[j] = ss2[(drop + 1) + j - 1] /\ (drop + 1) + j - 1 = drop + j
      <4> HIDE DEF drop, m
      <4> QED BY <1>4, <1>5, <2>1, SubSeqProperties
    <3> HIDE DEF drop, m, kept
    <3> QED BY <3>1
  <2> QED BY <2>2, <2>3, <2>4
<1>22. EndOf(kept, rs2, f2)
  <2>1. f2 \in 1 .. Len(rs2)
    BY <1>3, <1>10
  <2>2. Len(kept) = Len(rs2) - f2 + 1
    <3>1. (m + 1) - drop = (n + 1) - f2 + 1
      <4> HIDE DEF m, n, f, f2
      <4> QED BY <1>1, <1>2, <1>5, <1>10 DEF drop
    <3> HIDE DEF kept, drop, f2
    <3> QED BY <1>3, <1>21, <3>1
  <2>3. ASSUME NEW j \in 1 .. Len(kept) PROVE kept[j] = rs2[f2 + j - 1]
    <3>1. j \in 1 .. (m + 1) - drop
      <4> HIDE DEF kept, drop
      <4> QED BY <1>21
    <3>2. drop + j \in 1 .. m + 1 /\ f + (drop + j) - 1 = f2 + j - 1
      <4> HIDE DEF m, n, f, f2, kept
      <4> QED BY <1>1, <1>2, <1>5, <1>10, <1>15, <3>1 DEF drop
    <3>3. kept[j] = ss2[drop + j]
      BY <1>21, <3>1
    <3>4. ss2[drop + j] = rs2[f + (drop + j) - 1]
      <4> HIDE DEF f, m, drop, kept
      <4> QED BY <1>6, <3>2
    <3> HIDE DEF f, m, drop, kept, f2
    <3> QED BY <3>2, <3>3, <3>4
  <2> HIDE DEF kept, f2
  <2> QED BY <1>21, <2>1, <2>2, <2>3 DEF EndOf
<1>23. EndOf(Kept(ss2, now), rs2, f2)
  <2> HIDE DEF kept, f2, now
  <2> QED BY <1>20, <1>22 DEF kept
<1> QED BY <1>7, <1>23 DEF rs2, ss2

LEMMA FreshReadings ==
  ASSUME clock' \in Nat, readings' = <<[at |-> clock', bytes |-> 0]>>, meter'.samples = readings'
  PROVE  ReadingsInv'
<1> DEFINE r == [at |-> clock', bytes |-> 0]
<1>1. /\ readings' = <<r>> /\ readings' \in Seq(Reading) /\ readings' # <<>> /\ Len(readings') = 1
      /\ readings'[1] = r /\ DOMAIN readings' = 1 .. 1
  BY DEF Reading
<1>2. InOrder(readings')
  BY <1>1 DEF InOrder
<1>3. From(readings') = 1
  <2>1. From(readings') \in 1 .. 1
    BY <1>1, FromOK
  <2> QED BY <2>1
<1>4. EndOf(meter'.samples, readings', 1)
  <2>1. \A j \in 1 .. 1 : 1 + j - 1 = j
    OBVIOUS
  <2> QED BY <1>1, <2>1 DEF EndOf
<1> QED BY <1>1, <1>2, <1>3, <1>4 DEF ReadingsInv

LEMMA ReadingsPiece ==
  ASSUME BatchInv, CountInv, ReadingsInv, Piece
  PROVE  ReadingsInv'
<1>1. CASE UNCHANGED meterVars
  BY <1>1 DEF ReadingsInv, meterVars
<1>2. CASE ~UNCHANGED meterVars
  <2> DEFINE received == meter.transferred + 1
             last == readings[Len(readings)].at
             r == [at |-> clock, bytes |-> received]
  <2>1. /\ meter' = Measured(meter, received, clock) /\ clock' = clock
        /\ readings' = Append(readings, r)
    BY <1>2 DEF Piece, meterVars
  <2>2. clock \in Nat /\ last <= clock
    BY DEF ReadingsInv
  <2>3. received \in Nat
    <3>1. PICK g : Counted(g)
      BY DEF CountInv
    <3>2. /\ g \in [0 .. Len(manifest) -> Nat] /\ Len(manifest) \in Nat
          /\ index - 1 \in 0 .. Len(manifest) /\ written \in Nat
          /\ meter.transferred = g[index - 1] + written
      BY <3>1, ManifestShape DEF Counted, Sums, CountInv, BytesInv, BatchInv, ManifestOK
    <3> QED BY <3>2
  <2>4. r \in Reading /\ last <= r.at /\ r.at = clock
    BY <2>2, <2>3 DEF Reading
  <2>5. meter'.samples = Kept(Append(meter.samples, r), r.at)
    BY <2>1 DEF Measured
  <2>6. readings' = Append(readings, r) /\ readings' \in Seq(Reading) /\ readings' # <<>>
    <3>1. readings' = Append(readings, r)
      BY <2>1
    <3>2. readings' \in Seq(Reading) /\ readings' # <<>>
      <4> HIDE DEF r
      <4> QED BY <2>4, <3>1, AppendProperties DEF ReadingsInv
    <3> QED BY <3>1, <3>2
  <2>7. InOrder(readings') /\ EndOf(meter'.samples, readings', From(readings'))
    <3> HIDE DEF r
    <3> QED BY <2>4, <2>5, <2>6, KeptIsEnd DEF ReadingsInv, last
  <2>8. readings'[Len(readings')] = r
    <3> HIDE DEF r
    <3> QED BY <2>4, <2>6, AppendProperties DEF ReadingsInv
  <2>9. clock' \in Nat /\ readings'[Len(readings')].at <= clock'
    <3> HIDE DEF r
    <3> QED BY <2>1, <2>2, <2>4, <2>8
  <2> QED BY <2>6, <2>7, <2>9 DEF ReadingsInv
<1> QED BY <1>1, <1>2

LEMMA ReadingsStep == BatchInv /\ CountInv /\ ReadingsInv /\ [Next]_vars => ReadingsInv'
<1> SUFFICES ASSUME BatchInv, CountInv, ReadingsInv, [Next]_vars PROVE ReadingsInv'
  OBVIOUS
<1>1. CASE Piece
  BY <1>1, ReadingsPiece
<1>2. CASE HasherReady
  <2>1. CASE index = 1
    <3>1. meter' = Started(clock) /\ readings' = meter'.samples /\ clock' = clock
      BY <1>2, <2>1 DEF HasherReady
    <3>2. meter'.samples = <<[at |-> clock', bytes |-> 0]>>
      BY <3>1 DEF Started
    <3>3. clock' \in Nat
      BY <3>1 DEF ReadingsInv
    <3> QED BY <3>1, <3>2, <3>3, FreshReadings
  <2>2. CASE index # 1
    BY <1>2, <2>2 DEF HasherReady, meterVars, ReadingsInv
  <2> QED BY <2>1, <2>2
<1>3. CASE UNCHANGED meterVars
  BY <1>3 DEF meterVars, ReadingsInv
<1>6. CASE TimePasses
  <2>1. PICK time \in Pace : clock' = clock + time
    BY <1>6 DEF TimePasses
  <2>2. UNCHANGED <<meter, readings>>
    BY <1>6 DEF TimePasses
  <2>3. readings[Len(readings)].at \in Nat /\ time \in Nat
    <3>1. Len(readings) \in 1 .. Len(readings) /\ readings \in Seq(Reading)
      BY EmptySeq, LenProperties DEF ReadingsInv
    <3>2. readings[Len(readings)] \in Reading
      BY <3>1, ElementOfSeq
    <3> QED BY <3>2, SavingAssumption DEF Reading
  <2>4. clock' \in Nat /\ readings[Len(readings)].at <= clock'
    BY <2>1, <2>3 DEF ReadingsInv
  <2> QED BY <2>2, <2>4 DEF ReadingsInv
<1>4. ASSUME SavingNext, ~Piece, ~HasherReady, ~TimePasses PROVE UNCHANGED meterVars
  BY <1>4 DEF SavingNext, Offered, Accept, AcceptAgain, Decline, Dismiss, PickName, PickFolder,
              Look, Create, Opens, OpenFails, WriteFails, Matches, Mismatches, Closes, CloseFails,
              Verifies, Completes, Breaks, Leave, Stranger
<1>5. CASE UNCHANGED savingVars \/ UNCHANGED vars
  BY <1>3, <1>5 DEF vars, savingVars, meterVars
<1> QED BY <1>1, <1>2, <1>3, <1>4, <1>5, <1>6 DEF Next

LEMMA ReadingsStart == Init => ReadingsInv
<1> SUFFICES ASSUME NEW b, NEW before, SavingInit(b, before) PROVE ReadingsInv
  BY DEF Init
<1> DEFINE r == [at |-> 0, bytes |-> 0]
<1>1. /\ readings = <<r>> /\ readings \in Seq(Reading) /\ readings # <<>> /\ Len(readings) = 1
      /\ readings[1] = r /\ DOMAIN readings = 1 .. 1 /\ meter.samples = readings /\ clock = 0
  BY DEF Reading, SavingInit, Started
<1>2. InOrder(readings)
  BY <1>1 DEF InOrder
<1>3. From(readings) = 1
  <2>1. From(readings) \in 1 .. 1
    BY <1>1, FromOK
  <2> QED BY <2>1
<1>4. EndOf(meter.samples, readings, 1)
  <2>1. \A j \in 1 .. 1 : 1 + j - 1 = j
    OBVIOUS
  <2> QED BY <1>1, <2>1 DEF EndOf
<1> QED BY <1>1, <1>2, <1>3, <1>4 DEF ReadingsInv

\* A rate is that of the ends.
LEMMA RateOfEnd ==
  ASSUME NEW rs \in Seq(Reading), rs # <<>>, NEW f, NEW ss, EndOf(ss, rs, f)
  PROVE  RateOf(ss) = RateOf(SubSeq(rs, f, Len(rs)))
<1> DEFINE n == Len(rs)
           m == Len(ss)
           end == SubSeq(rs, f, n)
<1>1. n \in Nat /\ f \in 1 .. n /\ m = n - f + 1 /\ \A j \in 1 .. m : ss[j] = rs[f + j - 1]
  BY LenProperties DEF EndOf
<1>2. m \in Nat /\ 1 \in 1 .. m /\ m \in 1 .. m
  <2> HIDE DEF n, m
  <2> QED BY <1>1
<1>3. Len(end) = m /\ \A j \in 1 .. m : end[j] = rs[f + j - 1]
  <2>1. f \in 1 .. n + 1 /\ n \in f - 1 .. n
    <3> HIDE DEF n, m
    <3> QED BY <1>1
  <2>2. Len(end) = n - f + 1 /\ \A j \in 1 .. n - f + 1 : end[j] = rs[f + j - 1]
    BY <2>1, SubSeqProperties
  <2> HIDE DEF end
  <2> QED BY <1>1, <2>2
<1>4. ss[1] = end[1] /\ ss[m] = end[m] /\ Len(end) = m
  <2> HIDE DEF end, m
  <2> QED BY <1>1, <1>2, <1>3
<1>5. RateOf(ss) = RateOf(end)
  <2> HIDE DEF end
  <2> QED BY <1>4 DEF RateOf
<1> QED BY <1>5

\* progress.ts:88: the readout says the bytes of the files before this one and
\* of the pieces written of it, the rate over the trailing window, although the
\* samples are thrown away one by one, and nothing left of a complete batch.
THEOREM ReadoutTrue == Spec => []ReadoutIsTrue
<1>1. BatchInv /\ CountInv /\ ReadingsInv => ReadoutIsTrue
  <2> SUFFICES ASSUME BatchInv, CountInv, ReadingsInv PROVE ReadoutIsTrue
    OBVIOUS
  <2> DEFINE n == Len(manifest)
             done == meter.transferred
  <2>1. PICK g : Counted(g)
    BY DEF CountInv
  <2>2. /\ n \in Nat /\ \A k \in 1 .. n : manifest[k].size \in Nat
        /\ DOMAIN manifest = 1 .. n
    BY ManifestShape, SizesOK DEF BatchInv, ManifestOK
  <2>3. /\ g \in [0 .. n -> Nat] /\ TotalOf(manifest) = g[n] /\ done = g[index - 1] + written
        /\ index \in 1 .. n + 1 /\ written \in Nat
    BY <2>1 DEF Counted, Sums, CountInv, BytesInv
  <2>4. index - 1 \in 0 .. n
    <3> HIDE DEF n
    <3> QED BY <2>2, <2>3
  <2>5. TotalOf(SubSeq(manifest, 1, index - 1)) = g[index - 1]
    <3>1. \E S : manifest \in Seq(S)
      <4>1. CASE manifest = <<>>
        <5>1. manifest \in Seq({})
          BY <4>1, EmptySeq
        <5> QED BY <5>1
      <4>2. CASE \E m \in Offers : Parses(m) /\ manifest = Read(m)
        <5>1. PICK m \in Offers : manifest = Read(m)
          BY <4>2
        <5> DEFINE S == {manifest[k] : k \in 1 .. n}
        <5>2. manifest = [k \in 1 .. n |-> manifest[k]]
          <6>1. manifest = [k \in DOMAIN m.files |-> Cleaned(m.files[k])]
            BY <5>1 DEF Read
          <6>2. DOMAIN m.files = 1 .. n
            BY <2>2, <6>1
          <6> HIDE DEF n
          <6> QED BY <6>1, <6>2
        <5>3. manifest \in Seq(S)
          <6>1. \A k \in 1 .. n : manifest[k] \in S
            OBVIOUS
          <6> HIDE DEF n, S
          <6> QED BY <2>2, <5>2, <6>1, IsASeq
        <5> QED BY <5>3
      <4> QED BY <4>1, <4>2 DEF BatchInv, ManifestOK, OfferedFiles
    <3>2. PICK S : manifest \in Seq(S)
      BY <3>1
    <3>3. Sums(manifest, g)
      BY <2>1 DEF Counted
    <3> HIDE DEF n
    <3> QED BY <2>2, <2>4, <3>2, <3>3, SumsOfFirst DEF n
  <2> DEFINE shown == Snapshot(meter, TotalOf(manifest))
  <2>6. shown.transferred = TotalOf(SubSeq(manifest, 1, index - 1)) + written
    BY <2>3, <2>5 DEF Snapshot
  <2>7. shown.rate = RateOf(SubSeq(readings, From(readings), Len(readings)))
    <3>1. shown.rate = RateOf(meter.samples)
      BY DEF Snapshot
    <3> HIDE DEF shown
    <3> QED BY <3>1, RateOfEnd DEF ReadingsInv
  <2>8. rState = "complete" => shown.remaining = 0 /\ shown.eta = "none"
    <3> SUFFICES ASSUME rState = "complete" PROVE shown.remaining = 0 /\ shown.eta = "none"
      OBVIOUS
    <3>1. index > n /\ written = 0
      BY DEF BatchInv, InBatch, CountInv, BytesInv
    <3>2. index - 1 = n /\ g[n] \in Nat
      <4> HIDE DEF n
      <4> QED BY <2>2, <2>3, <3>1
    <3>3. TotalOf(manifest) - meter.transferred = 0
      <4> HIDE DEF n
      <4> QED BY <2>3, <3>1, <3>2 DEF done
    <3> QED BY <3>3 DEF Snapshot
  <2> HIDE DEF shown
  <2> QED BY <2>6, <2>7, <2>8 DEF ReadoutIsTrue, shown, From, Old
<1> QED BY <1>1, CountInvariant, ReadingsStart, ReadingsStep, PTL DEF Spec

-----------------------------------------------------------------------------
(* leaving out *)

\* How Without, a fold from the left, keeps members of any subset of the positions.
Keeping(s, S, D, it) ==
  it = [t \in SUBSET D |->
          IF t = {} THEN <<>>
          ELSE IF s[Max(t)] \in S THEN it[t \ {Max(t)}] ELSE Append(it[t \ {Max(t)}], s[Max(t)])]

LEMMA KeepingExists ==
  ASSUME NEW s, NEW S, NEW n \in Nat
  PROVE  \E it : Keeping(s, S, 1 .. n, it)
<1> DEFINE T == {k \in Nat : \E it : Keeping(s, S, 1 .. k, it)}
<1>1. 0 \in T
  <2>1. SUBSET (1 .. 0) = {{}}
    OBVIOUS
  <2>2. Keeping(s, S, 1 .. 0, [t \in SUBSET (1 .. 0) |-> <<>>])
    BY <2>1 DEF Keeping
  <2> QED BY <2>2
<1>2. ASSUME NEW k \in Nat, k \in T PROVE k + 1 \in T
  <2>1. PICK it : Keeping(s, S, 1 .. k, it)
    BY <1>2
  <2> DEFINE m == k + 1
             Longer(kept) == IF s[m] \in S THEN kept ELSE Append(kept, s[m])
             next == [t \in SUBSET (1 .. m) |-> IF m \in t THEN Longer(it[t \ {m}]) ELSE it[t]]
  <2>2. ASSUME NEW t \in SUBSET (1 .. m)
        PROVE  next[t] = IF t = {} THEN <<>>
                         ELSE IF s[Max(t)] \in S THEN next[t \ {Max(t)}]
                         ELSE Append(next[t \ {Max(t)}], s[Max(t)])
    <3>1. CASE m \in t
      <4>1. Max(t) = m
        <5>1. m \in Nat /\ t # {}
          BY <3>1
        <5>2. Max(t) \in 1 .. m /\ m <= Max(t)
          BY <3>1, <5>1, MaxOf
        <5> QED BY <5>1, <5>2
      <4>2. t \ {m} \in SUBSET (1 .. m) /\ m \notin t \ {m}
        OBVIOUS
      <4>3. next[t] = Longer(it[t \ {m}]) /\ next[t \ {m}] = it[t \ {m}]
        BY <3>1, <4>2
      <4> HIDE DEF next, m
      <4> QED BY <3>1, <4>1, <4>3
    <3>2. CASE m \notin t /\ t # {}
      <4>1. t \in SUBSET (1 .. k)
        BY <3>2
      <4>2. Max(t) \in t
        BY <3>2, <4>1, MaxOf
      <4>3. t \ {Max(t)} \in SUBSET (1 .. m) /\ m \notin t \ {Max(t)}
        BY <3>2
      <4>4. next[t] = it[t] /\ next[t \ {Max(t)}] = it[t \ {Max(t)}]
        BY <3>2, <4>3
      <4>5. it[t] = IF s[Max(t)] \in S THEN it[t \ {Max(t)}]
                    ELSE Append(it[t \ {Max(t)}], s[Max(t)])
        BY <2>1, <3>2, <4>1 DEF Keeping
      <4> HIDE DEF next, m
      <4> QED BY <3>2, <4>4, <4>5
    <3>3. CASE t = {}
      <4>1. next[{}] = it[{}]
        BY <3>3
      <4>2. it[{}] = <<>>
        BY <2>1 DEF Keeping
      <4> HIDE DEF next, m
      <4> QED BY <3>3, <4>1, <4>2
    <3> QED BY <3>1, <3>2, <3>3
  <2>3. Keeping(s, S, 1 .. m, next)
    <3>1. next = [t \in SUBSET (1 .. m) |-> next[t]]
      OBVIOUS
    <3> HIDE DEF next, m
    <3> QED BY <2>2, <3>1 DEF Keeping
  <2> QED BY <2>3
<1> HIDE DEF T
<1>3. n \in T
  BY <1>1, <1>2, Induction
<1> QED BY <1>3 DEF T

\* h[k] is what is left of the first k members.
LeftOf(s, S, n, h) ==
  /\ h[0] = <<>> /\ Without(s, S) = h[n]
  /\ \A k \in 1 .. n : h[k] = IF s[k] \in S THEN h[k - 1] ELSE Append(h[k - 1], s[k])

LEMMA WithoutSteps ==
  ASSUME NEW s, NEW S, NEW n \in Nat, DOMAIN s = 1 .. n
  PROVE  \E h : LeftOf(s, S, n, h)
<1> DEFINE it == CHOOSE f : Keeping(s, S, 1 .. n, f)
<1>1. Keeping(s, S, 1 .. n, it)
  BY KeepingExists
<1>2. Without(s, S) = it[1 .. n]
  BY DEF Without, FoldLeft, MapThenFoldSet, Keeping
<1> HIDE DEF it
<1>3. it[1 .. 0] = <<>>
  <2>1. 1 .. 0 = {}
    OBVIOUS
  <2>2. it[{}] = <<>>
    BY <1>1 DEF Keeping
  <2> QED BY <2>1, <2>2
<1>4. ASSUME NEW k \in 1 .. n
      PROVE  it[1 .. k] = IF s[k] \in S THEN it[1 .. k - 1] ELSE Append(it[1 .. k - 1], s[k])
  <2>1. 1 .. k \in SUBSET (1 .. n) /\ 1 .. k # {} /\ k \in 1 .. k /\ k \in Nat
    OBVIOUS
  <2>2. Max(1 .. k) = k
    <3>1. Max(1 .. k) \in 1 .. k /\ k <= Max(1 .. k)
      BY <2>1, MaxOf
    <3> QED BY <3>1
  <2>3. (1 .. k) \ {k} = 1 .. k - 1
    OBVIOUS
  <2>4. it[1 .. k] = IF s[Max(1 .. k)] \in S THEN it[(1 .. k) \ {Max(1 .. k)}]
                     ELSE Append(it[(1 .. k) \ {Max(1 .. k)}], s[Max(1 .. k)])
    BY <1>1, <2>1 DEF Keeping
  <2> QED BY <2>2, <2>3, <2>4
<1> DEFINE h == [k \in 0 .. n |-> it[1 .. k]]
<1>5. h[0] = <<>> /\ Without(s, S) = h[n]
  BY <1>2, <1>3
<1>6. \A k \in 1 .. n : h[k] = IF s[k] \in S THEN h[k - 1] ELSE Append(h[k - 1], s[k])
  BY <1>4
<1> HIDE DEF h
<1> QED BY <1>5, <1>6 DEF LeftOf

\* What is left is in the sequence, is not in S, and is no longer.
LEMMA WithoutOK ==
  ASSUME NEW T, NEW s \in Seq(T), NEW S
  PROVE  Without(s, S) \in Seq(T \ S) /\ Len(Without(s, S)) <= Len(s)
<1> DEFINE n == Len(s)
<1>1. n \in Nat /\ DOMAIN s = 1 .. n /\ \A k \in 1 .. n : s[k] \in T
  OBVIOUS
<1> HIDE DEF n
<1>p. PICK h : LeftOf(s, S, n, h)
  BY <1>1, WithoutSteps
<1>2. /\ h[0] = <<>> /\ Without(s, S) = h[n]
      /\ \A k \in 1 .. n : h[k] = IF s[k] \in S THEN h[k - 1] ELSE Append(h[k - 1], s[k])
  BY <1>p DEF LeftOf
<1> DEFINE G == {k \in Nat : k > n \/ (h[k] \in Seq(T \ S) /\ Len(h[k]) <= k)}
<1>3. 0 \in G
  <2>1. <<>> \in Seq(T \ S) /\ Len(<<>>) = 0
    OBVIOUS
  <2>2. h[0] \in Seq(T \ S) /\ Len(h[0]) <= 0
    BY <1>2, <2>1
  <2> QED BY <2>2
<1>4. ASSUME NEW k \in Nat, k \in G PROVE k + 1 \in G
  <2>1. CASE k + 1 > n
    BY <2>1
  <2>2. CASE ~(k + 1 > n)
    <3>1. k + 1 \in 1 .. n /\ (k + 1) - 1 = k /\ h[k] \in Seq(T \ S) /\ Len(h[k]) <= k
      BY <1>1, <1>4, <2>2
    <3>2. h[k + 1] = IF s[k + 1] \in S THEN h[k] ELSE Append(h[k], s[k + 1])
      BY <1>2, <3>1
    <3>3. CASE s[k + 1] \in S
      BY <3>1, <3>2, <3>3
    <3>4. CASE s[k + 1] \notin S
      <4>1. s[k + 1] \in T \ S
        BY <1>1, <3>1, <3>4
      <4>2. h[k + 1] \in Seq(T \ S) /\ Len(h[k + 1]) = Len(h[k]) + 1
        BY <3>1, <3>2, <3>4, <4>1
      <4> QED BY <3>1, <4>2
    <3> QED BY <3>3, <3>4
  <2> QED BY <2>1, <2>2
<1> HIDE DEF G
<1>5. n \in G
  BY <1>1, <1>3, <1>4, Induction
<1> QED BY <1>1, <1>2, <1>5 DEF G, n

\* Nothing is left out of a sequence that has nothing to leave out.
LEMMA WithoutSame ==
  ASSUME NEW T, NEW s \in Seq(T), NEW S, \A k \in 1 .. Len(s) : s[k] \notin S
  PROVE  Without(s, S) = s
<1> DEFINE n == Len(s)
<1>1. n \in Nat /\ DOMAIN s = 1 .. n /\ \A k \in 1 .. n : s[k] \in T /\ s[k] \notin S
  OBVIOUS
<1>0. s = [i \in 1 .. n |-> s[i]]
  OBVIOUS
<1> HIDE DEF n
<1>p. PICK h : LeftOf(s, S, n, h)
  BY <1>1, WithoutSteps
<1>2. /\ h[0] = <<>> /\ Without(s, S) = h[n]
      /\ \A k \in 1 .. n : h[k] = IF s[k] \in S THEN h[k - 1] ELSE Append(h[k - 1], s[k])
  BY <1>p DEF LeftOf
<1> DEFINE G == {k \in Nat : k > n \/ h[k] = [i \in 1 .. k |-> s[i]]}
<1>3. 0 \in G
  BY <1>2
<1>4. ASSUME NEW k \in Nat, k \in G PROVE k + 1 \in G
  <2>1. CASE k + 1 > n
    BY <2>1
  <2>2. CASE ~(k + 1 > n)
    <3>1. k + 1 \in 1 .. n /\ (k + 1) - 1 = k /\ h[k] = [i \in 1 .. k |-> s[i]]
      BY <1>1, <1>4, <2>2
    <3>2. h[k + 1] = Append([i \in 1 .. k |-> s[i]], s[k + 1])
      BY <1>1, <1>2, <3>1
    <3>3. [i \in 1 .. k |-> s[i]] \in Seq(T) /\ Len([i \in 1 .. k |-> s[i]]) = k
      <4>1. \A i \in 1 .. k : s[i] \in T
        BY <1>1, <3>1
      <4> QED BY <4>1
    <3>4. Append([i \in 1 .. k |-> s[i]], s[k + 1]) = [i \in 1 .. k + 1 |-> s[i]]
      BY <1>1, <3>1, <3>3
    <3>5. h[k + 1] = [i \in 1 .. k + 1 |-> s[i]]
      BY <3>2, <3>4
    <3>6. k + 1 \in Nat
      BY <2>2
    <3> QED BY <3>5, <3>6
  <2> QED BY <2>1, <2>2
<1> HIDE DEF G
<1>5. n \in G
  BY <1>1, <1>3, <1>4, Induction
<1> QED BY <1>0, <1>1, <1>2, <1>5 DEF G

-----------------------------------------------------------------------------
(* names *)

\* A set of positions has a first one.
LEMMA MinOf ==
  ASSUME NEW n \in Nat, NEW s \in SUBSET (1 .. n), s # {}
  PROVE  Min(s) \in s /\ \A y \in s : Min(s) <= y
<1> DEFINE r == {x \in 1 .. n : (n + 1) - x \in s}
<1>1. r \in SUBSET (1 .. n) /\ r # {}
  <2>1. PICK x \in s : TRUE
    OBVIOUS
  <2>2. x \in 1 .. n
    OBVIOUS
  <2>3. (n + 1) - x \in 1 .. n /\ (n + 1) - ((n + 1) - x) = x
    BY <2>2
  <2> QED BY <2>1, <2>3
<1>2. Max(r) \in r /\ \A y \in r : y <= Max(r)
  <2> HIDE DEF r
  <2> QED BY <1>1, MaxOf
<1> DEFINE m == (n + 1) - Max(r)
<1>3. m \in s
  BY <1>2
<1>4. ASSUME NEW y \in s PROVE m <= y
  <2>1. y \in 1 .. n
    OBVIOUS
  <2>2. (n + 1) - y \in r
    BY <2>1
  <2>3. (n + 1) - y <= Max(r) /\ Max(r) \in 1 .. n
    BY <1>2, <2>2
  <2> HIDE DEF r
  <2> QED BY <2>1, <2>3
<1>5. \E x \in s : \A y \in s : x <= y
  <2> HIDE DEF m
  <2> QED BY <1>3, <1>4
<1> QED BY <1>5 DEF Min

LEMMA MinOfTwo ==
  ASSUME NEW a \in Nat, NEW b \in Nat
  PROVE  Min({a, b}) = IF a <= b THEN a ELSE b
<1> DEFINE c == IF a <= b THEN a ELSE b
<1>1. c \in {a, b} /\ \A y \in {a, b} : c <= y
  OBVIOUS
<1>2. ASSUME NEW x \in {a, b}, \A y \in {a, b} : x <= y PROVE x = c
  <2>1. x <= a /\ x <= b
    BY <1>2
  <2> QED BY <2>1
<1> HIDE DEF c
<1>3. Min({a, b}) = c
  BY <1>1, <1>2 DEF Min
<1> QED BY <1>3 DEF c

LEMMA UptoOK ==
  ASSUME NEW T, NEW s \in Seq(T), NEW n \in Nat
  PROVE  /\ Upto(s, n) \in Seq(T) /\ Len(Upto(s, n)) <= n /\ Len(Upto(s, n)) <= Len(s)
         /\ \A k \in 1 .. Len(Upto(s, n)) : Upto(s, n)[k] = s[k]
         /\ Len(s) <= n => Upto(s, n) = s
<1>1. Len(s) \in Nat
  OBVIOUS
<1> DEFINE m == Min({n, Len(s)})
<1>2. m = IF n <= Len(s) THEN n ELSE Len(s)
  <2> DEFINE l == Len(s)
  <2>1. l \in Nat
    BY <1>1
  <2> HIDE DEF l
  <2>2. Min({n, l}) = IF n <= l THEN n ELSE l
    BY <2>1, MinOfTwo
  <2> QED BY <2>2 DEF l
<1>5. Upto(s, n) = SubSeq(s, 1, m)
  BY DEF Upto
<1> HIDE DEF m
<1>6. m \in Nat /\ m <= Len(s) /\ m <= n /\ (Len(s) <= n => m = Len(s))
  BY <1>1, <1>2
<1>3. /\ SubSeq(s, 1, m) \in Seq(T) /\ Len(SubSeq(s, 1, m)) = m
      /\ \A k \in 1 .. m : SubSeq(s, 1, m)[k] = s[k]
  <2>1. \A i \in 1 .. m : s[i] \in T
    BY <1>1, <1>6
  <2> QED BY <1>1, <1>6, <2>1, SubSeqProperties
<1>4. Len(s) <= n => SubSeq(s, 1, m) = s
  <2>1. SubSeq(s, 1, Len(s)) = s
    OBVIOUS
  <2> QED BY <1>6, <2>1
<1> QED BY <1>3, <1>4, <1>5, <1>6

\* A part of a sequence is one of its members.
LEMMA PartOK ==
  ASSUME NEW T, NEW s \in Seq(T), NEW a \in 1 .. Len(s), NEW b \in a .. Len(s)
  PROVE  /\ SubSeq(s, a, b) \in Seq(T) /\ Len(SubSeq(s, a, b)) = (b - a) + 1
         /\ SubSeq(s, a, b)[1] = s[a]
BY SubSeqProperties

LEMMA UndottedOK ==
  ASSUME NEW T, NEW s \in Seq(T)
  PROVE  Undotted(s) \in Seq(T) /\ (s # <<>> /\ s[1] # Dot => Undotted(s) = s)
<1> DEFINE ps == {k \in DOMAIN s : s[k] # Dot}
<1>1. Len(s) \in Nat /\ ps \in SUBSET (1 .. Len(s))
  OBVIOUS
<1>2. CASE ps = {}
  <2>1. Undotted(s) = <<>>
    BY <1>2 DEF Undotted
  <2> QED BY <1>2, <2>1
<1>3. CASE ps # {}
  <2>1. Undotted(s) = SubSeq(s, Min(ps), Len(s))
    BY <1>3 DEF Undotted
  <2>2. Min(ps) \in ps /\ \A y \in ps : Min(ps) <= y
    <3> HIDE DEF ps
    <3> QED BY <1>1, <1>3, MinOf
  <2>3. Min(ps) \in 1 .. Len(s) /\ Len(s) \in Min(ps) .. Len(s)
    BY <1>1, <2>2
  <2>4. ASSUME s # <<>>, s[1] # Dot PROVE Undotted(s) = s
    <3>1. 1 \in ps
      BY <1>1, <2>4
    <3>2. Min(ps) = 1
      <4>1. Min(ps) <= 1
        BY <2>2, <3>1
      <4> HIDE DEF ps
      <4> QED BY <2>3, <4>1
    <3> HIDE DEF ps
    <3>3. SubSeq(s, 1, Len(s)) = s
      OBVIOUS
    <3> QED BY <2>1, <3>2, <3>3
  <2> HIDE DEF ps
  <2>5. SubSeq(s, Min(ps), Len(s)) \in Seq(T)
    BY <2>3, PartOK
  <2> QED BY <2>1, <2>4, <2>5
<1> QED BY <1>2, <1>3

LEMMA TrimmedOK ==
  ASSUME NEW T, NEW s \in Seq(T)
  PROVE  /\ Trimmed(s) \in Seq(T)
         /\ Trimmed(s) # <<>> => Trimmed(s)[1] # Blank
         /\ s # <<>> /\ s[1] # Blank /\ s[Len(s)] # Blank => Trimmed(s) = s
<1> DEFINE ps == {k \in DOMAIN s : s[k] # Blank}
<1>1. Len(s) \in Nat /\ ps \in SUBSET (1 .. Len(s))
  OBVIOUS
<1>2. CASE ps = {}
  <2>1. Trimmed(s) = <<>>
    BY <1>2 DEF Trimmed, Span
  <2> QED BY <1>2, <2>1
<1>3. CASE ps # {}
  <2>1. Trimmed(s) = SubSeq(s, Min(ps), Max(ps))
    BY <1>3 DEF Trimmed, Span
  <2>2. /\ Min(ps) \in ps /\ \A y \in ps : Min(ps) <= y
        /\ Max(ps) \in ps /\ \A y \in ps : y <= Max(ps)
    <3> HIDE DEF ps
    <3> QED BY <1>1, <1>3, MinOf, MaxOf
  <2>3. Min(ps) \in 1 .. Len(s) /\ Max(ps) \in Min(ps) .. Len(s) /\ s[Min(ps)] # Blank
    BY <1>1, <2>2
  <2>4. ASSUME s # <<>>, s[1] # Blank, s[Len(s)] # Blank PROVE Trimmed(s) = s
    <3>1. 1 \in ps /\ Len(s) \in ps
      BY <1>1, <2>4
    <3>2. Min(ps) = 1 /\ Max(ps) = Len(s)
      <4>1. Min(ps) <= 1 /\ Len(s) <= Max(ps)
        BY <2>2, <3>1
      <4> HIDE DEF ps
      <4> QED BY <1>1, <2>3, <4>1
    <3> HIDE DEF ps
    <3>3. SubSeq(s, 1, Len(s)) = s
      OBVIOUS
    <3> QED BY <2>1, <3>2, <3>3
  <2> HIDE DEF ps
  <2>5. SubSeq(s, Min(ps), Max(ps)) \in Seq(T) /\ SubSeq(s, Min(ps), Max(ps))[1] = s[Min(ps)]
    BY <2>3, PartOK
  <2> QED BY <2>1, <2>3, <2>4, <2>5
<1> QED BY <1>2, <1>3

\* What Clean makes of a segment, and that there is nothing to clean of one that
\* has no control character, no dot or blank before and no blank behind.
LEMMA CleanOK ==
  ASSUME NEW T, NEW s \in Seq(T)
  PROVE  /\ Clean(s) \in Seq(T \ {Control}) /\ Len(Clean(s)) <= MaxName
         /\ Clean(s) # <<>> => Clean(s)[1] # Blank
<1> DEFINE Q == T \ {Control}
<1>1. Printable(s) \in Seq(Q)
  BY WithoutOK DEF Printable
<1>2. Undotted(Printable(s)) \in Seq(Q)
  BY <1>1, UndottedOK
<1> DEFINE t == Trimmed(Undotted(Printable(s)))
<1>3. t \in Seq(Q) /\ (t # <<>> => t[1] # Blank)
  BY <1>2, TrimmedOK
<1> HIDE DEF t, Q
<1>4. MaxName \in Nat
  BY NamesAssumption
<1>5. Clean(s) = Upto(t, MaxName)
  BY DEF Clean, t
<1>6. /\ Clean(s) \in Seq(Q) /\ Len(Clean(s)) <= MaxName /\ Len(Clean(s)) <= Len(t)
      /\ \A k \in 1 .. Len(Clean(s)) : Clean(s)[k] = t[k]
  BY <1>3, <1>4, <1>5, UptoOK
<1>7. ASSUME Clean(s) # <<>> PROVE Clean(s)[1] # Blank
  <2>1. Len(Clean(s)) \in Nat /\ Len(Clean(s)) # 0
    BY <1>6, <1>7
  <2>2. 1 \in 1 .. Len(Clean(s)) /\ Len(t) # 0
    BY <1>3, <1>6, <2>1
  <2>3. t # <<>>
    BY <2>2
  <2> QED BY <1>3, <1>6, <2>2, <2>3
<1> QED BY <1>6, <1>7 DEF Q

LEMMA CleanSame ==
  ASSUME NEW T, NEW t \in Seq(T), Control \notin T, t # <<>>, Len(t) <= MaxName,
         t[1] # Dot, t[1] # Blank, t[Len(t)] # Blank
  PROVE  Clean(t) = t
<1>1. \A k \in 1 .. Len(t) : t[k] \notin {Control}
  OBVIOUS
<1>2. Printable(t) = t
  BY <1>1, WithoutSame DEF Printable
<1>3. Undotted(t) = t
  BY <1>1, UndottedOK
<1>4. Trimmed(t) = t
  BY <1>1, TrimmedOK
<1>5. Upto(t, MaxName) = t
  BY <1>1, UptoOK, NamesAssumption
<1> QED BY <1>2, <1>3, <1>4, <1>5 DEF Clean

\* A settled name is read as it was sent.
LEMMA FilenameAgain ==
  ASSUME NEW S, NEW s \in Seq(S), Settled(Filename(s))
  PROVE  Filename(Filename(s)) = Filename(s)
<1>1. CASE Clean(s) = <<>>
  <2>1. Filename(s) = Fallback
    BY <1>1 DEF Filename
  <2>2. /\ Fallback \in Seq({"received-file"}) /\ Fallback # <<>> /\ Len(Fallback) = 1
        /\ Fallback[1] = "received-file"
    BY DEF Fallback
  <2>3. Clean(Fallback) = Fallback
    <3>1. 1 <= MaxName
      BY NamesAssumption
    <3>2. "received-file" # Dot /\ "received-file" # Blank /\ Control \notin {"received-file"}
      BY DEF Dot, Blank, Control
    <3> QED BY <2>2, <3>1, <3>2, CleanSame
  <2> QED BY <2>1, <2>2, <2>3 DEF Filename
<1>2. CASE Clean(s) # <<>>
  <2>1. Filename(s) = Clean(s)
    BY <1>2 DEF Filename
  <2>2. Clean(s)[1] # Dot /\ Clean(s)[Len(Clean(s))] # Blank
    BY <1>2, <2>1 DEF Settled
  <2>3. Clean(Clean(s)) = Clean(s)
    BY <1>2, <2>2, CleanOK, CleanSame
  <2> QED BY <1>2, <2>1, <2>3 DEF Filename
<1> QED BY <1>1, <1>2

\* So is a path of settled segments.
LEMMA PathnameAgain ==
  ASSUME NEW S, NEW p \in Seq(Seq(S)), \A j \in DOMAIN Pathname(p) : Settled(Pathname(p)[j])
  PROVE  Pathname(Pathname(p)) = Pathname(p)
<1> DEFINE T == {t \in Seq(S \ {Control}) : Len(t) <= MaxName /\ (t # <<>> => t[1] # Blank)}
           cleaned == [k \in DOMAIN p |-> Clean(p[k])]
           q == Pathname(p)
<1>1. cleaned \in Seq(T)
  <2>1. Len(p) \in Nat /\ DOMAIN p = 1 .. Len(p) /\ \A k \in 1 .. Len(p) : p[k] \in Seq(S)
    OBVIOUS
  <2>2. \A k \in 1 .. Len(p) : Clean(p[k]) \in T
    BY <2>1, CleanOK
  <2> HIDE DEF T
  <2> QED BY <2>1, <2>2
<1>2. MaxSegments \in Nat
  BY NamesAssumption
<1>3. q \in Seq(T \ {<<>>}) /\ Len(q) <= MaxSegments
  <2> HIDE DEF T, cleaned
  <2>1. Without(cleaned, {<<>>}) \in Seq(T \ {<<>>})
    BY <1>1, WithoutOK
  <2> QED BY <1>2, <2>1, UptoOK DEF Pathname, cleaned
<1>4. DOMAIN q = 1 .. Len(q) /\ \A j \in 1 .. Len(q) : q[j] \in T /\ q[j] # <<>> /\ Settled(q[j])
  <2> HIDE DEF T
  <2>1. DOMAIN q = 1 .. Len(q) /\ \A j \in 1 .. Len(q) : q[j] \in T \ {<<>>}
    <3> HIDE DEF q
    <3> QED BY <1>3
  <2> QED BY <2>1
<1>5. \A j \in 1 .. Len(q) : Clean(q[j]) = q[j]
  <2> SUFFICES ASSUME NEW j \in 1 .. Len(q) PROVE Clean(q[j]) = q[j]
    OBVIOUS
  <2> DEFINE t == q[j]
  <2>1. t \in T /\ t # <<>> /\ Settled(t)
    BY <1>4
  <2> HIDE DEF t, q
  <2> QED BY <2>1, CleanSame DEF Settled, t
<1> HIDE DEF T, q
<1>6. [k \in DOMAIN q |-> Clean(q[k])] = q
  <2>1. q = [k \in DOMAIN q |-> q[k]]
    BY <1>3
  <2> QED BY <1>4, <1>5, <2>1
<1>7. Without(q, {<<>>}) = q
  BY <1>3, <1>4, WithoutSame
<1>8. Upto(q, MaxSegments) = q
  BY <1>2, <1>3, UptoOK
<1>9. Pathname(q) = q
  BY <1>6, <1>7, <1>8 DEF Pathname
<1> QED BY <1>9 DEF q

-----------------------------------------------------------------------------
(* the history *)

ViewOK(v) == v.of \in Nat /\ v.paused \in BOOLEAN /\ v.listed \in BOOLEAN

TabOK ==
  /\ ViewOK(view) /\ logged \in BOOLEAN /\ hidden \in BOOLEAN
  /\ permission \in {"default", "granted", "denied"} /\ told \subseteq Nat
  /\ history \in Seq(Entry) /\ Len(history) <= HistoryLimit

\* Transfer n heads the history, with one of these outcomes, and is in it once.
Heads(n, os) ==
  /\ Len(history) > 0 /\ history[1].of = n /\ history[1].outcome \in os
  /\ \A k \in 2 .. Len(history) : history[k].of # n

Unlogged(n) == \A k \in DOMAIN history : history[k].of # n

\* What is logged comes first, and the rest is what was there.
LEMMA LoggedOK ==
  ASSUME TabOK, NEW e \in Entry
  PROVE  /\ Logged(e) \in Seq(Entry) /\ Len(Logged(e)) \in 1 .. HistoryLimit
         /\ Logged(e)[1] = e
         /\ \A k \in 2 .. Len(Logged(e)) : k - 1 \in DOMAIN history /\ Logged(e)[k] = history[k - 1]
<1> DEFINE items == <<e>> \o history
           l == Len(items)
           m == Min({HistoryLimit, l})
<1>1. /\ items \in Seq(Entry) /\ l = Len(history) + 1 /\ Len(history) \in Nat
      /\ items[1] = e /\ \A k \in 2 .. l : items[k] = history[k - 1]
  <2>1. <<e>> \in Seq(Entry) /\ Len(<<e>>) = 1 /\ <<e>>[1] = e /\ history \in Seq(Entry)
    BY DEF TabOK
  <2> HIDE DEF TabOK
  <2>2. /\ Len(items) = Len(<<e>>) + Len(history) /\ items \in Seq(Entry)
        /\ \A k \in 1 .. Len(<<e>>) + Len(history) :
             items[k] = IF k <= Len(<<e>>) THEN <<e>>[k] ELSE history[k - Len(<<e>>)]
    BY <2>1, ConcatProperties
  <2>3. Len(history) \in Nat
    BY <2>1
  <2> QED BY <2>1, <2>2, <2>3
<1> HIDE DEF items
<1>2. l \in Nat /\ HistoryLimit \in Nat \ {0}
  BY <1>1, ShellAssumption
<1> HIDE DEF l
<1>3. m = IF HistoryLimit <= l THEN HistoryLimit ELSE l
  BY <1>2, MinOfTwo
<1> HIDE DEF m
<1>4. m \in 1 .. HistoryLimit /\ m <= l
  BY <1>1, <1>2, <1>3
<1>5. /\ SubSeq(items, 1, m) \in Seq(Entry) /\ Len(SubSeq(items, 1, m)) = m
      /\ \A k \in 1 .. m : SubSeq(items, 1, m)[k] = items[k]
  <2>1. \A k \in 1 .. m : items[k] \in Entry
    BY <1>1, <1>4 DEF l
  <2> QED BY <1>4, <2>1, SubSeqProperties
<1>6. Logged(e) = SubSeq(items, 1, m)
  BY DEF Logged, items, l, m
<1>7. \A k \in 2 .. m : k - 1 \in DOMAIN history /\ items[k] = history[k - 1]
  <2>1. DOMAIN history = 1 .. Len(history)
    BY DEF TabOK
  <2> QED BY <1>1, <1>4, <2>1
<1> QED BY <1>1, <1>4, <1>5, <1>6, <1>7

\* A snapshot that is set is logged if it settles the transfer, once.
LEMMA RenderLogs ==
  ASSUME TabOK, NEW v, ViewOK(v), NEW active, NEW tells, Renders(v, active, tells)
  PROVE  /\ TabOK' /\ view' = v
         /\ logged' = (v # NoView /\ (logged \/ Loggable(v)))
         /\ ~Due(v) => history' = history
         /\ Due(v) /\ Unlogged(v.of) => Heads(v.of, {Outcome(v)})'
         /\ \A k \in DOMAIN history' : \/ history'[k].of = v.of
                                       \/ \E j \in DOMAIN history : history'[k] = history[j]
<1> DEFINE e == [of |-> v.of, outcome |-> Outcome(v)]
<1>1. /\ view' = v /\ logged' = (v # NoView /\ (logged \/ Loggable(v)))
      /\ hidden' = hidden /\ permission' = permission
  BY DEF Renders
<1>2. logged' \in BOOLEAN /\ ViewOK(view')
  BY <1>1
<1>3. CASE ~Due(v)
  <2>1. history' = history /\ told' = told
    BY <1>3 DEF Renders
  <2> QED BY <1>1, <1>2, <1>3, <2>1 DEF TabOK, ViewOK
<1>4. CASE Due(v)
  <2>1. history' = Logged(e) /\ told' = Notified(v, tells)
    BY <1>4 DEF Renders
  <2>2. e \in Entry
    BY <1>4 DEF Entry, Outcome, Due, Loggable, Finished, ViewOK
  <2>3. told' \subseteq Nat
    BY <2>1 DEF Notified, TabOK, ViewOK
  <2>4. e.of = v.of /\ e.outcome = Outcome(v)
    OBVIOUS
  <2> HIDE DEF e
  <2>5. /\ history' \in Seq(Entry) /\ Len(history') \in 1 .. HistoryLimit /\ history'[1] = e
        /\ \A k \in 2 .. Len(history') : k - 1 \in DOMAIN history /\ history'[k] = history[k - 1]
    BY <2>1, <2>2, LoggedOK
  <2>6. HistoryLimit \in Nat /\ DOMAIN history' = 1 .. Len(history')
    BY <2>5, ShellAssumption
  <2>7. Len(history') <= HistoryLimit /\ Len(history') > 0
    BY <2>5, <2>6
  <2>8. TabOK'
    BY <1>1, <1>2, <2>3, <2>5, <2>7 DEF TabOK, ViewOK
  <2>9. ASSUME Unlogged(v.of) PROVE Heads(v.of, {Outcome(v)})'
    BY <2>4, <2>5, <2>7, <2>9 DEF Heads, Unlogged
  <2>10. ASSUME NEW k \in DOMAIN history'
         PROVE  history'[k].of = v.of \/ \E j \in DOMAIN history : history'[k] = history[j]
    <3>1. k = 1 \/ k \in 2 .. Len(history')
      BY <2>6, <2>7
    <3> QED BY <2>4, <2>5, <3>1
  <2> QED BY <1>1, <1>4, <2>8, <2>9, <2>10
<1> QED BY <1>3, <1>4

-----------------------------------------------------------------------------
(* the send page *)

LEMMA SetToSeqOK ==
  ASSUME NEW S, IsFiniteSet(S)
  PROVE  SetToSeq(S) \in Seq(S)
<1>1. Cardinality(S) \in Nat /\ ExistsBijection(1 .. Cardinality(S), S)
  BY FS_CardinalityType
<1>2. \E f \in [1 .. Cardinality(S) -> S] : IsInjective(f)
  BY <1>1 DEF ExistsBijection, Bijection, Injection
<1>3. SetToSeq(S) \in [1 .. Cardinality(S) -> S]
  BY <1>2 DEF SetToSeq
<1> QED BY <1>1, <1>3

StagedOK(s) == s \in Seq(Files) /\ Len(s) <= MaxFiles

LEMMA AddedOK ==
  ASSUME NEW prev, StagedOK(prev), NEW incoming \in Seq(Files)
  PROVE  StagedOK(Added(prev, incoming))
<1> DEFINE more == Without(incoming, ToSet(prev))
           all == prev \o more
           l == Len(all)
           m == Min({MaxFiles, l})
<1>1. more \in Seq(Files)
  <2>1. more \in Seq(Files \ ToSet(prev))
    BY WithoutOK
  <2> HIDE DEF more
  <2> QED BY <2>1
<1> HIDE DEF more
<1>2. all \in Seq(Files) /\ l \in Nat /\ DOMAIN all = 1 .. l /\ MaxFiles \in Nat
  BY <1>1, LimitsAssumption DEF StagedOK
<1> HIDE DEF all, l
<1>3. m = IF MaxFiles <= l THEN MaxFiles ELSE l
  BY <1>2, MinOfTwo
<1>4. Added(prev, incoming) = SubSeq(all, 1, m)
  BY DEF Added, all, l, more
<1> HIDE DEF m
<1>5. m \in Nat /\ m <= l /\ m <= MaxFiles
  BY <1>2, <1>3
<1>6. SubSeq(all, 1, m) \in Seq(Files) /\ Len(SubSeq(all, 1, m)) = m
  <2>1. \A i \in 1 .. m : all[i] \in Files
    BY <1>2, <1>5 DEF l
  <2> QED BY <1>5, <2>1, SubSeqProperties
<1> QED BY <1>4, <1>5, <1>6 DEF StagedOK

Engine == [state : SenderState, paused : BOOLEAN, batch : Seq(Files),
           cancelled : {"no", "early", "late"}]

\* An engine that was not cancelled, and has not failed, has a batch to send.
HasBatch(e) == e.cancelled = "no" /\ e.state # "failed" => Startable(e.batch)

\* The engine on the page was not cancelled.
PageOK ==
  /\ StagedOK(staged) /\ walking \subseteq Files
  /\ engines \in Seq(Engine) /\ ref \in 0 .. Len(engines)
  /\ \A i \in 1 .. Len(engines) : HasBatch(engines[i])
  /\ ref # 0 => engines[ref].cancelled = "no"

NoneEarly == \A i \in DOMAIN engines : engines[i].cancelled # "early"

\* What is on screen is the last engine or nothing, and is logged once it has
\* settled; the engines before are quiet.
Following ==
  /\ ref = 0 => view = NoView /\ ~logged
  /\ ref # 0 =>
       /\ ref = Len(engines) /\ view = Shown(ref, engines[ref])
       /\ logged <=> Loggable(view)
       /\ IF logged THEN Heads(ref, {Outcome(view)}) ELSE Unlogged(ref)
  /\ \A i \in 1 .. Len(engines) : i # ref => engines[i].cancelled = "late"

SendInv ==
  page = "send" =>
    /\ \A k \in DOMAIN history : history[k].of <= Len(engines)
    /\ NoneEarly => Following

\* What the page shows goes on with what engine i emits.
LEMMA EmitsLogs ==
  ASSUME TabOK, PageOK, NEW i \in 1 .. Len(engines), NEW e \in Engine, Emits(i, e),
         HasBatch(e), e.cancelled = engines[i].cancelled, ref' = ref, page' = page,
         staged' = staged, walking' = walking,
         SendInv, engines[i].cancelled # "late",
         Finished(engines[i]) => e.state = engines[i].state
  PROVE  TabOK' /\ PageOK' /\ SendInv'
<1> DEFINE v == Shown(i, e)
<1>1. /\ v.of = i /\ v.state = e.state /\ v.paused = e.paused /\ v # NoView
      /\ v.listed = TRUE /\ ViewOK(v)
  BY DEF Shown, NoView, Engine, ViewOK
<1>2. engines' = [engines EXCEPT ![i] = e]
  BY DEF Emits
<1>3. engines \in Seq(Engine) /\ DOMAIN engines = 1 .. Len(engines) /\ Len(engines) \in Nat
  BY DEF PageOK
<1>4. /\ engines' \in Seq(Engine) /\ Len(engines') = Len(engines) /\ engines'[i] = e
      /\ DOMAIN engines' = 1 .. Len(engines)
      /\ \A j \in 1 .. Len(engines) : j # i => engines'[j] = engines[j]
  <2> HIDE DEF Engine
  <2> QED BY <1>2, <1>3
<1>5. PageOK'
  BY <1>3, <1>4 DEF PageOK, HasBatch, StagedOK
<1> HIDE DEF v
<1>6. /\ TabOK' /\ view' = v /\ logged' = (logged \/ Loggable(v))
      /\ ~Due(v) => history' = history
      /\ Due(v) /\ Unlogged(i) => Heads(i, {Outcome(v)})'
      /\ \A k \in DOMAIN history' : \/ history'[k].of = i
                                    \/ \E j \in DOMAIN history : history'[k] = history[j]
  <2>1. \E active, tells : Renders(v, active, tells)
    BY DEF Emits, v
  <2> QED BY <1>1, <2>1, RenderLogs
<1>7. ASSUME page = "send" PROVE \A k \in DOMAIN history' : history'[k].of <= Len(engines')
  BY <1>3, <1>4, <1>6, <1>7 DEF SendInv
<1>8. ASSUME page = "send", NoneEarly' PROVE Following'
  <2>1. NoneEarly /\ Following
    BY <1>3, <1>4, <1>8 DEF NoneEarly, SendInv
  <2>2. i = ref
    BY <2>1 DEF Following
  <2>3. ref = Len(engines) /\ view = Shown(ref, engines[ref]) /\ (logged <=> Loggable(view))
    BY <2>1, <2>2 DEF Following
  <2>4. Loggable(view) <=> Finished(engines[i])
    BY <2>2, <2>3 DEF Loggable, Finished, Shown
  <2>5. view' = Shown(ref, engines'[ref])
    BY <1>4, <1>6, <2>2 DEF v
  <2>6. logged' <=> Loggable(view')
    BY <1>1, <1>6, <2>3, <2>4 DEF Loggable, Finished
  <2>7. CASE logged
    <3>1. history' = history /\ e.state = engines[i].state
      BY <1>6, <2>3, <2>4, <2>7 DEF Due
    <3>2. Outcome(view') = Outcome(view)
      BY <1>1, <1>6, <2>2, <2>3, <3>1 DEF Outcome, Shown
    <3>3. Heads(ref, {Outcome(view)}) /\ logged'
      BY <1>6, <2>1, <2>2, <2>7 DEF Following
    <3>4. Heads(ref, {Outcome(view)})'
      BY <3>1, <3>2, <3>3 DEF Heads
    <3> QED BY <1>4, <2>1, <2>2, <2>3, <2>5, <2>6, <3>3, <3>4 DEF Following
  <2>8. CASE ~logged
    <3>1. Unlogged(ref)
      BY <2>1, <2>2, <2>8 DEF Following
    <3>2. IF logged' THEN Heads(ref, {Outcome(view)})' ELSE Unlogged(ref)'
      <4>1. CASE Loggable(v)
        <5>1. Due(v)
          BY <2>8, <4>1 DEF Due
        <5>2. logged' /\ Heads(i, {Outcome(v)})' /\ view' = v /\ ref' = i
          BY <1>6, <2>2, <3>1, <4>1, <5>1
        <5> QED BY <5>2, <2>2 DEF Heads
      <4>2. CASE ~Loggable(v)
        <5>1. history' = history /\ ~logged'
          BY <1>6, <2>8, <4>2 DEF Due
        <5> QED BY <3>1, <5>1 DEF Unlogged
      <4> QED BY <4>1, <4>2
    <3> QED BY <1>4, <2>1, <2>2, <2>3, <2>5, <2>6, <3>2 DEF Following
  <2> QED BY <2>7, <2>8
<1> QED BY <1>5, <1>6, <1>7, <1>8 DEF SendInv

LEMMA ReportsLogs ==
  ASSUME TabOK, PageOK, SendInv, NEW i \in DOMAIN engines, Reports(i), page' = page
  PROVE  TabOK' /\ PageOK' /\ SendInv'
<1>1. i \in 1 .. Len(engines) /\ engines[i] \in Engine /\ HasBatch(engines[i])
  <2> HIDE DEF Engine
  <2> QED BY DEF PageOK
<1>2. PICK s \in Follows(engines[i].state) \cup {engines[i].state} :
        Emits(i, [engines[i] EXCEPT !.state = s])
  BY DEF Reports
<1> DEFINE e == [engines[i] EXCEPT !.state = s]
<1>3. engines[i].state \in SenderState
  BY <1>1 DEF Engine
<1>4. /\ s \in SenderState /\ (Finished(engines[i]) => s = engines[i].state)
      /\ s # "failed" => engines[i].state # "failed"
  BY <1>2, <1>3 DEF Follows, SenderState, Finished
<1>5. e \in Engine /\ e.state = s /\ e.cancelled = engines[i].cancelled /\ e.batch = engines[i].batch
  BY <1>1, <1>4 DEF Engine
<1>6. HasBatch(e)
  BY <1>1, <1>4, <1>5 DEF HasBatch
<1>7. Emits(i, e)
  BY <1>2
<1> HIDE DEF e, Engine
<1> QED BY <1>1, <1>4, <1>5, <1>6, <1>7, EmitsLogs DEF Reports

LEMMA PauseLogs ==
  ASSUME TabOK, PageOK, SendInv, PauseOrResume, page' = page
  PROVE  TabOK' /\ PageOK' /\ SendInv'
<1> DEFINE e == [engines[ref] EXCEPT !.paused = ~@]
<1>1. /\ ref \in 1 .. Len(engines) /\ engines[ref] \in Engine /\ HasBatch(engines[ref])
      /\ engines[ref].cancelled = "no"
  <2> HIDE DEF Engine
  <2> QED BY DEF PageOK, PauseOrResume
<1>2. e \in Engine /\ e.state = engines[ref].state /\ e.cancelled = "no" /\ e.batch = engines[ref].batch
  BY <1>1 DEF Engine
<1>3. HasBatch(e) /\ Emits(ref, e)
  BY <1>1, <1>2 DEF HasBatch, PauseOrResume
<1> HIDE DEF e, Engine
<1> QED BY <1>1, <1>2, <1>3, EmitsLogs DEF PauseOrResume

LEMMA SendLogs ==
  ASSUME TabOK, PageOK, SendInv, Send, page' = page
  PROVE  TabOK' /\ PageOK' /\ SendInv'
<1>e. PICK e : e = [state |-> IF Startable(staged) THEN "creating" ELSE "failed",
                    paused |-> FALSE, batch |-> staged, cancelled |-> "no"]
  OBVIOUS
<1>n. PICK n : n = Len(engines)
  OBVIOUS
<1>1. e \in Engine /\ HasBatch(e) /\ e.cancelled = "no"
  BY <1>e DEF Engine, HasBatch, PageOK, StagedOK, SenderState
<1>2. engines \in Seq(Engine) /\ n \in Nat /\ DOMAIN engines = 1 .. n
  BY <1>n DEF PageOK
<1>3. /\ view = NoView /\ engines' = Append(engines, e) /\ ref' = Len(engines')
      /\ Renders(Shown(ref', e), FALSE, {"complete", "failed"})
      /\ staged' = staged /\ walking' = walking
  BY <1>e DEF Send
<1>4. /\ engines' \in Seq(Engine) /\ Len(engines') = n + 1 /\ DOMAIN engines' = 1 .. n + 1
      /\ engines'[n + 1] = e /\ \A i \in 1 .. n : engines'[i] = engines[i]
  <2> HIDE DEF Engine
  <2> QED BY <1>1, <1>2, <1>3, <1>n
<1>5. ref' = n + 1 /\ ref' # 0
  BY <1>2, <1>3, <1>4
<1>6. PageOK'
  BY <1>1, <1>2, <1>3, <1>4, <1>5, <1>n DEF PageOK, HasBatch, StagedOK
<1>v. PICK v : v = Shown(ref', e)
  OBVIOUS
<1>7. v.of = n + 1 /\ v # NoView /\ ViewOK(v)
  BY <1>1, <1>2, <1>5, <1>v DEF Shown, NoView, ViewOK, Engine
<1>8. /\ TabOK' /\ view' = v /\ logged' = (logged \/ Loggable(v))
      /\ ~Due(v) => history' = history
      /\ Due(v) /\ Unlogged(n + 1) => Heads(n + 1, {Outcome(v)})'
      /\ \A k \in DOMAIN history' : \/ history'[k].of = n + 1
                                    \/ \E j \in DOMAIN history : history'[k] = history[j]
  BY <1>3, <1>7, <1>v, RenderLogs
<1>9. ASSUME page = "send" PROVE SendInv'
  <2>1. \A k \in DOMAIN history : history[k].of <= n /\ history[k].of \in Nat
    <3>1. \A k \in DOMAIN history : history[k] \in Entry
      BY DEF TabOK
    <3> QED BY <1>9, <1>n, <3>1 DEF SendInv, Entry
  <2>2. \A k \in DOMAIN history' : history'[k].of <= Len(engines')
    BY <1>2, <1>4, <1>8, <2>1
  <2>3. Unlogged(n + 1)
    BY <1>2, <2>1 DEF Unlogged
  <2>4. ASSUME NoneEarly' PROVE Following'
    <3>1. NoneEarly
      BY <1>2, <1>4, <2>4 DEF NoneEarly
    <3>2. Following
      BY <1>9, <3>1 DEF SendInv
    <3>3. ref = 0
      <4>1. Shown(ref, engines[ref]) # NoView \/ ref = 0
        BY <1>2 DEF Shown, NoView
      <4> QED BY <1>3, <3>2, <4>1 DEF Following
    <3>4. ~logged /\ \A i \in 1 .. n : engines[i].cancelled = "late"
      BY <1>2, <3>2, <3>3, <1>n DEF Following
    <3>5. logged' <=> Loggable(view')
      BY <1>8, <3>4
    <3>6. IF logged' THEN Heads(n + 1, {Outcome(v)})' ELSE Unlogged(n + 1)'
      BY <1>8, <2>3, <3>4 DEF Due, Unlogged
    <3>7. IF logged' THEN Heads(ref, {Outcome(view)})' ELSE Unlogged(ref)'
      BY <1>5, <1>8, <3>6 DEF Heads, Unlogged
    <3>8. view' = Shown(ref', engines'[ref'])
      BY <1>4, <1>5, <1>8, <1>v
    <3> QED BY <1>2, <1>4, <1>5, <3>4, <3>5, <3>7, <3>8 DEF Following
  <2> QED BY <2>2, <2>4 DEF SendInv
<1> QED BY <1>6, <1>8, <1>9 DEF SendInv

LEMMA ResetLogs ==
  ASSUME TabOK, PageOK, SendInv, Reset, page' = page
  PROVE  TabOK' /\ PageOK' /\ SendInv'
<1>1. engines \in Seq(Engine) /\ Len(engines) \in Nat /\ DOMAIN engines = 1 .. Len(engines)
  BY DEF PageOK
<1>2. /\ engines' = IF ref = 0 THEN engines ELSE [engines EXCEPT ![ref] = Cancelled(engines[ref])]
      /\ ref' = 0 /\ staged' = <<>> /\ walking' = walking
      /\ Renders(NoView, FALSE, {})
  BY DEF Reset
<1>3. ViewOK(NoView) /\ ~Loggable(NoView)
  BY DEF ViewOK, NoView, Loggable, Finished
<1>4. TabOK' /\ view' = NoView /\ ~logged' /\ history' = history
  BY <1>2, <1>3, RenderLogs DEF Due
<1>5. ref # 0 => /\ ref \in 1 .. Len(engines) /\ engines[ref] \in Engine
                 /\ Cancelled(engines[ref]) \in Engine /\ Cancelled(engines[ref]).cancelled # "no"
                 /\ Cancelled(engines[ref]).cancelled \in {"early", "late"}
  <2> SUFFICES ASSUME ref # 0
               PROVE  /\ ref \in 1 .. Len(engines) /\ engines[ref] \in Engine
                      /\ Cancelled(engines[ref]) \in Engine /\ Cancelled(engines[ref]).cancelled # "no"
                      /\ Cancelled(engines[ref]).cancelled \in {"early", "late"}
    OBVIOUS
  <2>1. ref \in 1 .. Len(engines) /\ engines[ref] \in Engine
    <3> HIDE DEF Engine
    <3> QED BY <1>1 DEF PageOK
  <2>2. <<>> \in Seq(Files)
    OBVIOUS
  <2>3. CASE engines[ref].state = "creating"
    BY <2>1, <2>2, <2>3 DEF Cancelled, Engine
  <2>4. CASE engines[ref].state # "creating"
    BY <2>2, <2>1, <2>4 DEF Cancelled, Engine, SenderState
  <2> QED BY <2>1, <2>3, <2>4
<1>6. /\ engines' \in Seq(Engine) /\ Len(engines') = Len(engines) /\ DOMAIN engines' = 1 .. Len(engines)
      /\ ref # 0 => engines'[ref] = Cancelled(engines[ref])
      /\ \A i \in 1 .. Len(engines) : i # ref => engines'[i] = engines[i]
  <2> HIDE DEF Engine
  <2> QED BY <1>1, <1>2, <1>5
<1>7. PageOK'
  <2>1. StagedOK(staged')
    BY <1>2, LimitsAssumption DEF StagedOK
  <2>2. \A i \in 1 .. Len(engines) : HasBatch(engines'[i])
    BY <1>1, <1>5, <1>6 DEF HasBatch, PageOK
  <2> QED BY <1>1, <1>2, <1>6, <2>1, <2>2 DEF PageOK
<1>8. ASSUME page = "send", NoneEarly' PROVE Following'
  <2>1. NoneEarly
    BY <1>1, <1>5, <1>6, <1>8 DEF NoneEarly, PageOK
  <2>2. Following
    BY <1>8, <2>1 DEF SendInv
  <2>3. \A i \in 1 .. Len(engines) : engines'[i].cancelled = "late"
    BY <1>1, <1>5, <1>6, <1>8, <2>2 DEF Following, NoneEarly
  <2> QED BY <1>2, <1>4, <1>6, <2>3 DEF Following
<1> QED BY <1>4, <1>6, <1>7, <1>8 DEF SendInv

LEMMA StillLogs ==
  ASSUME TabOK, PageOK, SendInv, UNCHANGED <<view, logged, told, history, engines, ref, page>>,
         StagedOK(staged'), walking' \subseteq Files, hidden' \in BOOLEAN,
         permission' \in {"default", "granted", "denied"}
  PROVE  TabOK' /\ PageOK' /\ SendInv'
<1>1. TabOK' /\ PageOK'
  BY DEF TabOK, PageOK, HasBatch
<1>2. Following => Following'
  BY DEF Following, Heads, Unlogged
<1> QED BY <1>1, <1>2 DEF SendInv, NoneEarly

LEMMA StagingLogs ==
  ASSUME TabOK, PageOK, SendInv, StagingNext, page' = page
  PROVE  TabOK' /\ PageOK' /\ SendInv'
<1> USE DEF shellVars, stagingVars
<1>0. /\ StagedOK(staged) /\ walking \subseteq Files /\ hidden \in BOOLEAN
      /\ permission \in {"default", "granted", "denied"}
  BY DEF PageOK, TabOK
<1>a. \A fs \in SUBSET Files : SetToSeq(fs) \in Seq(Files)
  <2> SUFFICES ASSUME NEW fs \in SUBSET Files PROVE SetToSeq(fs) \in Seq(Files)
    OBVIOUS
  <2>1. IsFiniteSet(fs)
    BY StagingAssumption, FS_Subset
  <2>2. SetToSeq(fs) \in Seq(fs)
    BY <2>1, SetToSeqOK
  <2> QED BY <2>2
<1>1. CASE Pick
  BY <1>0, <1>1, <1>a, AddedOK, StillLogs DEF Pick
<1>2. CASE Drop
  <2>1. walking' \subseteq Files
    BY <1>2 DEF Drop
  <2> QED BY <1>0, <1>2, <2>1, StillLogs DEF Drop
<1>3. CASE WalkEnds
  <2>1. Walked(walking) \in Seq(Files)
    BY <1>0, <1>a DEF Walked
  <2> QED BY <1>0, <1>3, <2>1, AddedOK, StillLogs DEF WalkEnds
<1>4. CASE Unstage
  <2>1. PICK f : staged' = Without(staged, {f})
    BY <1>4 DEF Unstage
  <2>2. staged \in Seq(Files) /\ Len(staged) <= MaxFiles /\ Len(staged) \in Nat /\ MaxFiles \in Nat
    BY <1>0, LimitsAssumption DEF StagedOK
  <2>3. Without(staged, {f}) \in Seq(Files \ {f}) /\ Len(Without(staged, {f})) <= Len(staged)
    BY <2>2, WithoutOK
  <2>4. StagedOK(staged')
    <3> DEFINE s == Without(staged, {f})
    <3> HIDE DEF s
    <3>1. s \in Seq(Files \ {f}) /\ Len(s) <= Len(staged) /\ staged' = s
      BY <2>1, <2>3 DEF s
    <3>2. s \in Seq(Files) /\ Len(s) \in Nat
      BY <3>1
    <3> QED BY <2>2, <3>1, <3>2 DEF StagedOK
  <2> QED BY <1>0, <1>4, <2>4, StillLogs DEF Unstage
<1>5. CASE ClearStaged
  <2>1. StagedOK(staged')
    BY <1>5, LimitsAssumption DEF ClearStaged, StagedOK
  <2> QED BY <1>0, <1>5, <2>1, StillLogs DEF ClearStaged
<1>6. CASE ClearHistory
  <2>1. /\ view = NoView /\ history' = <<>>
        /\ UNCHANGED <<view, logged, hidden, permission, told, staged, walking, engines, ref>>
    BY <1>6 DEF ClearHistory
  <2>2. TabOK'
    BY <2>1, ShellAssumption DEF TabOK
  <2>3. PageOK'
    BY <2>1 DEF PageOK, HasBatch
  <2>4. ASSUME page = "send", NoneEarly' PROVE Following'
    <3>1. Following
      BY <2>1, <2>4 DEF SendInv, NoneEarly
    <3>2. ref = 0
      <4>1. engines \in Seq(Engine) /\ ref \in 0 .. Len(engines)
        BY DEF PageOK
      <4>2. Shown(ref, engines[ref]) # NoView \/ ref = 0
        BY <4>1 DEF Shown, NoView
      <4> QED BY <2>1, <3>1, <4>2 DEF Following
    <3> QED BY <2>1, <3>1, <3>2 DEF Following
  <2>5. \A k \in DOMAIN history' : history'[k].of <= Len(engines')
    BY <2>1
  <2> QED BY <2>2, <2>3, <2>4, <2>5 DEF SendInv
<1>7. CASE AskToNotify
  BY <1>0, <1>7, StillLogs DEF AskToNotify
<1>8. CASE Send BY <1>8, SendLogs
<1>9. CASE PauseOrResume BY <1>9, PauseLogs
<1>10. CASE Reset BY <1>10, ResetLogs
<1>11. ASSUME NEW i \in DOMAIN engines, Reports(i) PROVE TabOK' /\ PageOK' /\ SendInv'
  BY <1>11, ReportsLogs
<1> QED BY <1>1, <1>2, <1>3, <1>4, <1>5, <1>6, <1>7, <1>8, <1>9, <1>10, <1>11 DEF StagingNext

-----------------------------------------------------------------------------
(* the receive page *)

RStates == {"waiting", "offered", "receiving", "verifying", "complete", "declined",
            "senderGone", "failed", "expired"}

\* How far the offer has got, and what is behind the state that is shown.
StateOK ==
  /\ rState \in RStates
  /\ rState \in {"waiting", "expired"} => manifest = <<>>
  /\ manifest = <<>> => rState \in Lost \cup {"waiting"}
  /\ rState \in {"waiting", "offered"} => ~aborted /\ ~refused
  /\ rState = "verifying" => ~refused
  /\ rState = "complete" => index > 1 /\ ~aborted /\ ~refused

\* What is on screen is the state of the engine until the page is left, and what it
\* showed first of the end is in the history.
Showing ==
  /\ left => view = NoView
  /\ ~left => view = IF rState = "waiting" THEN NoView
                     ELSE [of |-> 1, state |-> rState, paused |-> FALSE, listed |-> manifest # <<>>]
  /\ ~left =>
       /\ logged => aborted \/ refused \/ rState = "complete"
       /\ Loggable(view) => logged
       /\ logged => manifest # <<>>
       /\ rState = "complete" => Heads(1, {"complete"})
       /\ rState = "declined" => Heads(1, {"declined"})
       /\ logged /\ rState # "complete" => Heads(1, {"failed", "declined"})
       /\ ~logged => Unlogged(1)

GetInv == page = "receive" => StateOK /\ Showing

\* A state that follows may be shown.
MayFollow(s) ==
  /\ s \in RStates \ {"waiting"} /\ rState # "complete"
  /\ manifest' = <<>> => s \in Lost /\ manifest = <<>>
  /\ s = "expired" => manifest' = <<>>
  /\ (aborted => aborted') /\ (refused => refused')
  /\ s = "offered" => ~aborted' /\ ~refused'
  /\ s = "verifying" => ~refused'
  /\ s = "complete" => ~aborted' /\ ~refused' /\ index' > 1 /\ ~logged
  /\ s = "declined" => refused' /\ ~logged
  /\ s \in Lost => aborted'

LEMMA ShowsNext ==
  ASSUME TabOK, StateOK, Showing, NEW s, Emitted(s, manifest'), MayFollow(s), left' = left
  PROVE  TabOK' /\ StateOK' /\ Showing'
<1>1. rState' = s
  BY DEF Emitted
<1>2. StateOK'
  BY <1>1 DEF StateOK, MayFollow, Lost
<1>3. CASE left
  <2>1. UNCHANGED shellVars
    BY <1>3 DEF Emitted
  <2> QED BY <1>2, <1>3, <2>1 DEF TabOK, Showing, shellVars
<1>4. CASE ~left
  <2>v. PICK v : v = [of |-> 1, state |-> s, paused |-> FALSE, listed |-> manifest' # <<>>]
    OBVIOUS
  <2>1. v.of = 1 /\ v.state = s /\ ViewOK(v) /\ v # NoView
    BY <2>v DEF ViewOK, NoView
  <2>l. v.listed <=> manifest' # <<>>
    BY <2>v
  <2>2. Renders(v, RMoving(s), {"complete"})
    BY <1>4, <2>v DEF Emitted
  <2>3. view' = IF rState' = "waiting" THEN NoView
                ELSE [of |-> 1, state |-> rState', paused |-> FALSE, listed |-> manifest' # <<>>]
    BY <1>1, <2>2, <2>v DEF MayFollow, Renders
  <2>4. /\ TabOK' /\ view' = v /\ logged' = (logged \/ Loggable(v))
        /\ ~Due(v) => history' = history
        /\ Due(v) /\ Unlogged(1) => Heads(1, {Outcome(v)})'
    <3>1. \E active, tells : Renders(v, active, tells)
      BY <2>2
    <3> QED BY <2>1, <3>1, RenderLogs
  <2>5. CASE logged
    <3>1. history' = history /\ logged'
      BY <2>4, <2>5 DEF Due
    <3>2. Heads(1, {"failed", "declined"}) /\ (aborted \/ refused)
      BY <1>4, <2>5 DEF Showing, MayFollow
    <3>3. Heads(1, {"failed", "declined"})'
      BY <3>1, <3>2 DEF Heads
    <3>4. s # "complete" /\ s # "declined" /\ (aborted' \/ refused') /\ manifest' # <<>>
      BY <1>4, <2>5, <3>2 DEF MayFollow, Showing
    <3> QED BY <1>1, <1>2, <1>4, <2>3, <2>4, <3>1, <3>3, <3>4 DEF Showing
  <2>6. CASE ~logged
    <3>1. Unlogged(1)
      BY <1>4, <2>6 DEF Showing
    <3>2. CASE Loggable(v)
      <4>1. Due(v)
        BY <2>6, <3>2 DEF Due
      <4>2. Heads(1, {Outcome(v)})' /\ logged'
        BY <2>4, <3>1, <3>2, <4>1
      <4>3. s \in {"complete", "failed", "declined", "senderGone"} /\ manifest' # <<>>
        BY <2>1, <2>l, <3>2 DEF Loggable, Finished
      <4>4. Outcome(v) = IF s \in {"complete", "declined"} THEN s ELSE "failed"
        BY <2>1 DEF Outcome
      <4>5. /\ s = "complete" => Heads(1, {"complete"})'
            /\ s = "declined" => Heads(1, {"declined"})'
            /\ s # "complete" => Heads(1, {"failed", "declined"})'
        BY <4>2, <4>3, <4>4 DEF Heads
      <4> QED BY <1>1, <1>2, <1>4, <2>3, <2>4, <4>2, <4>3, <4>5 DEF Showing, MayFollow, Lost
    <3>3. CASE ~Loggable(v)
      <4>1. history' = history /\ ~logged' /\ Unlogged(1)'
        BY <2>4, <2>6, <3>1, <3>3 DEF Due, Unlogged
      <4>2. s # "complete" /\ s # "declined"
        BY <2>1, <2>l, <3>3 DEF Loggable, Finished, MayFollow, Lost
      <4> QED BY <1>1, <1>2, <1>4, <2>3, <2>4, <3>3, <4>1, <4>2 DEF Showing
    <3> QED BY <3>2, <3>3
  <2> QED BY <2>5, <2>6
<1> QED BY <1>3, <1>4

\* A step that shows nothing new.
LEMMA ShowsStill ==
  ASSUME TabOK, StateOK, Showing,
         UNCHANGED <<rState, manifest, aborted, refused, left, view, logged, told, history>>,
         index' = index \/ index' = index + 1, index \in Nat,
         hidden' \in BOOLEAN, permission' = permission
  PROVE  TabOK' /\ StateOK' /\ Showing'
<1>1. TabOK' /\ StateOK'
  BY DEF TabOK, StateOK
<1> QED BY <1>1 DEF Showing, Heads, Unlogged

LEMMA ShowsFailure ==
  ASSUME TabOK, StateOK, Showing, NEW s \in Lost, NEW n, NEW p, Fails(s, n, p),
         s = "expired" => rState = "waiting",
         UNCHANGED <<manifest, index, refused, left>>, index \in Nat
  PROVE  TabOK' /\ StateOK' /\ Showing'
<1>1. CASE Immune
  <2>1. UNCHANGED <<rState, aborted, shellVars>>
    BY <1>1 DEF Fails
  <2> QED BY <2>1, ShowsStill DEF shellVars, TabOK
<1>2. CASE ~Immune
  <2>1. aborted' = TRUE /\ Emitted(s, manifest')
    BY <1>2 DEF Fails, REmits
  <2>2. MayFollow(s)
    BY <1>2, <2>1 DEF MayFollow, Immune, RStates, Lost, StateOK
  <2> QED BY <2>1, <2>2, ShowsNext
<1> QED BY <1>1, <1>2

LEMMA SavingShows ==
  ASSUME TabOK, StateOK, Showing, BatchInv, SavingNext
  PROVE  TabOK' /\ StateOK' /\ Showing'
<1> USE DEF shellVars, fileVars, placeVars, meterVars
<1>0. /\ index \in Nat \ {0} /\ Len(manifest) \in Nat
      /\ phase # "idle" => index <= Len(manifest) /\ manifest # <<>>
      /\ index > Len(manifest) /\ manifest # <<>> => index > 1
      /\ hidden \in BOOLEAN
  <2>1. index \in Nat \ {0} /\ Len(manifest) \in Nat /\ (phase # "idle" => index <= Len(manifest))
        /\ DOMAIN manifest = 1 .. Len(manifest)
    BY ManifestShape DEF BatchInv, DiskShape, InBatch, ManifestOK
  <2>2. manifest = <<>> => Len(manifest) = 0
    OBVIOUS
  <2>3. manifest # <<>> => Len(manifest) # 0
    <3>1. manifest = <<>> \/ manifest \in {Read(m) : m \in {m \in Offers : Parses(m)}}
      BY DEF BatchInv, ManifestOK, OfferedFiles
    <3>2. CASE \E m \in Offers : Parses(m) /\ manifest = Read(m)
      <4>1. PICK m \in Offers : Parses(m) /\ manifest = Read(m)
        BY <3>2
      <4>2. 1 \in DOMAIN m.files
        BY <4>1, SavingAssumption, LimitsAssumption DEF Parses
      <4>3. 1 \in DOMAIN manifest
        BY <4>1, <4>2 DEF Read
      <4> QED BY <2>1, <4>3
    <3> QED BY <3>1, <3>2
  <2> QED BY <2>1, <2>2, <2>3 DEF TabOK
<1>1. CASE OfferRead
  <2>1. PICK m \in Offers :
          Parses(m) /\ manifest' = Read(m) /\ Emitted("offered", manifest') /\ UNCHANGED aborted
    BY <1>1 DEF OfferRead
  <2>2. rState = "waiting" /\ ~aborted /\ ~refused /\ left' = left /\ refused' = refused
    BY <1>1 DEF OfferRead, StateOK
  <2>3. manifest' # <<>>
    <3>1. 1 \in DOMAIN m.files
      BY <2>1, SavingAssumption, LimitsAssumption DEF Parses
    <3>2. 1 \in DOMAIN manifest'
      BY <2>1, <3>1 DEF Read
    <3> QED BY <3>2
  <2>4. MayFollow("offered")
    BY <2>1, <2>2, <2>3 DEF MayFollow, RStates, Lost
  <2> QED BY <2>1, <2>2, <2>4, ShowsNext
<1>2. CASE TimePasses \/ Accept \/ PickName \/ PickFolder \/ Look \/ Create \/ Opens \/ Matches \/ Closes \/ Stranger
  <2>1. /\ UNCHANGED <<rState, manifest, aborted, refused, left, shellVars>>
        /\ index' = index \/ index' = index + 1
    BY <1>2 DEF TimePasses, Accept, PickName, PickFolder, Look, Create, Opens, Matches, Closes, Stranger
  <2> QED BY <1>0, <2>1, ShowsStill
<1>3. CASE Decline
  <2>1. rState = "offered" /\ ~left /\ ~aborted /\ ~refused /\ manifest # <<>>
    BY <1>3 DEF Decline, Acceptable, StateOK, Lost
  <2>2. refused' = TRUE /\ Emitted("declined", manifest') /\ UNCHANGED <<aborted, manifest, left, index>>
    BY <1>3 DEF Decline, REmits
  <2>3. ~logged
    BY <2>1 DEF Showing
  <2>4. MayFollow("declined")
    BY <2>1, <2>2, <2>3 DEF MayFollow, RStates, Lost
  <2> QED BY <2>2, <2>4, ShowsNext
<1>4. CASE Verifies
  <2>1. Emitted("verifying", manifest') /\ UNCHANGED <<aborted, refused, manifest, left, index>>
    BY <1>4 DEF Verifies, REmits
  <2>2. MayFollow("verifying")
    BY <1>4, <2>1 DEF MayFollow, RStates, Verifies, StateOK, Lost
  <2> QED BY <2>1, <2>2, ShowsNext
<1>5. CASE Completes
  <2>1. Emitted("complete", manifest') /\ UNCHANGED <<aborted, refused, manifest, left, index>>
    BY <1>5 DEF Completes, REmits
  <2>2. rState = "verifying" /\ ~aborted /\ ~refused /\ ~left /\ index > Len(manifest) /\ manifest # <<>>
    BY <1>5 DEF Completes, StateOK, Lost
  <2>3. ~logged
    BY <2>2 DEF Showing
  <2>4. MayFollow("complete")
    BY <1>0, <2>1, <2>2, <2>3 DEF MayFollow, RStates, Lost
  <2> QED BY <2>1, <2>4, ShowsNext
<1>6. CASE OfferUnread \/ AcceptAgain \/ OpenFails \/ WriteFails \/ Mismatches \/ Breaks
  <2>1. \E s \in Lost : (s = "expired" => rState = "waiting") /\ \E n, p : Fails(s, n, p)
    <3>1. CASE Breaks
      BY <3>1, LossesOK DEF Breaks, Losses
    <3>2. CASE ~Breaks
      BY <1>6, <3>2 DEF OfferUnread, AcceptAgain, OpenFails, WriteFails, Mismatches, Lost
    <3> QED BY <3>1, <3>2
  <2>2. UNCHANGED <<manifest, index, refused, left>>
    BY <1>6 DEF OfferUnread, AcceptAgain, OpenFails, WriteFails, Mismatches, Breaks
  <2> QED BY <1>0, <2>1, <2>2, ShowsFailure
<1>7. CASE Dismiss
  <2>1. UNCHANGED <<manifest, index, refused, left>> /\ manifest # <<>>
    BY <1>0, <1>7 DEF Dismiss
  <2>2. CASE dest = "perFile"
    BY <1>0, <1>7, <2>1, <2>2, ShowsFailure DEF Dismiss, Lost
  <2>3. CASE dest # "perFile"
    BY <1>0, <1>7, <2>1, <2>3, ShowsStill DEF Dismiss
  <2> QED BY <2>2, <2>3
<1>8. CASE HasherReady
  <2>1. UNCHANGED <<aborted, refused, manifest, left, index>> /\ manifest # <<>>
    BY <1>0, <1>8 DEF HasherReady
  <2>2. CASE index = 1
    <3>1. Emitted("receiving", manifest')
      BY <1>8, <2>2 DEF HasherReady, REmits
    <3>2. MayFollow("receiving")
      BY <2>1, <2>2 DEF MayFollow, RStates, StateOK, Lost
    <3> QED BY <2>1, <3>1, <3>2, ShowsNext
  <2>3. CASE index # 1
    BY <1>0, <1>8, <2>1, <2>3, ShowsStill DEF HasherReady
  <2> QED BY <2>2, <2>3
<1>9. CASE Piece
  <2>1. UNCHANGED <<manifest, index, refused, left>> /\ manifest # <<>>
    BY <1>0, <1>9 DEF Piece, Receiving
  <2>2. \/ Fails("failed", sink, "idle")
        \/ UNCHANGED <<rState, aborted, shellVars>>
    BY <1>9 DEF Piece
  <2> QED BY <1>0, <2>1, <2>2, ShowsFailure, ShowsStill DEF Lost
<1>10. CASE CloseFails
  <2>1. UNCHANGED <<manifest, index, refused, left>> /\ manifest # <<>>
    BY <1>0, <1>10 DEF CloseFails
  <2>2. CASE Immune
    BY <1>0, <1>10, <2>1, <2>2, ShowsStill DEF CloseFails
  <2>3. CASE ~Immune
    <3>1. aborted' = TRUE /\ Emitted("failed", manifest')
      BY <1>10, <2>3 DEF CloseFails, REmits
    <3>2. MayFollow("failed")
      BY <2>1, <2>3, <3>1 DEF MayFollow, Immune, RStates, Lost
    <3> QED BY <2>1, <3>1, <3>2, ShowsNext
  <2> QED BY <2>2, <2>3
<1>11. CASE Leave
  <2>1. left' = TRUE /\ Renders(NoView, FALSE, {}) /\ UNCHANGED <<rState, aborted, manifest, refused, index>>
    BY <1>11 DEF Leave
  <2>2. ViewOK(NoView)
    BY DEF ViewOK, NoView
  <2>3. TabOK' /\ view' = NoView
    BY <2>1, <2>2, RenderLogs
  <2> QED BY <2>1, <2>3 DEF StateOK, Showing
<1> QED BY <1>1, <1>2, <1>3, <1>4, <1>5, <1>6, <1>7, <1>8, <1>9, <1>10, <1>11, OfferCases
        DEF SavingNext

-----------------------------------------------------------------------------
(* both pages *)

LogInv == TabOK /\ PageOK /\ SendInv /\ GetInv /\ page \in {"send", "receive"}

LEMMA LogStep == BatchInv /\ LogInv /\ [Next]_vars => LogInv'
<1> SUFFICES ASSUME BatchInv, LogInv, [Next]_vars PROVE LogInv'
  OBVIOUS
<1> USE DEF shellVars, stagingVars, savingVars
<1>0. TabOK /\ PageOK /\ SendInv /\ GetInv /\ page \in {"send", "receive"}
  BY DEF LogInv
<1>1. CASE page = "send" /\ StagingNext /\ page' = page
  BY <1>0, <1>1, StagingLogs DEF LogInv, GetInv
<1>2. CASE page = "receive" /\ SavingNext /\ UNCHANGED <<page, stagingVars>>
  <2>1. TabOK' /\ StateOK' /\ Showing'
    BY <1>0, <1>2, SavingShows DEF GetInv
  <2>2. PageOK'
    BY <1>0, <1>2 DEF PageOK, HasBatch
  <2> QED BY <1>0, <1>2, <2>1, <2>2 DEF LogInv, SendInv, GetInv
<1>3. ASSUME UNCHANGED <<view, logged, told, history, permission, page, stagingVars, savingVars>>,
             hidden' \in BOOLEAN
      PROVE  LogInv'
  <2>1. TabOK' /\ PageOK' /\ SendInv'
    BY <1>0, <1>3, StillLogs DEF PageOK, TabOK
  <2>2. ASSUME page = "receive" PROVE StateOK' /\ Showing'
    <3>1. StateOK /\ Showing
      BY <1>0, <2>2 DEF GetInv
    <3>2. StateOK'
      BY <1>3, <3>1 DEF StateOK
    <3>3. Showing'
      BY <1>3, <3>1 DEF Showing, Heads, Unlogged
    <3> QED BY <3>2, <3>3
  <2> QED BY <1>0, <1>3, <2>1, <2>2 DEF LogInv, GetInv
<1>4. CASE Surroundings /\ UNCHANGED <<page, stagingVars, savingVars>>
  <2>1. UNCHANGED <<view, logged, told, history, permission>> /\ hidden' \in BOOLEAN
    BY <1>0, <1>4 DEF Surroundings, LockGranted, LockRefused, Hide, Show, TabOK
  <2> QED BY <1>3, <1>4, <2>1
<1>5. CASE UNCHANGED vars
  <2>1. UNCHANGED <<view, logged, told, history, permission, page, stagingVars, savingVars, hidden>>
    BY <1>5 DEF vars
  <2> QED BY <1>0, <1>3, <2>1 DEF TabOK
<1> QED BY <1>0, <1>1, <1>2, <1>4, <1>5 DEF Next

LEMMA LogStart == Init => LogInv
<1> SUFFICES ASSUME Init PROVE LogInv
  OBVIOUS
<1>1. /\ view = NoView /\ logged = FALSE /\ hidden = FALSE /\ permission = "default" /\ told = {}
      /\ history \in Earlier
  BY DEF Init, ShellInit
<1>2. staged = <<>> /\ walking = {} /\ engines = <<>> /\ ref = 0
  BY DEF Init, StagingInit
<1>3. /\ page \in {"send", "receive"} /\ rState = "waiting" /\ manifest = <<>>
      /\ aborted = FALSE /\ refused = FALSE /\ left = FALSE
  BY DEF Init, SavingInit
<1>4. /\ history \in Seq(Entry) /\ Len(history) <= HistoryLimit
      /\ \A k \in DOMAIN history : history[k].of = 0
  BY <1>1, ShellAssumption DEF History
<1>5. TabOK
  BY <1>1, <1>4 DEF TabOK, ViewOK, NoView
<1>6. /\ StagedOK(<<>>) /\ <<>> \in Seq(Engine) /\ Len(<<>>) = 0
  BY LimitsAssumption DEF StagedOK
<1>7. PageOK
  BY <1>2, <1>6 DEF PageOK
<1>8. SendInv
  BY <1>1, <1>2, <1>4, <1>6 DEF SendInv, Following
<1>9. GetInv
  BY <1>1, <1>3, <1>4 DEF GetInv, StateOK, Showing, RStates, NoView, Loggable, Finished, Unlogged
<1> QED BY <1>3, <1>5, <1>7, <1>8, <1>9 DEF LogInv

LEMMA LogInvariant == Spec => [](BatchInv /\ LogInv)
BY BatchStart, BatchStep, LogStart, LogStep, PTL DEF Spec

\* One entry per transfer (page.tsx:453, t/[session]/page.tsx:124), whatever is
\* sent or offered and in whatever order renders, failures, resets and the Clear
\* of the history come: what the picture of the connection shows as done or in
\* error, and a decline, heads the history with an outcome that fits, once.
THEOREM OutcomesAreLogged == Spec => []OutcomeLogged
<1>1. LogInv => OutcomeLogged
  <2> SUFFICES ASSUME LogInv,
                      Phase(view.state) \in {"done", "error"} \/ view.state = "declined",
                      NoneEarly
               PROVE  LET mine == {i \in DOMAIN history : history[i].of = view.of}
                          shows == CASE Phase(view.state) = "done" -> {"complete"}
                                     [] Phase(view.state) = "error" -> {"failed", "declined"}
                                     [] OTHER -> {"declined"}
                      IN  IF view.listed THEN mine = {1} /\ history[1].outcome \in shows ELSE mine = {}
    BY DEF OutcomeLogged, NoneEarly
  <2> DEFINE mine == {i \in DOMAIN history : history[i].of = view.of}
             shows == CASE Phase(view.state) = "done" -> {"complete"}
                        [] Phase(view.state) = "error" -> {"failed", "declined"}
                        [] OTHER -> {"declined"}
  <2>1. view # NoView
    BY DEF NoView, Phase
  <2>2. view.state \in {"complete", "senderGone", "expired", "failed", "declined"}
    BY DEF Phase
  <2>3. /\ view.state = "complete" => shows = {"complete"}
        /\ view.state = "declined" => shows = {"declined"}
        /\ view.state \in {"senderGone", "expired", "failed"} => shows = {"failed", "declined"}
    BY DEF Phase
  <2> HIDE DEF shows
  <2>u. ASSUME ~view.listed PROVE mine = {}
    <3>1. page = "receive"
      <4>1. page = "send" => Following
        BY DEF LogInv, SendInv
      <4>2. page = "send" => view.listed
        BY <2>1, <4>1 DEF Following, Shown
      <4> QED BY <2>u, <4>2 DEF LogInv
    <3>2. StateOK /\ Showing
      BY <3>1 DEF LogInv, GetInv
    <3>3. ~left /\ view = [of |-> 1, state |-> rState, paused |-> FALSE, listed |-> manifest # <<>>]
      BY <2>1, <3>2 DEF Showing
    <3>5. view.of = 1 /\ manifest = <<>>
      BY <2>u, <3>3
    <3>4. Unlogged(1)
      BY <3>2, <3>3, <3>5 DEF Showing
    <3> QED BY <3>4, <3>5 DEF Unlogged
  <2> SUFFICES ASSUME view.listed PROVE mine = {1} /\ history[1].outcome \in shows
    BY <2>u DEF shows
  <2>4. \E n, os : Heads(n, os) /\ view.of = n /\ os \subseteq shows
    <3>1. CASE page = "send"
      <4>1. Following
        BY <3>1 DEF LogInv, SendInv
      <4>2. ref # 0 /\ engines[ref].state \in SenderState
        <5>1. ref # 0
          BY <2>1, <4>1 DEF Following
        <5>2. engines \in Seq(Engine) /\ ref \in 1 .. Len(engines)
          BY <5>1 DEF LogInv, PageOK
        <5>3. engines[ref] \in Engine
          <6> HIDE DEF Engine
          <6> QED BY <5>2
        <5> QED BY <5>1, <5>3 DEF Engine
      <4>3. view.of = ref /\ view.state \in SenderState
        BY <4>1, <4>2 DEF Following, Shown
      <4>4. view.state \in {"complete", "failed", "declined"}
        BY <2>2, <4>3 DEF SenderState
      <4>5. Heads(ref, {Outcome(view)})
        BY <4>1, <4>2, <4>4 DEF Following, Loggable, Finished, Shown
      <4>6. Outcome(view) \in shows
        BY <2>3, <4>4 DEF Outcome
      <4> QED BY <4>3, <4>5, <4>6
    <3>2. CASE page = "receive"
      <4>1. StateOK /\ Showing
        BY <3>2 DEF LogInv, GetInv
      <4>0. ~left /\ view = [of |-> 1, state |-> rState, paused |-> FALSE, listed |-> manifest # <<>>]
        BY <2>1, <4>1 DEF Showing
      <4>2. ~left /\ view.of = 1 /\ view.state = rState /\ manifest # <<>>
        BY <4>0
      <4>3. rState \in {"complete", "senderGone", "failed", "declined"}
        BY <2>2, <4>1, <4>2 DEF StateOK, RStates
      <4>4. logged
        BY <4>1, <4>2, <4>3 DEF Showing, Loggable, Finished
      <4>5. CASE rState = "complete"
        BY <2>3, <4>1, <4>2, <4>5 DEF Showing
      <4>6. CASE rState = "declined"
        BY <2>3, <4>1, <4>2, <4>6 DEF Showing
      <4>7. CASE rState \in {"senderGone", "failed"}
        BY <2>3, <4>1, <4>2, <4>4, <4>7 DEF Showing
      <4> QED BY <4>3, <4>5, <4>6, <4>7
    <3> QED BY <3>1, <3>2 DEF LogInv
  <2>5. PICK n, os : Heads(n, os) /\ view.of = n /\ os \subseteq shows
    BY <2>4
  <2>6. history \in Seq(Entry) /\ DOMAIN history = 1 .. Len(history) /\ Len(history) \in Nat
    BY DEF LogInv, TabOK
  <2>7. mine = {1}
    <3>1. 1 \in mine
      BY <2>5, <2>6 DEF Heads
    <3>2. \A i \in mine : i = 1
      BY <2>5, <2>6 DEF Heads
    <3> QED BY <3>1, <3>2
  <2>8. history[1].outcome \in shows
    BY <2>5 DEF Heads
  <2> QED BY <2>7, <2>8 DEF shows
<1> QED BY <1>1, LogInvariant, PTL

LEMMA TotalsAgree ==
  ASSUME NEW a, NEW b, NEW n \in Nat, DOMAIN a = 1 .. n, DOMAIN b = 1 .. n, Len(a) = n, Len(b) = n,
         \A k \in 1 .. n : a[k].size \in Nat /\ b[k].size = a[k].size
  PROVE  TotalOf(a) = TotalOf(b)
<1>1. PICK g : Sums(a, g)
  BY SumsExist
<1>2. PICK h : Sums(b, h)
  BY SumsExist
<1>3. /\ g[0] = 0 /\ \A k \in 1 .. n : g[k] = g[k - 1] + a[k].size
      /\ h[0] = 0 /\ \A k \in 1 .. n : h[k] = h[k - 1] + a[k].size
      /\ TotalOf(a) = g[n] /\ TotalOf(b) = h[n]
  BY <1>1, <1>2 DEF Sums
<1> DEFINE G == {k \in Nat : k > n \/ g[k] = h[k]}
<1>4. 0 \in G
  BY <1>3
<1>5. ASSUME NEW k \in Nat, k \in G PROVE k + 1 \in G
  <2>1. CASE k + 1 > n
    BY <2>1
  <2>2. CASE ~(k + 1 > n)
    <3>1. k + 1 \in 1 .. n /\ (k + 1) - 1 = k /\ g[k] = h[k]
      BY <1>5, <2>2
    <3>2. g[k + 1] = h[k + 1]
      BY <1>3, <3>1
    <3> QED BY <3>2
  <2> QED BY <2>1, <2>2
<1> HIDE DEF G
<1>6. n \in G
  BY <1>4, <1>5, Induction
<1> QED BY <1>3, <1>6 DEF G

\* The receiver reads every offer of a batch the send page let through, but one with
\* an empty file in it (protocol.ts:133), and every settled name and path as it was
\* sent (protocol.ts:205), for any files, names, folders and limits.
THEOREM OffersAreRead == Spec => []OfferParses
<1>1. LogInv => OfferParses
  <2> SUFFICES ASSUME LogInv, NEW i \in DOMAIN engines, engines[i].cancelled = "no",
                      engines[i].state \in {"offering", "transferring", "verifying", "complete", "declined"}
               PROVE  LET batch == engines[i].batch sent == ToMessage(Described(batch)) IN
                      /\ Parses(sent) \/ \E k \in DOMAIN batch : batch[k].size = 0
                      /\ \A k \in DOMAIN batch :
                           \/ Read(sent)[k] = sent.files[k]
                           \/ ~Settled(sent.files[k].name)
                           \/ \E j \in DOMAIN sent.files[k].path : ~Settled(sent.files[k].path[j])
    BY DEF OfferParses
  <2>b. PICK batch : batch = engines[i].batch
    OBVIOUS
  <2>1. batch \in Seq(Files) /\ Startable(batch)
    <3>1. i \in 1 .. Len(engines) /\ engines \in Seq(Engine) /\ HasBatch(engines[i])
      BY DEF LogInv, PageOK
    <3>2. engines[i] \in Engine
      <4> HIDE DEF Engine
      <4> QED BY <3>1
    <3> QED BY <2>b, <3>1, <3>2 DEF Engine, HasBatch
  <2>2. PICK n : n = Len(batch)
    OBVIOUS
  <2>3. n \in Nat /\ DOMAIN batch = 1 .. n /\ \A k \in 1 .. n : batch[k] \in Files
    BY <2>1, <2>2
  <2>4. PICK files : files = Described(batch)
    OBVIOUS
  <2>5. files = [k \in 1 .. n |-> Cleaned(batch[k])]
    BY <2>3, <2>4 DEF Described
  <2>6. DOMAIN files = 1 .. n /\ Len(files) = n
    <3> DEFINE S == {Cleaned(batch[k]) : k \in 1 .. n}
    <3>1. \A k \in 1 .. n : Cleaned(batch[k]) \in S
      OBVIOUS
    <3> HIDE DEF S
    <3>2. files \in Seq(S)
      BY <2>3, <2>5, <3>1, IsASeq
    <3>3. Len(files) \in Nat /\ DOMAIN files = 1 .. Len(files)
      BY <3>2, LenProperties
    <3>4. DOMAIN files = 1 .. n
      BY <2>5
    <3> QED BY <2>3, <3>3, <3>4
  <2>7. \A k \in 1 .. n : /\ files[k].size = batch[k].size /\ batch[k].size \in Nat
                          /\ files[k].name = Filename(batch[k].name)
                          /\ files[k].path = Pathname(batch[k].path)
    BY <2>3, <2>5, StagingAssumption DEF Cleaned
  <2>8. TotalOf(batch) = TotalOf(files)
    BY <2>2, <2>3, <2>6, <2>7, TotalsAgree
  <2>9. PICK sent : sent = ToMessage(files)
    OBVIOUS
  <2>10. sent.files = files /\ sent.total = TotalOf(files)
    BY <2>9 DEF ToMessage
  <2>11. Parses(sent) \/ \E k \in DOMAIN batch : batch[k].size = 0
    <3>1. n \in 1 .. MaxFiles /\ TotalOf(files) \in 1 .. MaxBytes
      BY <2>1, <2>2, <2>8 DEF Startable
    <3>2. ASSUME \A k \in DOMAIN batch : batch[k].size # 0 PROVE Parses(sent)
      <4>1. \A k \in DOMAIN files : files[k].size > 0
        BY <2>3, <2>6, <2>7, <3>2
      <4> QED BY <2>6, <2>10, <3>1, <4>1, LimitsAssumption DEF Parses
    <3> QED BY <3>2
  <2>12. ASSUME NEW k \in DOMAIN batch, Settled(sent.files[k].name),
                \A j \in DOMAIN sent.files[k].path : Settled(sent.files[k].path[j])
         PROVE  Read(sent)[k] = sent.files[k]
    <3>1. k \in 1 .. n /\ batch[k].name \in Seq(STRING) /\ batch[k].path \in Seq(Seq(STRING))
      BY <2>3, StagingAssumption
    <3>2. Filename(files[k].name) = files[k].name
      BY <2>7, <2>10, <2>12, <3>1, FilenameAgain
    <3>3. Pathname(files[k].path) = files[k].path
      <4>1. \A j \in DOMAIN Pathname(batch[k].path) : Settled(Pathname(batch[k].path)[j])
        BY <2>7, <2>10, <2>12, <3>1
      <4> QED BY <2>7, <3>1, <4>1, PathnameAgain
    <3>4. files[k] = [path |-> files[k].path, name |-> files[k].name, size |-> files[k].size]
      BY <2>5, <3>1 DEF Cleaned
    <3>5. Cleaned(files[k]) = files[k]
      BY <3>2, <3>3, <3>4 DEF Cleaned
    <3> QED BY <2>6, <2>10, <3>1, <3>5 DEF Read
  <2> QED BY <2>b, <2>4, <2>9, <2>11, <2>12
<1> QED BY <1>1, LogInvariant, PTL

-----------------------------------------------------------------------------
(* types *)

Phases == {"idle", "picking", "looking", "creating", "opening", "hasher", "ready",
           "checking", "closing"}
RowStates == {"queued", "receiving", "verified", "failed"}
SinkName == DiskName \cup {NoName, InMemory}

RatesOK == \E T : meter.rates \in Seq(T) /\ Len(meter.rates) <= RatesKept

RowsTyped == rows \in Seq(RowStates) /\ Len(rows) = Len(manifest) /\ downloads \subseteq DOMAIN rows

SaveOK ==
  /\ browser \in Browsers /\ rState \in RStates
  /\ aborted \in BOOLEAN /\ refused \in BOOLEAN /\ left \in BOOLEAN
  /\ phase \in Phases /\ copy \in 1 .. MaxCopies + 1
  /\ target \in DiskName \cup {NoName} /\ sink \in SinkName
  /\ taken \subseteq DiskName /\ disk \in [DiskName -> Content]
  /\ RowsTyped
  /\ torn \in 0 .. MaxFiles /\ strangers \in 0 .. MaxStrangers
  /\ RatesOK

\* What the batch says of the index, the manifest and the rows.
LEMMA BatchShape ==
  ASSUME BatchInv, CountInv
  PROVE  /\ Len(manifest) \in 0 .. MaxFiles /\ DOMAIN manifest = 1 .. Len(manifest)
         /\ index \in 1 .. Len(manifest) + 1
         /\ phase # "idle" => index \in 1 .. Len(manifest) /\ index \in 0 .. MaxFiles
<1>1. Len(manifest) \in Nat /\ Len(manifest) <= MaxFiles /\ DOMAIN manifest = 1 .. Len(manifest)
  BY ManifestShape DEF BatchInv, ManifestOK
<1>2. index \in 1 .. Len(manifest) + 1 /\ (phase # "idle" => index <= Len(manifest))
  BY DEF CountInv, BytesInv, BatchInv, InBatch
<1> QED BY <1>1, <1>2, LimitsAssumption

LEMMA ContentTyped ==
  Absent \in Content /\ Theirs \in Content /\ \A k \in 0 .. MaxFiles : Ours(k) \in Content
BY LimitsAssumption DEF Absent, Theirs, Ours, Content

LEMMA RemovedTyped ==
  ASSUME NEW d \in [DiskName -> Content], NEW n, NEW c \in Removed(d, n)
  PROVE  c \in [DiskName -> Content]
BY ContentTyped DEF Removed

LEMMA RowTyped ==
  ASSUME RowsTyped, NEW r \in RowStates, NEW k \in DOMAIN rows,
         rows' = [rows EXCEPT ![k] = r], manifest' = manifest, downloads' = downloads
  PROVE  RowsTyped'
<1>1. rows \in Seq(RowStates)
  BY DEF RowsTyped
<1>2. rows' \in Seq(RowStates) /\ Len(rows') = Len(rows) /\ DOMAIN rows' = DOMAIN rows
  <2> HIDE DEF RowStates
  <2> QED BY <1>1
<1> QED BY <1>2 DEF RowsTyped

LEMMA CrossedTyped ==
  ASSUME RowsTyped, rows' = Crossed, manifest' = manifest, downloads' = downloads
  PROVE  RowsTyped'
<1>1. CASE index \in DOMAIN rows
  BY <1>1, RowTyped DEF Crossed, RowStates
<1>2. CASE index \notin DOMAIN rows
  BY <1>2 DEF Crossed, RowsTyped
<1> QED BY <1>1, <1>2

LEMMA FailTyped ==
  ASSUME BatchInv, CountInv, SaveOK, NEW s \in RStates, NEW n \in SinkName, NEW p \in Phases,
         Fails(s, n, p),
         UNCHANGED <<browser, manifest, refused, left, copy, target, taken, downloads, strangers, meter>>
  PROVE  SaveOK'
<1>1. CASE Immune
  <2>1. phase' = p /\ sink' = n /\ UNCHANGED <<rState, aborted, disk, torn, rows>>
    BY <1>1 DEF Fails
  <2> QED BY <2>1 DEF SaveOK, RowsTyped, RatesOK
<1>2. CASE ~Immune
  <2>1. /\ aborted' = TRUE /\ torn' = Tearing /\ phase' = Stopped(p) /\ rows' = Crossed
        /\ AbortSink(n) /\ sink' = NoName /\ rState' = s
    BY <1>2, StateOf DEF Fails, REmits
  <2>2. torn' \in 0 .. MaxFiles
    BY <2>1, BatchShape DEF Tearing, SaveOK
  <2>3. phase' \in Phases
    BY <2>1 DEF Stopped, Phases
  <2>4. disk' \in [DiskName -> Content]
    BY <2>1, RemovedTyped DEF AbortSink, SaveOK
  <2>5. RowsTyped'
    BY <2>1, CrossedTyped DEF SaveOK
  <2> QED BY <2>1, <2>2, <2>3, <2>4, <2>5 DEF SaveOK, SinkName, RatesOK
<1> QED BY <1>1, <1>2

LEMMA StillTyped ==
  ASSUME SaveOK, UNCHANGED savingVars
  PROVE  SaveOK'
BY DEF SaveOK, RowsTyped, RatesOK, savingVars

LEMMA MeasuredTyped ==
  ASSUME RatesOK, NEW b, NEW t, meter' = Measured(meter, b, t)
  PROVE  RatesOK'
<1>1. PICK T : meter.rates \in Seq(T) /\ Len(meter.rates) <= RatesKept
  BY DEF RatesOK
<1>2. PICK r : meter'.rates = meter.rates
               \/ meter'.rates = IF Len(Append(meter.rates, r)) > RatesKept
                                 THEN Tail(Append(meter.rates, r)) ELSE Append(meter.rates, r)
  BY DEF Measured
<1>3. CASE meter'.rates = meter.rates
  BY <1>1, <1>3 DEF RatesOK
<1>4. CASE meter'.rates = IF Len(Append(meter.rates, r)) > RatesKept
                          THEN Tail(Append(meter.rates, r)) ELSE Append(meter.rates, r)
  <2> DEFINE U == T \cup {r}
             long == Append(meter.rates, r)
  <2>1. meter.rates \in Seq(U) /\ r \in U
    BY <1>1
  <2>2. Len(meter.rates) \in Nat /\ RatesKept \in Nat
    BY <1>1, MeterAssumption
  <2> HIDE DEF U
  <2>3. long \in Seq(U) /\ Len(long) = Len(meter.rates) + 1
    BY <2>1
  <2> HIDE DEF long
  <2>4. CASE Len(long) > RatesKept
    <3>1. Tail(long) \in Seq(U) /\ Len(Tail(long)) = Len(long) - 1
      BY <2>2, <2>3
    <3>2. meter'.rates = Tail(long)
      BY <1>4, <2>4 DEF long
    <3>3. meter'.rates \in Seq(U) /\ Len(meter'.rates) <= RatesKept
      BY <1>1, <2>2, <2>3, <3>1, <3>2
    <3> QED BY <3>3 DEF RatesOK
  <2>5. CASE ~(Len(long) > RatesKept)
    <3>1. meter'.rates = long
      BY <1>4, <2>5 DEF long
    <3>2. meter'.rates \in Seq(U) /\ Len(meter'.rates) <= RatesKept
      BY <2>2, <2>3, <2>5, <3>1
    <3> QED BY <3>2 DEF RatesOK
  <2> QED BY <2>4, <2>5
<1> QED BY <1>2, <1>3, <1>4

LEMMA SaveStep ==
  ASSUME BatchInv, CountInv, SaveOK, SavingNext, BatchInv'
  PROVE  SaveOK'
<1> USE DEF fileVars, placeVars, meterVars
<1>0. /\ browser \in Browsers /\ rState \in RStates /\ sink \in SinkName
      /\ aborted \in BOOLEAN /\ refused \in BOOLEAN /\ left \in BOOLEAN
      /\ phase \in Phases /\ "idle" \in Phases /\ copy \in 1 .. MaxCopies + 1
      /\ target \in DiskName \cup {NoName}
      /\ taken \subseteq DiskName /\ disk \in [DiskName -> Content]
      /\ RowsTyped /\ RatesOK
      /\ torn \in 0 .. MaxFiles /\ strangers \in 0 .. MaxStrangers
      /\ MaxCopies \in Nat /\ MaxStrangers \in Nat
  BY SavingAssumption DEF SaveOK, Phases
<1>r. {"failed", "offered", "declined", "receiving", "verifying", "complete"} \cup Lost \subseteq RStates
  BY DEF RStates, Lost
<1>1. CASE OfferUnread \/ AcceptAgain \/ OpenFails \/ WriteFails \/ Mismatches \/ Breaks
  <2>1. \E s \in Lost, p \in Phases : Fails(s, sink, p)
    BY <1>0, <1>1, LossesOK
    DEF OfferUnread, AcceptAgain, OpenFails, WriteFails, Mismatches, Breaks, Lost
  <2>2. UNCHANGED <<browser, manifest, refused, left, copy, target, taken, downloads, strangers, meter>>
    BY <1>1 DEF OfferUnread, AcceptAgain, OpenFails, WriteFails, Mismatches, Breaks
  <2> QED BY <1>0, <1>r, <2>1, <2>2, FailTyped
<1>2. CASE Dismiss
  <2>1. UNCHANGED <<browser, manifest, refused, left, copy, target, taken, downloads, strangers, meter>>
    BY <1>2 DEF Dismiss
  <2>2. CASE dest = "perFile"
    BY <1>0, <1>2, <1>r, <2>1, <2>2, FailTyped DEF Dismiss
  <2>3. CASE dest # "perFile"
    BY <1>0, <1>2, <2>1, <2>3 DEF Dismiss, SaveOK, RowsTyped, RatesOK
  <2> QED BY <2>2, <2>3
<1>3. CASE OfferRead
  <2>1. PICK m \in Offers :
          /\ Parses(m) /\ manifest' = Read(m) /\ rows' = [k \in DOMAIN m.files |-> "queued"]
          /\ Emitted("offered", Read(m)) /\ UNCHANGED aborted
    BY <1>3 DEF OfferRead
  <2>2. rState' \in RStates /\ aborted' \in BOOLEAN
    BY <1>0, <1>r, <2>1, StateOf
  <2>3. downloads = {} /\ downloads' = downloads
    <3>1. manifest = <<>> /\ downloads' = downloads
      BY <1>3 DEF OfferRead, BatchInv, InBatch
    <3>2. Len(rows) = 0 /\ DOMAIN rows = 1 .. Len(rows) /\ downloads \subseteq DOMAIN rows
      BY <1>0, <3>1 DEF RowsTyped
    <3> QED BY <3>1, <3>2
  <2>4. RowsTyped'
    <3>1. DOMAIN m.files = DOMAIN manifest'
      BY <2>1 DEF Read
    <3>2. Len(manifest') \in Nat /\ DOMAIN manifest' = 1 .. Len(manifest')
      BY ManifestShape DEF BatchInv, ManifestOK, OfferedFiles
    <3> DEFINE n == Len(manifest')
    <3>3. rows' = [k \in 1 .. n |-> "queued"] /\ n \in Nat
      BY <2>1, <3>1, <3>2
    <3> HIDE DEF n
    <3>4. rows' \in Seq(RowStates) /\ Len(rows') = n
      BY <3>3 DEF RowStates
    <3> QED BY <2>3, <3>4 DEF RowsTyped, n
  <2>5. UNCHANGED <<browser, refused, left, phase, copy, target, sink, taken, disk, torn, strangers, meter>>
    BY <1>3 DEF OfferRead
  <2> QED BY <1>0, <2>2, <2>4, <2>5 DEF SaveOK, RatesOK
<1>4. CASE Accept \/ PickFolder \/ Matches
  <2>1. /\ phase' \in Phases /\ sink' \in SinkName
        /\ UNCHANGED <<browser, manifest, rState, aborted, refused, left, copy, target, taken, disk, rows,
                       downloads, torn, strangers, meter>>
    BY <1>0, <1>4 DEF Accept, PickFolder, Matches, Phases, SinkName
  <2> QED BY <1>0, <2>1 DEF SaveOK, RowsTyped, RatesOK
<1>5. CASE Decline \/ Verifies \/ Completes
  <2>1. /\ phase' \in Phases /\ refused' \in BOOLEAN /\ rState' \in RStates
        /\ UNCHANGED <<browser, manifest, aborted, left, copy, target, sink, taken, disk, rows,
                       downloads, torn, strangers, meter>>
    BY <1>0, <1>5, <1>r, StateOf DEF Decline, Verifies, Completes, Stopped, REmits
  <2> QED BY <1>0, <2>1 DEF SaveOK, RowsTyped, RatesOK
<1>6. CASE PickName
  <2>1. PICK n \in DiskName :
          /\ target' = n
          /\ disk' = IF disk[n] = Absent THEN [disk EXCEPT ![n].is = "empty"] ELSE disk
    BY <1>6 DEF PickName
  <2>2. disk' \in [DiskName -> Content]
    <3>1. disk[n] \in Content
      BY <1>0
    <3>2. [disk[n] EXCEPT !.is = "empty"] \in Content
      BY <3>1 DEF Content
    <3> QED BY <1>0, <2>1, <3>2
  <2>3. /\ phase' \in Phases
        /\ UNCHANGED <<browser, manifest, rState, aborted, refused, left, copy, sink, taken, rows,
                       downloads, torn, strangers, meter>>
    BY <1>6 DEF PickName, Phases
  <2> QED BY <1>0, <2>1, <2>2, <2>3 DEF SaveOK, RowsTyped, RatesOK
<1>7. CASE Look
  <2>1. UNCHANGED <<browser, manifest, rState, aborted, refused, left, sink, disk, rows,
                    downloads, torn, strangers, meter>>
    BY <1>7 DEF Look
  <2>2. CASE copy <= MaxCopies /\ InUse(Candidate(index, copy))
    <3>1. copy' = copy + 1 /\ UNCHANGED <<phase, target, taken>>
      BY <1>7, <2>2 DEF Look
    <3>2. copy' \in 1 .. MaxCopies + 1
      BY <1>0, <2>2, <3>1
    <3> QED BY <1>0, <2>1, <3>1, <3>2 DEF SaveOK, RowsTyped, RatesOK
  <2>3. CASE ~(copy <= MaxCopies /\ InUse(Candidate(index, copy)))
    <3>1. taken' = taken \cup {target'} /\ phase' = "creating" /\ UNCHANGED <<copy, dest>>
      BY <1>7, <2>3 DEF Look
    <3>2. target' \in DiskName
      <4>1. dest' = "directory"
        BY <1>7, <3>1 DEF BatchInv, Destined, Look
      <4> QED BY <3>1, <4>1 DEF BatchInv, TargetFresh, Opened
    <3> QED BY <1>0, <2>1, <3>1, <3>2 DEF SaveOK, RowsTyped, RatesOK, Phases
  <2> QED BY <2>2, <2>3
<1>8. CASE Create
  <2>1. /\ disk' = IF disk[target] = Absent THEN [disk EXCEPT ![target].is = "empty"] ELSE disk
        /\ phase' \in Phases
        /\ UNCHANGED <<browser, manifest, rState, aborted, refused, left, copy, target, sink, taken, rows,
                       downloads, torn, strangers, meter>>
    BY <1>8 DEF Create, Phases
  <2>2. disk' \in [DiskName -> Content]
    <3>1. CASE target \in DiskName
      <4>1. disk[target] \in Content
        BY <1>0, <3>1
      <4>2. [disk[target] EXCEPT !.is = "empty"] \in Content
        BY <4>1 DEF Content
      <4> QED BY <1>0, <2>1, <3>1, <4>2
    <3>2. CASE target \notin DiskName
      BY <1>0, <2>1, <3>2
    <3> QED BY <3>1, <3>2
  <2> QED BY <1>0, <2>1, <2>2 DEF SaveOK, RowsTyped, RatesOK
<1>9. CASE Opens
  <2>1. /\ phase' \in Phases /\ sink' \in SinkName
        /\ UNCHANGED <<browser, manifest, rState, aborted, refused, left, copy, target, taken, disk, rows,
                       downloads, torn, strangers, meter>>
    BY <1>0, <1>9 DEF Opens, Phases, SinkName
  <2> QED BY <1>0, <2>1 DEF SaveOK, RowsTyped, RatesOK
<1>10. CASE HasherReady
  <2>1. /\ rows' = [rows EXCEPT ![index] = "receiving"] /\ phase' \in Phases
        /\ UNCHANGED <<browser, manifest, aborted, refused, left, copy, target, sink, taken, disk,
                       downloads, torn, strangers>>
    BY <1>10 DEF HasherReady, Phases
  <2>2. rState' \in RStates
    BY <1>0, <1>10, <1>r, StateOf DEF HasherReady, REmits
  <2>3. RatesOK'
    <3>1. CASE index = 1
      <4>1. meter'.rates = <<>>
        BY <1>10, <3>1 DEF HasherReady, Started
      <4>2. meter'.rates \in Seq({}) /\ Len(meter'.rates) = 0
        BY <4>1
      <4> QED BY <4>2, MeterAssumption DEF RatesOK
    <3>2. CASE index # 1
      BY <1>0, <1>10, <3>2 DEF HasherReady, RatesOK
    <3> QED BY <3>1, <3>2
  <2>4. RowsTyped'
    <3>1. index \in DOMAIN rows
      <4>1. index \in 1 .. Len(manifest)
        BY <1>10, BatchShape DEF HasherReady
      <4> QED BY <1>0, <4>1 DEF RowsTyped
    <3> QED BY <1>0, <2>1, <3>1, RowTyped DEF RowStates
  <2> QED BY <1>0, <2>1, <2>2, <2>3, <2>4 DEF SaveOK
<1>11. CASE Piece
  <2>0. UNCHANGED <<browser, manifest, refused, left, copy, target, taken, downloads, strangers>>
    BY <1>11 DEF Piece
  <2>1. CASE (IF dest = "memory" THEN used + 1 ELSE used) > MemoryLimit
    BY <1>0, <1>11, <1>r, <2>0, <2>1, FailTyped DEF Piece
  <2>2. CASE ~((IF dest = "memory" THEN used + 1 ELSE used) > MemoryLimit)
    <3>1. /\ phase' \in Phases /\ UNCHANGED <<rState, aborted, sink, disk, torn, rows>>
          /\ \E b, t : meter' = Measured(meter, b, t)
      BY <1>11, <2>2 DEF Piece, Phases
    <3>2. RatesOK'
      BY <1>0, <3>1, MeasuredTyped
    <3> QED BY <1>0, <2>0, <3>1, <3>2 DEF SaveOK, RowsTyped
  <2> QED BY <2>1, <2>2
<1>12. CASE Closes
  <2>0. index \in 1 .. Len(manifest) /\ index \in 0 .. MaxFiles
    BY <1>12, BatchShape DEF Closes
  <2>1. /\ rows' = [rows EXCEPT ![index] = "verified"] /\ sink' = NextSink(index + 1)
        /\ phase' = Begins(index + 1) /\ copy' = 1
        /\ UNCHANGED <<browser, manifest, rState, aborted, refused, left, target, taken, torn, strangers, meter>>
        /\ downloads' \in {downloads, downloads \cup {index}}
    BY <1>12 DEF Closes
  <2>2. phase' \in Phases /\ sink' \in SinkName /\ copy' \in 1 .. MaxCopies + 1
    BY <1>0, <2>1 DEF NextSink, SinkName, Begins, Phases
  <2>3. disk' \in [DiskName -> Content]
    <3>1. CASE dest = "memory"
      BY <1>0, <1>12, <3>1 DEF Closes
    <3>2. CASE dest # "memory"
      <4> DEFINE saved == [disk EXCEPT ![target] = Ours(index)]
      <4>1. saved \in [DiskName -> Content]
        BY <1>0, <2>0, ContentTyped
      <4>2. disk' = saved \/ disk' \in Removed(saved, target)
        BY <1>12, <3>2 DEF Closes
      <4> HIDE DEF saved
      <4> QED BY <4>1, <4>2, RemovedTyped
    <3> QED BY <3>1, <3>2
  <2>4. RowsTyped'
    <3>1. /\ rows \in Seq(RowStates) /\ Len(rows) = Len(manifest) /\ DOMAIN rows = 1 .. Len(rows)
          /\ downloads \subseteq DOMAIN rows /\ "verified" \in RowStates
      BY <1>0 DEF RowsTyped, RowStates
    <3>2. rows' \in Seq(RowStates) /\ Len(rows') = Len(rows) /\ DOMAIN rows' = DOMAIN rows
      <4> HIDE DEF RowStates
      <4> QED BY <2>0, <2>1, <3>1
    <3> QED BY <2>0, <2>1, <3>1, <3>2 DEF RowsTyped
  <2> QED BY <1>0, <2>1, <2>2, <2>3, <2>4 DEF SaveOK, RatesOK
<1>13. CASE CloseFails
  <2>1. /\ phase' \in Phases /\ sink' \in SinkName
        /\ UNCHANGED <<browser, manifest, refused, left, copy, target, taken, downloads, torn, strangers,
                       meter>>
    BY <1>13 DEF CloseFails, Phases, SinkName
  <2>2. disk' \in [DiskName -> Content]
    BY <1>0, <1>13, RemovedTyped DEF CloseFails
  <2>3. rState' \in RStates /\ aborted' \in BOOLEAN /\ (rows' = rows \/ rows' = Crossed)
    BY <1>0, <1>13, <1>r, StateOf DEF CloseFails, REmits
  <2>4. RowsTyped'
    BY <1>0, <2>1, <2>3, CrossedTyped DEF RowsTyped
  <2> QED BY <1>0, <2>1, <2>2, <2>3, <2>4 DEF SaveOK, RatesOK
<1>14. CASE Leave
  <2>1. /\ left' = TRUE /\ torn' = Tearing /\ phase' = Stopped(phase) /\ sink' = NoName /\ AbortSink(sink)
        /\ UNCHANGED <<browser, manifest, rState, aborted, refused, copy, target, taken, rows, downloads,
                       strangers, meter>>
    BY <1>14 DEF Leave
  <2>2. torn' \in 0 .. MaxFiles
    BY <1>0, <2>1, BatchShape DEF Tearing
  <2>3. phase' \in Phases /\ sink' \in SinkName
    BY <1>0, <2>1 DEF Stopped, SinkName
  <2>4. disk' \in [DiskName -> Content]
    BY <1>0, <2>1, RemovedTyped DEF AbortSink
  <2> QED BY <1>0, <2>1, <2>2, <2>3, <2>4 DEF SaveOK, RowsTyped, RatesOK
<1>15. CASE Stranger
  <2>1. /\ strangers < MaxStrangers /\ strangers' = strangers + 1
        /\ \E n \in DiskName : disk' = [disk EXCEPT ![n] = Theirs]
        /\ UNCHANGED <<browser, manifest, rState, aborted, refused, left, phase, copy, target, sink, taken,
                       rows, downloads, torn, meter>>
    BY <1>15 DEF Stranger
  <2>2. disk' \in [DiskName -> Content] /\ strangers' \in 0 .. MaxStrangers
    BY <1>0, <2>1, ContentTyped
  <2> QED BY <1>0, <2>1, <2>2 DEF SaveOK, RowsTyped, RatesOK
<1>16. CASE TimePasses
  BY <1>0, <1>16 DEF TimePasses, SaveOK, RowsTyped, RatesOK
<1> QED BY <1>1, <1>2, <1>3, <1>4, <1>5, <1>6, <1>7, <1>8, <1>9, <1>10, <1>11, <1>12, <1>13,
           <1>14, <1>15, <1>16, OfferCases DEF SavingNext

LEMMA SaveStart == Init => SaveOK
<1> SUFFICES ASSUME NEW b \in Browsers, NEW before \in Present, SavingInit(b, before) PROVE SaveOK
  <2>1. (CHOOSE d \in Present : TRUE) \in Present /\ (CHOOSE b \in Browsers : TRUE) \in Browsers
    BY SavingAssumption
  <2> QED BY <2>1 DEF Init
<1>1. before \in [DiskName -> Content] /\ MaxCopies \in Nat /\ MaxStrangers \in Nat
  BY SavingAssumption
<1>2. RowsTyped
  BY DEF SavingInit, RowsTyped
<1>3. RatesOK
  <2>1. meter.rates \in Seq({}) /\ Len(meter.rates) = 0
    BY DEF SavingInit, Started
  <2> QED BY <2>1, MeterAssumption DEF RatesOK
<1>4. /\ browser = b /\ rState = "waiting" /\ aborted = FALSE /\ refused = FALSE /\ left = FALSE
      /\ phase = "idle" /\ copy = 1 /\ target = NoName /\ sink = NoName /\ taken = {} /\ disk = before
      /\ torn = 0 /\ strangers = 0
  BY DEF SavingInit
<1>5. rState \in RStates /\ phase \in Phases /\ sink \in SinkName
  BY <1>4 DEF RStates, Phases, SinkName
<1>6. copy \in 1 .. MaxCopies + 1 /\ torn \in 0 .. MaxFiles /\ strangers \in 0 .. MaxStrangers
  BY <1>1, <1>4, LimitsAssumption
<1> QED BY <1>1, <1>2, <1>3, <1>4, <1>5, <1>6 DEF SaveOK

TypeInv == BatchInv /\ CountInv /\ AwakeInv /\ LogInv /\ SaveOK

LEMMA TypeStep == TypeInv /\ [Next]_vars => TypeInv'
<1> SUFFICES ASSUME TypeInv, [Next]_vars PROVE TypeInv'
  OBVIOUS
<1>0. BatchInv /\ CountInv /\ AwakeInv /\ LogInv /\ SaveOK
  BY DEF TypeInv
<1>1. BatchInv' /\ CountInv' /\ AwakeInv' /\ LogInv'
  BY <1>0, BatchStep, CountStep, AwakeStep, LogStep
<1>2. SaveOK'
  <2>1. CASE SavingNext
    BY <1>0, <1>1, <2>1, SaveStep
  <2>2. CASE UNCHANGED savingVars
    BY <1>0, <2>2, StillTyped
  <2> QED BY <2>1, <2>2 DEF Next, vars
<1> QED BY <1>1, <1>2 DEF TypeInv

\* The variables of a tab keep their types, whatever is sent and offered: staged and
\* history lists keep their limits (page.tsx:65, history.ts:58), names on the disk are
\* those of the batch, and the meter keeps so many rates and no more (progress.ts).
THEOREM TabTyped == Spec => []TypeOK
<1>1. Init => TypeInv
  <2>1. Init => AwakeInv
    BY DEF Init, ShellInit, AwakeInv, GuardOK, AwakeWhileMoving, NoGuard, NoView, Moving
  <2> QED BY <2>1, BatchStart, CountStart, LogStart, SaveStart DEF TypeInv
<1>2. TypeInv => TypeOK
  <2> SUFFICES ASSUME TypeInv PROVE TypeOK
    OBVIOUS
  <2>1. ShellTypeOK
    BY DEF TypeInv, LogInv, TabOK, ViewOK, AwakeInv, GuardOK, ShellTypeOK, History
  <2>2. StagingTypeOK
    <3>1. engines \in Seq(Engine)
      BY DEF TypeInv, LogInv, PageOK
    <3>2. \A i \in DOMAIN engines : engines[i] \in Engine
      <4> HIDE DEF Engine
      <4> QED BY <3>1
    <3> QED BY <3>2 DEF TypeInv, LogInv, PageOK, StagedOK, StagingTypeOK, Engine
  <2>3. SavingTypeOK
    <3>1. index \in 1 .. MaxFiles + 1
      BY BatchShape, LimitsAssumption DEF TypeInv
    <3>2. manifest \in {Read(m) : m \in Offers} \cup {<<>>}
      BY DEF TypeInv, BatchInv, ManifestOK, OfferedFiles
    <3>3. dest \in {"none", "memory", "single", "directory", "perFile"}
      BY DEF TypeInv, BatchInv, Destined
    <3> QED BY <3>1, <3>2, <3>3
        DEF TypeInv, SaveOK, SavingTypeOK, RStates, Phases, SinkName, RowsTyped, RowStates, RatesOK
  <2> QED BY <2>1, <2>2, <2>3 DEF TypeOK, TypeInv, LogInv
<1> QED BY <1>1, <1>2, TypeStep, PTL DEF Spec
=============================================================================
