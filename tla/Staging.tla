------------------------------- MODULE Staging -------------------------------
(***************************************************************************)
(* The send page (app/page.tsx): a batch is staged, committed, and its     *)
(* snapshots are shown until the page is reset.                            *)
(*                                                                         *)
(* A FileSender is what its snapshots show of it: engines[i] is the i-th   *)
(* one, ref the one senderRef refers to.  Negotiation and Sender say when  *)
(* its state changes; here it may change in every order they allow.        *)
(***************************************************************************)
EXTENDS Shell, Manifest

CONSTANTS Files,          \* what the user has to send
          MaxDepth,       \* MAX_DEPTH of dropped.ts
          MaxTransfers    \* bound: transfers started on the page

ASSUME StagingAssumption ==
  /\ IsFiniteSet(Files) /\ MaxTransfers \in Nat
  /\ \A f \in Files : f.size \in Nat /\ f.name \in Seq(STRING) /\ f.path \in Seq(Seq(STRING))

VARIABLES staged,    \* the batch being assembled, a sequence of Files
          walking,   \* the files of a drop whose folders are being read
          engines, ref

stagingVars == <<staged, walking, engines, ref>>

SenderState == {"creating", "waiting", "connecting", "offering", "transferring", "verifying",
                "complete", "declined", "failed"}

StagingTypeOK ==
  /\ staged \in Seq(Files) /\ Len(staged) <= MaxFiles
  /\ walking \subseteq Files
  /\ \A i \in DOMAIN engines :
       engines[i] \in [state : SenderState, paused : BOOLEAN, batch : Seq(Files),
                       cancelled : {"no", "early", "late"}]
  /\ ref \in 0 .. Len(engines)

StagingInit == staged = <<>> /\ walking = {} /\ engines = <<>> /\ ref = 0

-----------------------------------------------------------------------------
(* choosing *)

\* add(): what is there already is not added again, and the rest is cut off.
Added(prev, incoming) ==
  LET all == prev \o Without(incoming, ToSet(prev))
  IN SubSeq(all, 1, Min({MaxFiles, Len(all)}))

\* filesFromDataTransfer: unreadable entries and what lies too deep are left out.
Walked(files) == SetToSeq({f \in files : f.readable /\ Len(f.path) <= MaxDepth})

\* Files from an input, or pasted.
Pick ==
  /\ view = NoView
  /\ \E fs \in SUBSET Files \ {{}} : staged' = Added(staged, SetToSeq(fs))
  /\ UNCHANGED <<walking, engines, ref, shellVars>>

\* onDrop, listened for while nothing is on screen.  Bound: of one entry,
\* before the first transfer; its folders are read before the second starts.
Drop ==
  /\ view = NoView /\ walking = {} /\ engines = <<>>
  /\ \E f \in Files : walking' = {f}
  /\ UNCHANGED <<staged, engines, ref, shellVars>>

\* The folders have been read, whatever is on screen by now.
WalkEnds ==
  /\ walking # {}
  /\ walking' = {} /\ staged' = Added(staged, Walked(walking))
  /\ UNCHANGED <<engines, ref, shellVars>>

Unstage ==
  /\ view = NoView
  /\ \E f \in ToSet(staged) : staged' = Without(staged, {f})
  /\ UNCHANGED <<walking, engines, ref, shellVars>>

ClearStaged ==
  /\ view = NoView /\ staged # <<>> /\ staged' = <<>>
  /\ UNCHANGED <<walking, engines, ref, shellVars>>

\* The Clear of the history, which is on screen when no transfer is.
ClearHistory ==
  /\ view = NoView /\ history # <<>> /\ history' = <<>>
  /\ UNCHANGED <<view, logged, hidden, guard, permission, told, stagingVars>>

-----------------------------------------------------------------------------
(* sending *)

Shown(i, e) == [of |-> i, state |-> e.state, paused |-> e.paused, listed |-> TRUE]

\* setSnap with a snapshot of engine i, which is e from now on.
Emits(i, e) ==
  /\ engines' = [engines EXCEPT ![i] = e]
  /\ Renders(Shown(i, e), Moving(e) /\ ~e.paused, {"complete", "failed"})

\* The button that commits, disabled over the limit.
MaySend(files) == files # <<>> /\ TotalOf(files) <= MaxBytes

\* begin(): the FileSender starts, or fails at once.
Send ==
  /\ view = NoView /\ MaySend(staged)
  /\ Len(engines) < MaxTransfers /\ (engines = <<>> \/ walking = {})
  /\ LET e == [state |-> IF Startable(staged) THEN "creating" ELSE "failed",
               paused |-> FALSE, batch |-> staged, cancelled |-> "no"]
     IN /\ engines' = Append(engines, e)
        /\ ref' = Len(engines')
        /\ Renders(Shown(ref', e), FALSE, {"complete", "failed"})
  /\ UNCHANGED <<staged, walking>>

\* How the state of an engine goes on.
Follows(s) ==
  CASE s = "creating" -> {"waiting", "failed"}
    [] s = "waiting" -> {"connecting", "failed"}
    [] s = "connecting" -> {"offering", "failed"}
    [] s = "offering" -> {"transferring", "declined", "failed"}
    [] s = "transferring" -> {"verifying", "failed"}
    [] s = "verifying" -> {"complete", "failed"}
    [] OTHER -> {}

\* An engine emits, and its snapshot is set, whatever was on screen.
Reports(i) ==
  /\ engines[i].cancelled # "late"
  /\ \E s \in Follows(engines[i].state) \cup {engines[i].state} :
       Emits(i, [engines[i] EXCEPT !.state = s])
  /\ UNCHANGED <<staged, walking, ref>>

\* Pause and Resume, of the engine senderRef refers to.
PauseOrResume ==
  /\ Moving(view) /\ ref # 0 /\ Moving(engines[ref])
  /\ Emits(ref, [engines[ref] EXCEPT !.paused = ~@])
  /\ UNCHANGED <<staged, walking, ref>>

\* cancel(), which ends an engine, unless it is creating its session
\* (sender.ts:221): that one goes on.  What it was to send is forgotten here.
Cancelled(e) ==
  IF e.state = "creating" THEN [e EXCEPT !.batch = <<>>, !.cancelled = "early"]
  ELSE [state |-> "failed", paused |-> FALSE, batch |-> <<>>, cancelled |-> "late"]

\* reset(): the transfer is cancelled, and the page starts over.
Reset ==
  /\ view # NoView
  /\ engines' = IF ref = 0 THEN engines
                ELSE [engines EXCEPT ![ref] = Cancelled(@)]
  /\ ref' = 0 /\ staged' = <<>>
  /\ Renders(NoView, FALSE, {})
  /\ UNCHANGED walking

\* NotifyOffer is shown: a transfer moves, and nobody has been asked.
NotifyOffered == Moving(view) /\ permission = "default"

\* askToNotify(): the browser asks, and is answered.
AskToNotify ==
  /\ NotifyOffered
  /\ permission' \in {"granted", "denied"}
  /\ UNCHANGED <<view, logged, hidden, guard, told, history, stagingVars>>

StagingNext ==
  \/ Pick \/ Drop \/ WalkEnds \/ Unstage \/ ClearStaged \/ ClearHistory
  \/ Send \/ PauseOrResume \/ Reset \/ AskToNotify
  \/ \E i \in DOMAIN engines : Reports(i)
=============================================================================
