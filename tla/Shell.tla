-------------------------------- MODULE Shell --------------------------------
(***************************************************************************)
(* What the two pages share: the transfer on screen (view), the wake lock  *)
(* held while it moves (useTransferGuards.ts), the history entry written   *)
(* when it settles (history.ts) and the notification (notify.ts).          *)
(*                                                                         *)
(* A step of the tab includes the render its setState leads to, and the    *)
(* effects of that render.  The history is the cache of history.ts: what   *)
(* localStorage held when it was first read, and what was added since.     *)
(***************************************************************************)
EXTENDS Naturals, SequencesExt

CONSTANTS HistoryLimit,   \* LIMIT of history.ts
          Earlier         \* the lists localStorage may hold at first

Entry == [of : Nat, outcome : {"complete", "failed", "declined"}]
History(items) == items \in Seq(Entry) /\ Len(items) <= HistoryLimit

\* What was logged before is of none of the transfers of this tab, which are
\* numbered from 1.
ASSUME ShellAssumption ==
  /\ HistoryLimit \in Nat \ {0}
  /\ \A items \in Earlier : History(items) /\ \A k \in DOMAIN items : items[k].of = 0

VARIABLES view,         \* the snapshot on screen
          logged,       \* logged.current of the view
          hidden,       \* document.hidden
          guard,        \* the effect of useTransferGuards
          permission,   \* Notification.permission
          told,         \* transfers notified of
          history       \* what load() returns

shellVars == <<view, logged, hidden, guard, permission, told, history>>

\* listed: the snapshot lists the files of the transfer, as a receiver's does
\* once it has read the MANIFEST.
NoView == [of |-> 0, state |-> "none", paused |-> FALSE, listed |-> FALSE]

\* PHASE of both pages: what the picture of the connection shows.
Phase(state) ==
  CASE state \in {"waiting", "connecting", "offering", "offered"} -> "waiting"
    [] state \in {"transferring", "receiving", "verifying"} -> "live"
    [] state = "complete" -> "done"
    [] state \in {"senderGone", "expired", "failed"} -> "error"
    [] OTHER -> "idle"

Moving(v) == v.state \in {"transferring", "receiving", "verifying"}
Finished(v) == v.state \in {"complete", "failed", "declined", "senderGone"}
Loggable(v) == Finished(v) /\ v.listed
Outcome(v) == IF v.state \in {"complete", "declined"} THEN v.state ELSE "failed"

NoGuard == [on |-> FALSE, sentinel |-> "none", asked |-> FALSE, refused |-> FALSE]

ShellTypeOK ==
  /\ view.of \in Nat /\ view.paused \in BOOLEAN /\ view.listed \in BOOLEAN
  /\ logged \in BOOLEAN /\ hidden \in BOOLEAN
  /\ guard \in [on : BOOLEAN, sentinel : {"none", "live", "released"}, asked : BOOLEAN,
                refused : BOOLEAN]
  /\ permission \in {"default", "granted", "denied"}
  /\ told \subseteq Nat
  /\ History(history)

ShellInit ==
  /\ view = NoView /\ logged = FALSE /\ hidden = FALSE /\ guard = NoGuard
  /\ permission = "default" /\ told = {}
  /\ history \in Earlier

-----------------------------------------------------------------------------
(* useTransferGuards *)

\* acquire(): nothing is asked for while the page is hidden.
Acquire(g) == IF hidden THEN g ELSE [g EXCEPT !.asked = TRUE, !.refused = FALSE]

\* The effect runs, or is cleaned up, when its argument changes.  A request
\* that is pending then is answered to nobody: its lock is never released.
Guarded(g, active) ==
  IF active = g.on THEN g
  ELSE IF active THEN Acquire([g EXCEPT !.on = TRUE, !.sentinel = "none", !.refused = FALSE])
  ELSE [g EXCEPT !.on = FALSE, !.sentinel = "none", !.asked = FALSE]

LockGranted ==
  /\ guard.asked
  /\ guard' = [guard EXCEPT !.asked = FALSE, !.sentinel = "live"]
  /\ UNCHANGED <<view, logged, hidden, permission, told, history>>

LockRefused ==
  /\ guard.asked
  /\ guard' = [guard EXCEPT !.asked = FALSE, !.refused = TRUE]
  /\ UNCHANGED <<view, logged, hidden, permission, told, history>>

\* The browser releases every lock of a hidden page, and denies its requests.
Hide ==
  /\ ~hidden /\ hidden' = TRUE
  /\ guard' = [guard EXCEPT !.asked = FALSE,
                            !.sentinel = IF @ = "live" THEN "released" ELSE @]
  /\ UNCHANGED <<view, logged, permission, told, history>>

\* Mutant: a released sentinel still counts as held.
ReturnedHolding(g) ==
  IF g.on /\ g.sentinel = "none" THEN [g EXCEPT !.asked = TRUE, !.refused = FALSE] ELSE g

\* onVisibility, the page being shown again
Returned(g) ==
  IF g.on /\ g.sentinel # "live" THEN [g EXCEPT !.asked = TRUE, !.refused = FALSE] ELSE g

Show ==
  /\ hidden /\ hidden' = FALSE
  /\ guard' = Returned(guard)
  /\ UNCHANGED <<view, logged, permission, told, history>>

-----------------------------------------------------------------------------
(* history.ts *)

\* Mutant: the list grows without end.
LoggedUncut(e) == <<e>> \o history

\* record()
Logged(e) == LET items == <<e>> \o history IN SubSeq(items, 1, Min({HistoryLimit, Len(items)}))

-----------------------------------------------------------------------------
(* the view *)

\* Mutant: every snapshot of a settled transfer is logged.
DueAlways(v) == Loggable(v)

\* The effect that logs an outcome finds one to log.
Due(v) == Loggable(v) /\ ~logged

\* notify(): only to somebody who allowed it and does not look.
Notified(v, tells) ==
  IF v.state \in tells /\ permission = "granted" /\ hidden THEN told \cup {v.of} ELSE told

\* A snapshot v is set: the view renders, then its effects run.  The outcomes
\* in tells are worth a notification on this page.
Renders(v, active, tells) ==
  /\ view' = v
  /\ guard' = Guarded(guard, active)
  /\ logged' = (v # NoView /\ (logged \/ Loggable(v)))
  /\ IF Due(v)
     THEN /\ history' = Logged([of |-> v.of, outcome |-> Outcome(v)])
          /\ told' = Notified(v, tells)
     ELSE UNCHANGED <<history, told>>
  /\ UNCHANGED <<hidden, permission>>

Surroundings == LockGranted \/ LockRefused \/ Hide \/ Show
=============================================================================
