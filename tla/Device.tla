-------------------------------- MODULE Device --------------------------------
(***************************************************************************)
(* One browser tab, at the send page or at a link somebody sent, with what *)
(* surrounds it: the screen, the history, the disk.                        *)
(***************************************************************************)
EXTENDS Staging, Saving

VARIABLE page

vars == <<page, shellVars, stagingVars, savingVars>>

\* What the other page would meet is of no interest to the send page.
Init ==
  /\ ShellInit /\ StagingInit
  /\ \/ page = "send" /\ SavingInit(CHOOSE b \in Browsers : TRUE, CHOOSE d \in Present : TRUE)
     \/ page = "receive" /\ \E b \in Browsers, d \in Present : SavingInit(b, d)

Next ==
  \/ page = "send" /\ StagingNext /\ UNCHANGED <<page, savingVars>>
  \/ page = "receive" /\ SavingNext /\ UNCHANGED <<page, stagingVars>>
  \/ Surroundings /\ UNCHANGED <<page, stagingVars, savingVars>>

Spec == Init /\ [][Next]_vars

-----------------------------------------------------------------------------
\* The variables keep their types; staged and history lists keep their limits.
TypeOK == ShellTypeOK /\ StagingTypeOK /\ SavingTypeOK /\ page \in {"send", "receive"}

\* While a transfer moves on a page that is shown, the screen is held awake,
\* or is being asked for, or was refused (useTransferGuards.ts:47): coming
\* back to the page takes the lock again, and a pause lets it go.
AwakeWhileMoving ==
  /\ guard.on <=> Moving(view) /\ ~view.paused
  /\ guard.on /\ ~hidden /\ ~guard.asked /\ ~guard.refused => guard.sentinel = "live"

\* page.tsx:453 and t/[session]/page.tsx:124: one history entry per transfer.
\* Whatever the picture of the connection (PHASE) shows as done or in error, and
\* a decline, heads the history of this tab with the outcome it shows, or with
\* the user having declined, and there is no second entry of it.  Two
\* exceptions: what ends before an offer was read is in no entry at all, against
\* t/[session]/page.tsx:120; and a transfer cancelled while its session was
\* being created comes back on screen and may be logged for the next one.
OutcomeLogged ==
  LET mine == {i \in DOMAIN history : history[i].of = view.of}
      shows == CASE Phase(view.state) = "done" -> {"complete"}
                 [] Phase(view.state) = "error" -> {"failed", "declined"}
                 [] OTHER -> {"declined"}
  IN (Phase(view.state) \in {"done", "error"} \/ view.state = "declined")
     /\ (\A i \in DOMAIN engines : engines[i].cancelled # "early")
     => IF view.listed THEN mine = {1} /\ history[1].outcome \in shows ELSE mine = {}

\* The receiver can read the offer of every batch the send page let through
\* (protocol.ts:133), but for a batch with an empty file in it: start() only
\* refuses a batch that is empty altogether (sender.ts:207).  It reads the
\* names and paths the sender describes (protocol.ts:205), but for one that is
\* still not settled when it has been cleaned once.
OfferParses ==
  \A i \in DOMAIN engines :
    LET batch == engines[i].batch sent == ToMessage(Described(batch)) IN
    /\ engines[i].cancelled = "no"
    /\ engines[i].state \in {"offering", "transferring", "verifying", "complete", "declined"}
    => /\ Parses(sent) \/ \E k \in DOMAIN batch : batch[k].size = 0
       /\ \A k \in DOMAIN batch :
            \/ Read(sent)[k] = sent.files[k]
            \/ ~Settled(sent.files[k].name)
            \/ \E j \in DOMAIN sent.files[k].path : ~Settled(sent.files[k].path[j])

\* sink.ts:312: nobody's file is silently replaced.  The exceptions: a file
\* the user chose in a save dialog, and one that appeared between uniqueName's
\* look and the creation.
TheirsKept ==
  [][\A n \in DiskName : disk[n] = Theirs /\ disk'[n] # Theirs => n \in chosen \cup raced]_vars

\* A file whose row is ticked is on the disk as it was sent, or was handed to
\* the browser's downloads, whatever fails later in the batch, the one that was
\* being closed when it failed excepted; and a batch shown as complete is
\* ticked to its last file.
BatchOnDisk ==
  /\ \A k \in Ticked \ {torn} :
       k \in downloads \/ \E n \in DiskName : disk[n] = Ours(k)
  /\ rState = "complete" => Ticked = DOMAIN manifest

\* A batch the page offered to accept into memory fits there to its last byte:
\* assessCapability (sink.ts:90) and the budget of MemorySink count alike.
HonestBatchFits == dest = "memory" => used <= MemoryLimit

\* progress.ts:88: what the readout says.  The bytes are those of the files
\* before this one and of the pieces written of it; nothing remains of a
\* complete batch, and no time either.  The rate spans the window that trails
\* the last reading, from the latest one older than it, or from the start;
\* however long ago that reading is: only set() moves the window, so that a
\* stall keeps the rate it began with, which progress.ts:28-31 says it does not.
ReadoutIsTrue ==
  LET latest == readings[Len(readings)].at
      from == Max({1} \cup {i \in DOMAIN readings : latest - readings[i].at > Window})
      shown == Snapshot(meter, TotalOf(manifest))
  IN /\ shown.transferred = TotalOf(SubSeq(manifest, 1, index - 1)) + written
     /\ shown.rate = RateOf(SubSeq(readings, from, Len(readings)))
     /\ rState = "complete" => shown.remaining = 0 /\ shown.eta = "none"
=============================================================================
