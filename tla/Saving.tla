------------------------------- MODULE Saving -------------------------------
(***************************************************************************)
(* The receive page (app/t/[session]/page.tsx) from the manifest on, and   *)
(* where its engine puts the files (sink.ts).  Receiver says how chunks    *)
(* reach a sink; here a file arrives in pieces of one byte, each written,  *)
(* hashed and measured in one step.                                        *)
(*                                                                         *)
(* phase is what the engine awaits: "picking" a dialog, "looking"          *)
(* getFileHandle in uniqueName, "creating" getFileHandle with create,      *)
(* "opening" createWritable, "hasher" hasher.init, "ready" a piece,        *)
(* "checking" the digests, "closing" sink.close, "idle" nothing.           *)
(*                                                                         *)
(* The disk is the browser's: a writable stream writes to a copy, which    *)
(* replaces the file when it is closed.                                    *)
(***************************************************************************)
EXTENDS Shell, Manifest, Meter

CONSTANTS Browsers,      \* the pickers a browser has: records [save, folder]
          Offers,        \* the MANIFEST messages that may arrive
          DiskName,      \* names on disk: records [path, name, copy]
          Present,       \* what may be on disk before: functions on DiskName
          MaxCopies,     \* the names uniqueName tries, 999 in the code
          MaxStrangers,  \* bound: files another program creates meanwhile
          Pace           \* how much time may pass at once

VARIABLES browser,
          manifest,    \* the files offered, <<>> before
          rState, aborted,
          refused,     \* MANIFEST_DECLINE was sent: the sender sends nothing
          left,        \* the page was left: cancel()
          phase, index,
          copy,        \* i of uniqueName
          target,      \* the name being opened
          dest,        \* kind of this.destination
          sink,        \* the name this.sink writes to, NoName if null
          taken, disk,
          written,     \* bytes of the file at index
          used,        \* budget.used
          rows,        \* how each file stands, as its row shows it
          downloads,
          torn,        \* ghost: the file being closed when the batch failed
          chosen,      \* ghost: names the user picked in a save dialog
          raced,       \* ghost: names another program took after they were found free
          strangers,
          clock,       \* performance.now()
          meter,
          readings     \* ghost: everything the meter was told

savingVars == <<browser, manifest, rState, aborted, refused, left, phase, index, copy, target, dest, sink,
                taken, disk, written, used, rows, downloads, torn, chosen, raced, strangers,
                clock, meter, readings>>

NoName == [path |-> <<>>, name |-> <<>>, copy |-> 0]
InMemory == [NoName EXCEPT !.copy = 1]

Content == [is : {"absent", "theirs", "folder", "empty", "ours"}, file : 0 .. MaxFiles]
Absent == [is |-> "absent", file |-> 0]
Theirs == [is |-> "theirs", file |-> 0]
Ours(k) == [is |-> "ours", file |-> k]

\* No name is empty; a size is a decimal string (parseByteCount), never less than
\* zero; a disk has every name a file may be given; none of the names of last
\* resort, which have the time in them, is in use before; and there is a browser.
ASSUME SavingAssumption ==
  /\ MaxCopies \in Nat /\ MaxStrangers \in Nat /\ Pace \subseteq Nat /\ Browsers # {}
  /\ \A n \in DiskName : n.name # <<>> /\ n.copy \in Nat
  /\ \A m \in Offers :
       /\ DOMAIN m.files = 1 .. Len(m.files)
       /\ \A k \in DOMAIN m.files : m.files[k].size \in Nat
       /\ Parses(m) => \A k \in DOMAIN Read(m), i \in 1 .. MaxCopies + MaxFiles :
            [path |-> Read(m)[k].path, name |-> Read(m)[k].name, copy |-> i] \in DiskName
  /\ Present # {}
  /\ \A d \in Present : /\ d \in [DiskName -> Content]
                         /\ \A n \in DiskName : /\ d[n].is # "ours"
                                                /\ n.copy > MaxCopies => d[n] # Theirs

\* StateDot: the mark of a row.
Mark(row) ==
  CASE row = "verified" -> "tick" [] row = "failed" -> "cross"
    [] row = "receiving" -> "pulse" [] OTHER -> "dot"

\* The files shown as verified.
Ticked == {k \in DOMAIN rows : Mark(rows[k]) = "tick"}

\* The i-th name uniqueName tries for file k.
Candidate(k, i) == [path |-> manifest[k].path, name |-> manifest[k].name, copy |-> i]

SavingTypeOK ==
  /\ browser \in Browsers /\ manifest \in {Read(m) : m \in Offers} \cup {<<>>}
  /\ rState \in {"waiting", "offered", "receiving", "verifying", "complete", "declined",
                 "senderGone", "failed", "expired"}
  /\ aborted \in BOOLEAN /\ refused \in BOOLEAN /\ left \in BOOLEAN
  /\ phase \in {"idle", "picking", "looking", "creating", "opening", "hasher", "ready",
                "checking", "closing"}
  /\ index \in 1 .. MaxFiles + 1 /\ copy \in 1 .. MaxCopies + 1
  /\ dest \in {"none", "memory", "single", "directory", "perFile"}
  /\ target \in DiskName \cup {NoName} /\ sink \in DiskName \cup {NoName, InMemory}
  /\ taken \subseteq DiskName /\ disk \in [DiskName -> Content]
  /\ rows \in Seq({"queued", "receiving", "verified", "failed"}) /\ Len(rows) = Len(manifest)
  /\ downloads \subseteq DOMAIN rows
  /\ torn \in 0 .. MaxFiles /\ strangers \in 0 .. MaxStrangers
  /\ Len(meter.rates) <= RatesKept

SavingInit(b, before) ==
  /\ browser = b /\ disk = before
  /\ manifest = <<>> /\ rState = "waiting" /\ aborted = FALSE /\ refused = FALSE /\ left = FALSE
  /\ phase = "idle" /\ index = 1 /\ copy = 1 /\ target = NoName
  /\ dest = "none" /\ sink = NoName /\ taken = {}
  /\ written = 0 /\ used = 0 /\ rows = <<>> /\ downloads = {}
  /\ torn = 0 /\ chosen = {} /\ raced = {} /\ strangers = 0 /\ clock = 0
  /\ meter = Started(0) /\ readings = meter.samples

\* What only some steps change.
fileVars == <<index, copy, target, dest, taken, written, used, downloads>>
placeVars == <<browser, manifest, refused, left, chosen, raced, strangers>>
meterVars == <<clock, meter, readings>>

-----------------------------------------------------------------------------
(* the engine's snapshots, fail() and abort() *)

RMoving(s) == s \in {"receiving", "verifying"}

\* emit(state) of an engine whose manifest lists these files; nobody renders it
\* once the page was left.
Emitted(s, files) ==
  /\ rState' = s
  /\ IF left THEN UNCHANGED shellVars
     ELSE Renders([of |-> 1, state |-> s, paused |-> FALSE, listed |-> files # <<>>],
                  RMoving(s), {"complete"})

REmits(s) == Emitted(s, manifest)

\* A file in a folder is removed, unless that is refused.
Removed(d, n) == IF n \in DiskName /\ dest = "directory" THEN {[d EXCEPT ![n] = Absent], d} ELSE {d}

\* DiskSink.abort(): a file outside a folder keeps what it was.  The abort of
\* a stream that is closing takes effect when the close is done.
AbortSink(s) == IF phase = "closing" THEN UNCHANGED disk ELSE disk' \in Removed(disk, s)

\* cleanup() destroys the hasher, and what awaits it is never resumed.
Stopped(p) == IF p \in {"hasher", "checking"} THEN "idle" ELSE p

Tearing == IF phase = "closing" THEN index ELSE torn

\* fail() does nothing any more.
Immune == aborted \/ rState \in {"complete", "declined"}

\* The file at index is marked failed.
Crossed == IF index \in DOMAIN rows THEN [rows EXCEPT ![index] = "failed"] ELSE rows

\* fail(), with the engine going on to phase p and s for this.sink.
Fails(state, s, p) ==
  IF Immune
  THEN /\ phase' = p /\ sink' = s /\ UNCHANGED <<rState, aborted, disk, torn, rows, shellVars>>
  ELSE /\ aborted' = TRUE /\ torn' = Tearing /\ phase' = Stopped(p)
       /\ rows' = Crossed
       /\ AbortSink(s) /\ sink' = NoName
       /\ REmits(state)

-----------------------------------------------------------------------------
(* the offer *)

\* MANIFEST: one that does not parse fails the transfer.
Offered ==
  /\ rState = "waiting" /\ ~left
  /\ \E m \in Offers :
       IF Parses(m)
       THEN /\ manifest' = Read(m) /\ rows' = [k \in DOMAIN m.files |-> "queued"]
            /\ Emitted("offered", Read(m)) /\ UNCHANGED <<aborted, phase, sink, disk, torn>>
       ELSE Fails("failed", sink, phase) /\ UNCHANGED manifest
  /\ UNCHANGED <<fileVars, browser, refused, left, chosen, raced, strangers, meterVars>>

\* The buttons of an offer this browser can take.
Acceptable == rState = "offered" /\ ~left /\ Capability(browser, manifest) # "unsupported"

\* accept() and openDestination, up to the first await, while no other accept()
\* is under way.
Accept ==
  /\ Acceptable /\ phase = "idle"
  /\ IF Capability(browser, manifest) = "memory"
     THEN dest' = "memory" /\ sink' = InMemory /\ phase' = "hasher"
     ELSE /\ dest' = IF Len(manifest) > 1 /\ ~browser.folder THEN "perFile" ELSE "none"
          /\ phase' = "picking" /\ UNCHANGED sink
  /\ UNCHANGED <<rState, aborted, disk, torn, rows, shellVars, index, copy, target, taken, written,
                 used, downloads, placeVars, meterVars>>

\* Another click, and its dialog: refused, as it is while one is open, it fails
\* the batch; dismissed, it changes nothing, but for a single file of many.
\* Bound: a second accept() that gets as far as to open a file, and one into
\* memory, which asks nothing, is followed in Overlap and not on this disk.
AcceptAgain ==
  /\ Acceptable /\ phase # "idle" /\ Capability(browser, manifest) # "memory"
  /\ Fails("failed", sink, phase)
  /\ UNCHANGED <<fileVars, placeVars, meterVars>>

Decline ==
  /\ Acceptable
  /\ refused' = TRUE /\ phase' = Stopped(phase) /\ REmits("declined")
  /\ UNCHANGED <<aborted, sink, disk, torn, rows, fileVars, browser, manifest, left, chosen, raced,
                 strangers, meterVars>>

\* A dismissed dialog leaves the offer; one for a single file of many fails.
Dismiss ==
  /\ phase = "picking"
  /\ IF dest = "perFile" THEN Fails("failed", sink, "idle")
     ELSE phase' = "idle" /\ UNCHANGED <<rState, aborted, sink, disk, torn, rows, shellVars>>
  /\ UNCHANGED <<fileVars, placeVars, meterVars>>

\* showSaveFilePicker: a new name, or a file the user agrees to replace.
PickName ==
  /\ phase = "picking" /\ (Len(manifest) = 1 \/ dest = "perFile")
  /\ \E n \in DiskName :
       /\ disk[n] \in {Absent, Theirs}
       /\ target' = n /\ chosen' = chosen \cup {n}
       /\ disk' = IF disk[n] = Absent THEN [disk EXCEPT ![n].is = "empty"] ELSE disk
  /\ dest' = IF dest = "none" THEN "single" ELSE dest
  /\ phase' = "opening"
  /\ UNCHANGED <<rState, aborted, sink, torn, rows, shellVars, index, copy, taken, written, used,
                 downloads, browser, manifest, refused, left, raced, strangers,
                 meterVars>>

\* showDirectoryPicker
PickFolder ==
  /\ phase = "picking" /\ Len(manifest) > 1 /\ browser.folder
  /\ dest' = "directory" /\ phase' = "looking"
  /\ UNCHANGED <<rState, aborted, sink, disk, torn, rows, shellVars, index, copy, target, taken,
                 written, used, downloads, placeVars, meterVars>>

-----------------------------------------------------------------------------
(* DirectoryDestination.open *)

\* Mutant: only the names given out in this batch are avoided.
UsedInBatch(n) == n \in taken

\* A name is not free: given out before, or getFileHandle finds a file.  Any
\* error of it, a folder of that name too, counts as free.
InUse(n) == n \in taken \/ disk[n].is \in {"theirs", "empty", "ours"}

\* uniqueName: one name is looked at, or the last resort is taken, a name with
\* the time in it.
Look ==
  /\ phase = "looking"
  /\ IF copy <= MaxCopies /\ InUse(Candidate(index, copy))
     THEN copy' = copy + 1 /\ UNCHANGED <<phase, target, taken>>
     ELSE LET n == Candidate(index, IF copy <= MaxCopies THEN copy ELSE MaxCopies + index) IN
          /\ target' = n /\ taken' = taken \cup {n}
          /\ phase' = "creating" /\ UNCHANGED copy
  /\ UNCHANGED <<rState, aborted, sink, disk, torn, rows, shellVars, index, dest, written, used,
                 downloads, placeVars, meterVars>>

Create ==
  /\ phase = "creating" /\ disk[target].is # "folder"
  /\ disk' = IF disk[target] = Absent THEN [disk EXCEPT ![target].is = "empty"] ELSE disk
  /\ phase' = "opening"
  /\ UNCHANGED <<rState, aborted, sink, torn, rows, shellVars, fileVars, placeVars, meterVars>>

\* createWritable
Opens ==
  /\ phase = "opening"
  /\ sink' = target /\ phase' = "hasher"
  /\ UNCHANGED <<rState, aborted, disk, torn, rows, shellVars, fileVars, placeVars, meterVars>>

\* Any of these is refused, as is a file where a folder has its name.
OpenFails ==
  /\ phase \in {"looking", "creating", "opening", "hasher"}
  /\ Fails("failed", sink, "idle")
  /\ UNCHANGED <<fileVars, placeVars, meterVars>>

\* The first file is open: accept() goes on, whatever happened meanwhile.
HasherReady ==
  /\ phase = "hasher" /\ phase' = "ready"
  /\ rows' = [rows EXCEPT ![index] = "receiving"]
  /\ IF index = 1 THEN REmits("receiving") /\ meter' = Started(clock) /\ readings' = meter'.samples /\ UNCHANGED clock
     ELSE UNCHANGED <<rState, shellVars, meterVars>>
  /\ UNCHANGED <<aborted, sink, disk, torn, fileVars, placeVars>>

-----------------------------------------------------------------------------
(* a file, and the next *)

Receiving == phase = "ready" /\ RMoving(rState) /\ ~aborted /\ ~refused /\ ~left

\* The next byte: sink.write, hasher.update, meter.set.
Piece ==
  /\ Receiving /\ written < manifest[index].size
  /\ LET budget == IF dest = "memory" THEN used + 1 ELSE used
         received == meter.transferred + 1
     IN /\ used' = budget
        /\ IF budget > MemoryLimit
           THEN Fails("failed", sink, "idle") /\ UNCHANGED <<written, meterVars>>
           ELSE /\ written' = written + 1
                /\ phase' = IF written' = manifest[index].size THEN "checking" ELSE "ready"
                /\ meter' = Measured(meter, received, clock)
                /\ readings' = Append(readings, [at |-> clock, bytes |-> received])
                /\ UNCHANGED <<rState, aborted, sink, disk, torn, rows, shellVars, clock>>
  /\ UNCHANGED <<index, copy, target, dest, taken, downloads, placeVars>>

WriteFails ==
  /\ Receiving
  /\ Fails("failed", sink, "idle")
  /\ UNCHANGED <<fileVars, placeVars, meterVars>>

\* closeCurrent: the digests are compared, and the sink is closed or aborted.
Matches ==
  /\ phase = "checking" /\ phase' = "closing"
  /\ UNCHANGED <<rState, aborted, sink, disk, torn, rows, shellVars, fileVars, placeVars, meterVars>>

Mismatches ==
  /\ phase = "checking"
  /\ Fails("failed", sink, "idle")
  /\ UNCHANGED <<fileVars, placeVars, meterVars>>

\* Where openCurrent of file k begins, by destination.
Begins(k) ==
  IF k > Len(manifest) THEN "idle"
  ELSE CASE dest = "memory" -> "hasher" [] dest = "directory" -> "looking" [] OTHER -> "picking"

\* Mutant: the closed sink is not forgotten.
SinkKept(k) == IF dest = "memory" /\ k <= Len(manifest) THEN InMemory ELSE sink

\* this.sink after the close, and after the next MemoryDestination.open.
NextSink(k) == IF dest = "memory" /\ k <= Len(manifest) THEN InMemory ELSE NoName

\* sink.close resolves: the file is verified, and the next one is opened.  One
\* that was aborted meanwhile is removed all the same.
Closes ==
  /\ phase = "closing"
  /\ IF dest = "memory" THEN downloads' = downloads \cup {index} /\ UNCHANGED disk
     ELSE LET saved == [disk EXCEPT ![target] = Ours(index)] IN
          /\ UNCHANGED downloads
          /\ disk' \in IF torn = index THEN Removed(saved, target) ELSE {saved}
  /\ rows' = [rows EXCEPT ![index] = "verified"]
  /\ sink' = NextSink(index + 1) /\ phase' = Begins(index + 1)
  /\ index' = index + 1 /\ copy' = 1 /\ written' = 0
  /\ UNCHANGED <<rState, aborted, torn, shellVars, target, dest, taken, used, placeVars, meterVars>>

\* sink.close rejects: this.sink is forgotten, not aborted, and fail() is called.
CloseFails ==
  /\ phase = "closing" /\ phase' = "idle" /\ sink' = NoName
  /\ IF torn = index THEN disk' \in Removed(disk, target) ELSE UNCHANGED disk
  /\ IF Immune THEN UNCHANGED <<rState, aborted, rows, shellVars>>
     ELSE aborted' = TRUE /\ rows' = Crossed /\ REmits("failed")
  /\ UNCHANGED <<torn, fileVars, placeVars, meterVars>>

\* finish(): the sender has sent all of it, which may be ahead of the last pieces.
Verifies ==
  /\ rState = "receiving" /\ ~aborted /\ ~refused /\ ~left
  /\ REmits("verifying")
  /\ UNCHANGED <<aborted, phase, sink, disk, torn, rows, fileVars, placeVars, meterVars>>

\* The batch is whole.
Completes ==
  /\ rState = "verifying" /\ ~aborted /\ ~left /\ index > Len(manifest)
  /\ REmits("complete")
  /\ UNCHANGED <<aborted, phase, sink, disk, torn, rows, fileVars, placeVars, meterVars>>

-----------------------------------------------------------------------------
(* what goes wrong around it *)

\* What the loss of the connection, of the sender or of the session may end in:
\* start(), peer-left, onconnectionstatechange, the data channel's onclose.
Losses(s) ==
  {"failed"} \cup (IF s \in {"waiting", "offered", "receiving"} THEN {"senderGone"} ELSE {})
             \cup (IF s = "waiting" THEN {"expired"} ELSE {})

\* One of them is lost, before the offer or after.
Breaks ==
  /\ ~aborted /\ ~left
  /\ \E s \in Losses(rState) : Fails(s, sink, phase)
  /\ UNCHANGED <<fileVars, placeVars, meterVars>>

\* Time passes while the batch moves, whether or not anything arrives.
\* Bound: once between two readings.
TimePasses ==
  /\ RMoving(rState) /\ clock = readings[Len(readings)].at
  /\ \E time \in Pace : clock' = clock + time
  /\ UNCHANGED <<rState, aborted, phase, sink, disk, torn, rows, shellVars, fileVars, placeVars,
                 meter, readings>>

\* The page is left: cancel(), which does not set aborted.
Leave ==
  /\ ~left /\ left' = TRUE
  /\ torn' = Tearing /\ phase' = Stopped(phase)
  /\ AbortSink(sink) /\ sink' = NoName
  /\ Renders(NoView, FALSE, {})
  /\ UNCHANGED <<rState, aborted, rows, fileVars, browser, manifest, refused, chosen, raced,
                 strangers, meterVars>>

\* Another program creates a file.
Stranger ==
  /\ strangers < MaxStrangers /\ strangers' = strangers + 1
  /\ \E n \in DiskName :
       /\ disk[n] = Absent /\ n.copy <= MaxCopies
       /\ disk' = [disk EXCEPT ![n] = Theirs]
       /\ raced' = IF phase = "creating" /\ n = target THEN raced \cup {n} ELSE raced
  /\ UNCHANGED <<rState, aborted, phase, sink, torn, rows, shellVars, fileVars, browser, manifest, refused,
                 left, chosen, meterVars>>

SavingNext ==
  \/ Offered \/ Accept \/ AcceptAgain \/ Decline \/ Dismiss \/ PickName \/ PickFolder
  \/ Look \/ Create \/ Opens \/ OpenFails \/ HasherReady
  \/ Piece \/ WriteFails \/ Matches \/ Mismatches \/ Closes \/ CloseFails
  \/ Verifies \/ Completes \/ Breaks \/ TimePasses \/ Leave \/ Stranger
=============================================================================
