------------------------------ MODULE Receiver ------------------------------
(***************************************************************************)
(* FileReceiver of apps/web/src/lib/transfer/receiver.ts, from the moment  *)
(* the manifest is on screen.  As in Sender, an action is one task of the  *)
(* event loop.  Three asynchronous activities run interleaved:             *)
(*                                                                         *)
(*   accepting  accept(): "dest" await openDestination, "open" and "init"  *)
(*              the two awaits of openCurrent, then "yes"                  *)
(*   task       the write queue, consuming the chunk at the head of        *)
(*              writes: "write" await sink.write, "hash" await             *)
(*              hasher.update, "final" await hasher.final, "digest" await  *)
(*              digestFor, "close" await sink.close, "abort" await         *)
(*              sink.abort, "open" and "init" again for the next file      *)
(*   finishing  finish(): "tail" awaitTail, "writes" await this.writes     *)
(***************************************************************************)
EXTENDS Channels, Backlog, Cursor, SequencesExt

VARIABLES rState, aborted, verified,
          closed,                  \* cleanup() ran: this side closed the connection
          accepting, task, finishing,
          index, cursor, received,
          writes,                  \* chunks arrived and not yet consumed
          pieces,                  \* what is left of the chunk being consumed
          ahead,                   \* chunks finish() still waits for
          broken,                  \* the writes promise is rejected
          sink,                    \* file the open sink belongs to, 0 if null
          rHasher,                 \* this.hasher is set, its worker alive
          rHashed,                 \* what it has been fed
          digests,                 \* announced digests, <<>> where none is
          backlog, rStatus,
          disk, fate               \* contents and fate of each file saved

receiverVars == <<rState, aborted, verified, closed, accepting, task, finishing, index,
                  cursor, received, writes, pieces, ahead, broken, sink, rHasher, rHashed,
                  digests, backlog, rStatus, disk, fate>>

\* The bytes of the first n files, and of all of them.
FirstBytes[n \in 0 .. Len(Sizes)] == IF n = 0 THEN 0 ELSE FirstBytes[n - 1] + Sizes[n]
TotalBytes == FirstBytes[Len(Sizes)]

RDone == {"complete", "declined", "senderGone", "failed"}
RState == {"offered", "receiving", "verifying"} \cup RDone
Task == {"idle", "write", "hash", "final", "digest", "close", "abort", "open", "init"}
Piece == [index : Nat, offset : Nat, length : Nat, endsFile : BOOLEAN]

ReceiverTypeOK ==
  /\ rState \in RState
  /\ aborted \in BOOLEAN /\ verified \in BOOLEAN /\ closed \in BOOLEAN
  /\ accepting \in {"no", "dest", "open", "init", "yes"}
  /\ task \in Task
  /\ finishing \in {"no", "tail", "writes", "done"}
  /\ index \in 1 .. Len(Sizes) + 1
  /\ cursor \in [index : Nat, inFile : Nat, total : Nat]
  /\ received \in Nat
  /\ writes \in Seq(Chunk) /\ pieces \in Seq(Piece) /\ ahead \in Nat
  /\ broken \in BOOLEAN
  /\ sink \in {0} \cup File
  /\ rHasher \in BOOLEAN /\ rHashed \in Chunk
  /\ digests \in [File -> Chunk]
  /\ backlog \in Backlog
  /\ rStatus \in [File -> {"queued", "receiving", "verified", "failed"}]
  /\ disk \in [File -> Chunk]
  /\ fate \in [File -> {"none", "open", "saved", "discarded"}]

ReceiverInit ==
  /\ rState = "offered"
  /\ aborted = FALSE /\ verified = FALSE /\ closed = FALSE
  /\ accepting = "no" /\ task = "idle" /\ finishing = "no"
  /\ index = 1 /\ cursor = AtStart /\ received = 0
  /\ writes = <<>> /\ pieces = <<>> /\ ahead = 0 /\ broken = FALSE
  /\ sink = 0 /\ rHasher = FALSE /\ rHashed = <<>>
  /\ digests = [f \in File |-> <<>>]
  /\ backlog = EmptyBacklog
  /\ rStatus = [f \in File |-> "queued"]
  /\ disk = [f \in File |-> <<>>] /\ fate = [f \in File |-> "none"]

\* The write queue going on to its next chunk, and finish() going on once the
\* queue it waits for has settled, are microtasks: no other task of this page
\* runs between the step that settles the promise and them.
MustConsume == task = "idle" /\ writes # <<>> /\ ~broken
\* Mutants of MustFinish: the write queue is not waited for; its rejection is not caught.
MustFinishAtOnce == finishing = "writes"
MustFinishUncaught == finishing = "writes" /\ ahead = 0
MustFinish == finishing = "writes" /\ (ahead = 0 \/ broken)
AtRest == ~MustConsume /\ ~MustFinish

\* What no step of this module changes, and what only some of them do.
transport == <<toReceiver, dataBuf, bufferedAmount, dataNet, sOpen, linkUp>>
failing == <<rState, aborted, closed, rStatus, sink, fate, rHasher, rOpen>>
consuming == <<task, writes, pieces, backlog, ahead>>

-----------------------------------------------------------------------------
\* sink.abort() truncates and removes the file, whichever it was.
Discard(s, fates) == IF s = 0 THEN fates ELSE [fates EXCEPT ![s] = "discarded"]

\* fail(), called when the sink, the fates and the statuses are as given.
RFailFrom(state, s, fates, statuses) ==
  IF aborted \/ rState \in {"complete", "declined"}
  THEN /\ sink' = s /\ fate' = fates /\ rStatus' = statuses
       /\ UNCHANGED <<rState, aborted, closed, rHasher, rOpen>>
  ELSE /\ aborted' = TRUE /\ rState' = state
       /\ rStatus' = IF index \in File THEN [statuses EXCEPT ![index] = "failed"] ELSE statuses
       /\ sink' = 0 /\ fate' = Discard(s, fates)
       /\ closed' = TRUE /\ rHasher' = FALSE /\ rOpen' = FALSE

RFail(state) == RFailFrom(state, sink, fate, rStatus)

\* consume() returned: count the chunk as written, and let the sender go on if
\* that is due.  queue is toSender with what this step has already sent.
ChunkDone(queue) ==
  LET size == Len(Head(writes)) IN
  /\ task' = "idle" /\ writes' = Tail(writes) /\ pieces' = <<>>
  /\ backlog' = Written(backlog, size)
  /\ ahead' = IF finishing = "writes" /\ ahead > 0 THEN ahead - 1 ELSE ahead
  /\ toSender' = IF MayResume(backlog, size)
                 THEN SendControl(rOpen', queue, [type |-> "RESUME"]) ELSE queue

FailChunk == RFail("failed") /\ ChunkDone(toSender)

\* Go on with the pieces ps of the chunk.  The open sink must be the one of the
\* file the piece belongs to.
Advance(ps, statuses) ==
  IF ps = <<>>
  THEN /\ rStatus' = statuses
       /\ UNCHANGED <<rState, aborted, closed, sink, fate, rHasher, rOpen>>
       /\ ChunkDone(toSender)
  ELSE IF sink # 0 /\ rHasher /\ Head(ps).index = index
  THEN /\ task' = "write" /\ pieces' = ps /\ rStatus' = statuses
       /\ UNCHANGED <<rState, aborted, closed, sink, fate, rHasher, rOpen,
                      writes, backlog, ahead, toSender>>
  ELSE RFailFrom("failed", sink, fate, statuses) /\ ChunkDone(toSender)

PieceBytes == SubSeq(Head(writes), Head(pieces).offset + 1,
                     Head(pieces).offset + Head(pieces).length)

-----------------------------------------------------------------------------
(* onChunk and the write queue *)

ChunkArrives ==
  /\ rOpen /\ linkUp /\ dataNet # <<>>
  /\ dataNet' = Tail(dataNet)
  /\ writes' = Append(writes, Head(dataNet))
  /\ LET size == Len(Head(dataNet)) IN
       /\ backlog' = Arrived(backlog, size)
       /\ toSender' = IF MustPause(backlog, size) THEN Append(toSender, [type |-> "PAUSE"])
                      ELSE toSender
  /\ UNCHANGED <<rState, aborted, verified, closed, accepting, task, finishing, index, cursor,
                 received, pieces, ahead, broken, sink, rHasher, rHashed, digests, rStatus,
                 disk, fate, toReceiver, dataBuf, bufferedAmount, sOpen, rOpen, linkUp, spent>>

\* consume(): nothing is written after a failure or before there is a destination.
ConsumeStart ==
  /\ MustConsume
  /\ IF aborted \/ accepting \in {"no", "dest"}
     THEN UNCHANGED <<cursor, failing>> /\ ChunkDone(toSender)
     ELSE LET split == Split(Sizes, cursor, Len(Head(writes))) IN
          /\ cursor' = split.cur
          /\ IF split.overflow > 0 THEN FailChunk ELSE Advance(split.pieces, rStatus)
  /\ UNCHANGED <<verified, accepting, finishing, index, received, broken, rHashed, digests,
                 disk, transport, spent>>

PieceWritten ==
  /\ task = "write"
  /\ disk' = [disk EXCEPT ![index] = @ \o PieceBytes]
  /\ IF rHasher
     THEN /\ task' = "hash"
          /\ UNCHANGED <<failing, writes, pieces, backlog, ahead, toSender>>
     ELSE FailChunk
  /\ UNCHANGED <<verified, accepting, finishing, index, cursor, received, broken, rHashed,
                 digests, transport, spent>>

\* sink.write or hasher.update rejects.
PieceFails ==
  /\ \/ task = "write" /\ Happens("write")
     \/ task = "hash" /\ rHasher /\ Happens("hash")
  /\ FailChunk
  /\ UNCHANGED <<verified, accepting, finishing, index, cursor, received, broken, rHashed,
                 digests, disk, transport>>

PieceHashed ==
  /\ task = "hash" /\ rHasher
  /\ rHashed' = rHashed \o PieceBytes
  /\ received' = received + Head(pieces).length
  /\ IF Head(pieces).endsFile
     THEN /\ task' = "final"
          /\ UNCHANGED <<failing, writes, pieces, backlog, ahead, toSender>>
     ELSE Advance(Tail(pieces), rStatus)
  /\ UNCHANGED <<verified, accepting, finishing, index, cursor, broken, digests, disk,
                 transport, spent>>

-----------------------------------------------------------------------------
(* closeCurrent and openCurrent *)

\* Mutant: the digest is not compared.
VerdictUnchecked(sha) == "close"

\* What closeCurrent does once it knows the announced digest.
Verdict(sha) == IF rHashed = sha THEN "close" ELSE "abort"

DigestComputed ==
  /\ task = "final" /\ rHasher
  /\ rHasher' = FALSE
  /\ task' = IF digests[index] = <<>> THEN "digest" ELSE Verdict(digests[index])
  /\ UNCHANGED <<rState, aborted, verified, closed, accepting, finishing, index, cursor,
                 received, writes, pieces, ahead, broken, sink, rHashed, digests, backlog,
                 rStatus, disk, fate, toSender, rOpen, transport, spent>>

\* hasher.final rejects, outside any try: the whole write queue rejects with it.
DigestFails ==
  /\ task = "final" /\ rHasher /\ Happens("digest")
  /\ broken' = TRUE /\ task' = "idle"
  /\ UNCHANGED <<rState, aborted, verified, closed, accepting, finishing, index, cursor,
                 received, writes, pieces, ahead, sink, rHasher, rHashed, digests, backlog,
                 rStatus, disk, fate, toSender, rOpen, transport>>

\* The file does not match: it is discarded and the batch fails.
Mismatch ==
  /\ task = "abort"
  /\ RFailFrom("failed", 0, Discard(index, fate), rStatus)
  /\ ChunkDone(toSender)
  /\ UNCHANGED <<verified, accepting, finishing, index, cursor, received, broken, rHashed,
                 digests, disk, transport, spent>>

\* sink.close resolves.  When abort() ran meanwhile, a file in a directory the
\* receiver holds is removed all the same, any other file keeps its contents.
FileCloses ==
  /\ task = "close"
  /\ \E out \in {"saved"} \cup ({fate[index]} \cap {"discarded"}) :
        fate' = [fate EXCEPT ![index] = out]
  /\ sink' = 0
  /\ rStatus' = [rStatus EXCEPT ![index] = "verified"]
  /\ index' = index + 1
  /\ UNCHANGED <<rState, aborted, verified, closed, accepting, finishing, cursor, received,
                 broken, rHasher, rHashed, digests, disk, rOpen, transport, spent>>
  /\ LET queue == SendControl(rOpen, toSender, [type |-> "FILE_VERIFIED", file |-> index]) IN
     IF index < Len(Sizes)
     THEN /\ task' = "open" /\ toSender' = queue
          /\ UNCHANGED <<writes, pieces, backlog, ahead>>
     ELSE ChunkDone(queue)

\* sink.close rejects: the disk refused, or the stream was aborted under it.
CloseFails ==
  /\ task = "close"
  /\ \/ Happens("close")
     \/ fate[index] = "discarded" /\ UNCHANGED spent
  /\ RFailFrom("failed", 0, fate, rStatus)
  /\ ChunkDone(toSender)
  /\ UNCHANGED <<verified, accepting, finishing, index, cursor, received, broken, rHashed,
                 digests, disk, transport>>

\* Mutant: the next file is hashed by the hasher of the last.
OpenCurrentSameHasher ==
  /\ sink' = index /\ rHasher' = TRUE /\ UNCHANGED rHashed
  /\ fate' = [fate EXCEPT ![index] = "open"]

\* openCurrent: the file exists and its hasher is starting.
OpenCurrent ==
  /\ sink' = index /\ rHasher' = TRUE /\ rHashed' = <<>>
  /\ fate' = [fate EXCEPT ![index] = "open"]

NextFileOpens ==
  /\ task = "open"
  /\ OpenCurrent
  /\ task' = "init"
  /\ UNCHANGED <<rState, aborted, verified, closed, accepting, finishing, index, cursor,
                 received, writes, pieces, ahead, broken, digests, backlog, rStatus, disk,
                 toSender, rOpen, transport, spent>>

NextFileFails ==
  /\ \/ task = "open" /\ Happens("open")
     \/ task = "init" /\ rHasher /\ Happens("hash")
  /\ FailChunk
  /\ UNCHANGED <<verified, accepting, finishing, index, cursor, received, broken, rHashed,
                 digests, disk, transport>>

NextFileReady ==
  /\ task = "init" /\ rHasher
  /\ Advance(Tail(pieces), [rStatus EXCEPT ![index] = "receiving"])
  /\ UNCHANGED <<verified, accepting, finishing, index, cursor, received, broken, rHashed,
                 digests, disk, transport, spent>>

-----------------------------------------------------------------------------
(* accept, decline, cancel *)

queueing == <<verified, finishing, task, writes, pieces, ahead, broken, digests, backlog, disk>>

\* No call of accept() is under way; a click while one is, which the code does
\* not turn down, is AcceptAgain or AcceptRefused of Overlap.
Accept ==
  /\ rState = "offered" /\ accepting = "no"
  /\ accepting' = "dest"
  /\ UNCHANGED <<failing, queueing, index, cursor, received, rHashed, toSender, transport, spent>>

\* The save dialog was dismissed: the offer is still on screen.
DialogDismissed ==
  /\ accepting = "dest" /\ Happens("dialog")
  /\ accepting' = "no"
  /\ UNCHANGED <<failing, queueing, index, cursor, received, rHashed, toSender, transport>>

DestinationOpens ==
  /\ accepting = "dest"
  /\ accepting' = "open" /\ received' = 0 /\ index' = 1 /\ cursor' = AtStart
  /\ UNCHANGED <<failing, queueing, rHashed, toSender, transport, spent>>

AcceptFails ==
  /\ \/ accepting \in {"dest", "open"} /\ Happens("open")
     \/ accepting = "init" /\ rHasher /\ Happens("hash")
  /\ accepting' = "no"
  /\ RFail("failed")
  /\ UNCHANGED <<queueing, index, cursor, received, rHashed, toSender, transport>>

FirstFileOpens ==
  /\ accepting = "open"
  /\ OpenCurrent
  /\ accepting' = "init"
  /\ UNCHANGED <<rState, aborted, closed, rStatus, rOpen, queueing, index, cursor, received,
                 toSender, transport, spent>>

Accepted ==
  /\ accepting = "init" /\ rHasher
  /\ accepting' = "yes"
  /\ rStatus' = [rStatus EXCEPT ![index] = "receiving"]
  /\ rState' = "receiving"
  /\ toSender' = SendControl(rOpen, toSender, [type |-> "MANIFEST_ACCEPT"])
  /\ UNCHANGED <<aborted, closed, sink, fate, rHasher, rOpen, queueing, index, cursor,
                 received, rHashed, transport, spent>>

Decline ==
  /\ rState = "offered" /\ Happens("decline")
  /\ toSender' = SendControl(rOpen, toSender, [type |-> "MANIFEST_REJECT"])
  /\ rState' = "declined"
  /\ closed' = TRUE /\ rHasher' = FALSE /\ rOpen' = FALSE
  /\ UNCHANGED <<aborted, rStatus, sink, fate, accepting, queueing, index, cursor, received,
                 rHashed, transport>>

\* cancel(): the page goes away; unlike fail() it does not set aborted.
RCancel ==
  /\ Happens("receiverCancel")
  /\ sink' = 0 /\ fate' = Discard(sink, fate)
  /\ closed' = TRUE /\ rHasher' = FALSE /\ rOpen' = FALSE
  /\ UNCHANGED <<rState, aborted, rStatus, accepting, queueing, index, cursor, received,
                 rHashed, toSender, transport>>

-----------------------------------------------------------------------------
(* onControl and finish *)

RReceive(type) ==
  /\ rOpen /\ linkUp /\ toReceiver # <<>> /\ Head(toReceiver).type = type
  /\ toReceiver' = Tail(toReceiver)
  /\ UNCHANGED <<dataBuf, bufferedAmount, dataNet, sOpen, linkUp, spent, verified, accepting,
                 index, cursor, received, writes, pieces, ahead, broken, rHashed, backlog, disk>>

\* onControl has no case for TRANSFER_START.
OnTransferStart ==
  /\ RReceive("TRANSFER_START")
  /\ UNCHANGED <<failing, task, finishing, digests, toSender>>

\* The digest is parked; closeCurrent may be waiting for it.
OnFileDone ==
  /\ RReceive("FILE_DONE")
  /\ LET msg == Head(toReceiver) IN
       /\ digests' = [digests EXCEPT ![msg.file] = msg.sha]
       /\ task' = IF task = "digest" /\ msg.file = index /\ msg.sha # <<>>
                  THEN Verdict(msg.sha) ELSE task
  /\ UNCHANGED <<failing, finishing, toSender>>

OnTransferComplete ==
  /\ RReceive("TRANSFER_COMPLETE")
  /\ IF aborted \/ verified \/ finishing # "no" THEN UNCHANGED <<rState, finishing>>
     ELSE rState' = "verifying" /\ finishing' = "tail"
  /\ UNCHANGED <<aborted, closed, rStatus, sink, fate, rHasher, rOpen, task, digests, toSender>>

ROnTransferFailed ==
  /\ RReceive("TRANSFER_FAILED")
  /\ RFail("failed")
  /\ UNCHANGED <<task, finishing, digests, toSender>>

\* awaitTail returns: every declared byte is written, the batch failed, or
\* nothing was written for ten seconds, which is certain once nothing more can
\* be.  The queue to wait for is the one of now.
NothingMore == broken \/ ~linkUp \/ ~rOpen

TailArrives ==
  /\ finishing = "tail"
  /\ IF aborted \/ received >= TotalBytes \/ NothingMore THEN UNCHANGED spent
     ELSE Happens("silence")
  /\ finishing' = "writes" /\ ahead' = Len(writes)
  /\ UNCHANGED <<failing, verified, accepting, task, index, cursor, received, writes, pieces,
                 broken, rHashed, digests, backlog, disk, toSender, transport>>

\* Mutant: finish() does not look at aborted again after its awaits.
FinishUnchecked ==
  /\ MustFinish /\ received = TotalBytes
  /\ finishing' = "done"
  /\ verified' = TRUE /\ rState' = "complete"
  /\ toSender' = SendControl(rOpen, toSender, [type |-> "TRANSFER_VERIFIED"])
  /\ closed' = TRUE /\ rHasher' = FALSE /\ rOpen' = FALSE
  /\ UNCHANGED <<aborted, rStatus, sink, fate, accepting, task, index, cursor, received, writes,
                 pieces, ahead, broken, rHashed, digests, backlog, disk, transport, spent>>

Finish ==
  /\ MustFinish
  /\ finishing' = "done"
  /\ IF aborted THEN UNCHANGED <<failing, verified, toSender>>
     ELSE IF received # TotalBytes
     THEN /\ toSender' = SendControl(rOpen, toSender, [type |-> "TRANSFER_FAILED"])
          /\ RFail("failed") /\ UNCHANGED verified
     ELSE /\ verified' = TRUE /\ rState' = "complete"
          /\ toSender' = SendControl(rOpen, toSender, [type |-> "TRANSFER_VERIFIED"])
          /\ closed' = TRUE /\ rHasher' = FALSE /\ rOpen' = FALSE
          /\ UNCHANGED <<aborted, rStatus, sink, fate>>
  /\ UNCHANGED <<accepting, task, index, cursor, received, writes, pieces, ahead, broken,
                 rHashed, digests, backlog, disk, transport, spent>>

-----------------------------------------------------------------------------
(* losing the sender *)

losing == <<verified, accepting, task, finishing, index, cursor, received, writes, pieces,
            ahead, broken, rHashed, digests, backlog, disk>>

RChannelsClose ==
  /\ rOpen /\ ReceiverAlone
  /\ IF rState = "receiving" THEN RFail("senderGone")
     ELSE /\ rOpen' = FALSE
          /\ UNCHANGED <<rState, aborted, closed, rStatus, sink, fate, rHasher>>
  /\ UNCHANGED <<losing, toSender, transport, spent>>

RConnectionFails ==
  /\ ReceiverAlone /\ ~closed
  /\ RFail("failed")
  /\ UNCHANGED <<losing, toSender, transport, spent>>

ReceiverQueue == \/ PieceWritten \/ PieceHashed \/ DigestComputed \/ Mismatch
                 \/ FileCloses \/ NextFileOpens \/ NextFileReady
ReceiverControl == OnTransferStart \/ OnFileDone \/ OnTransferComplete \/ ROnTransferFailed
ReceiverAccepts == Accept \/ DestinationOpens \/ FirstFileOpens \/ Accepted
ReceiverLoss == RChannelsClose \/ RConnectionFails
ReceiverFaults == \/ PieceFails \/ DigestFails \/ CloseFails \/ NextFileFails \/ AcceptFails
                  \/ DialogDismissed \/ Decline \/ RCancel

\* Microtasks run before any other task of the page.
ReceiverMicrotask == ConsumeStart \/ Finish
ReceiverTask == /\ AtRest
                /\ \/ ChunkArrives \/ TailArrives \/ ReceiverQueue \/ ReceiverControl
                   \/ ReceiverAccepts \/ ReceiverLoss \/ ReceiverFaults

ReceiverNext == ReceiverMicrotask \/ ReceiverTask
=============================================================================
