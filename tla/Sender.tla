------------------------------- MODULE Sender -------------------------------
(***************************************************************************)
(* FileSender of apps/web/src/lib/transfer/sender.ts, from the moment the  *)
(* manifest has been sent.  An action is one task of the page's event      *)
(* loop: a control message, a click, a closed channel, or the settling of  *)
(* one promise together with what sendBatch does until its next await.     *)
(*                                                                         *)
(* loop says which promise sendBatch is waiting for:                       *)
(*   "idle"  not started               "hash"   await hasher.update        *)
(*   "init"  await hasher.init         "final"  await hasher.final         *)
(*   "hold"  await waitForResume       "flush"  await flush                *)
(*   "drain" await drain               "done"   sendBatch returned         *)
(*   "read"  await slice.arrayBuffer                                       *)
(***************************************************************************)
EXTENDS Channels

CONSTANTS ChunkSize,           \* negotiatedChunkSize
          BufferHigh, BufferLow \* BUFFER_HIGH, BUFFER_LOW

ASSUME SenderAssumption == /\ ChunkSize \in Nat \ {0}
                           /\ BufferHigh \in Nat /\ BufferLow \in 0 .. BufferHigh

VARIABLES sState, loop,
          current,    \* 0 where the code has -1: no file is being sent
          offset,     \* bytes of the current file sent and hashed
          end,        \* where the chunk being read or hashed ends
          hashed,     \* what the current file's hasher has been fed
          sHasher,    \* a hashing worker is alive
          remotePaused, userPaused, cancelled,
          sStatus

senderVars == <<sState, loop, current, offset, end, hashed, sHasher,
                remotePaused, userPaused, cancelled, sStatus>>

SDone == {"complete", "declined", "failed"}
SState == {"offering", "transferring", "verifying"} \cup SDone
Loop == {"idle", "init", "hold", "drain", "read", "hash", "final", "flush", "done"}

SenderTypeOK ==
  /\ sState \in SState /\ loop \in Loop
  /\ current \in {0} \cup File
  /\ offset \in Nat /\ end \in Nat
  /\ hashed \in Chunk
  /\ sHasher \in BOOLEAN
  /\ remotePaused \in BOOLEAN /\ userPaused \in BOOLEAN /\ cancelled \in BOOLEAN
  /\ sStatus \in [File -> {"queued", "sending", "sent", "verified", "failed"}]

SenderInit ==
  /\ sState = "offering" /\ loop = "idle"
  /\ current = 0 /\ offset = 0 /\ end = 0 /\ hashed = <<>>
  /\ sHasher = FALSE
  /\ remotePaused = FALSE /\ userPaused = FALSE /\ cancelled = FALSE
  /\ sStatus = [f \in File |-> "queued"]

-----------------------------------------------------------------------------
\* Mutants: a finished transfer can still fail; one that is verifying cannot.
SFailAgain ==
  /\ sState' = "failed" /\ sOpen' = FALSE /\ sHasher' = FALSE
  /\ UNCHANGED sStatus
SFailUnlessVerifying ==
  IF sState \in SDone \cup {"verifying"} THEN UNCHANGED <<sState, sStatus, sOpen, sHasher>>
  ELSE SFailAgain

\* fail(): the first failure wins and a finished transfer is immune; cleanup()
\* closes the channels and terminates the worker.
SFail ==
  IF sState \in SDone THEN UNCHANGED <<sState, sStatus, sOpen, sHasher>>
  ELSE /\ sState' = "failed"
       /\ sStatus' = IF current = 0 THEN sStatus ELSE [sStatus EXCEPT ![current] = "failed"]
       /\ sOpen' = FALSE /\ sHasher' = FALSE

\* What sendBatch does with an exception: sendOne's finally destroys the
\* hasher, the catch block reports the failure and fails the transfer.
Throw ==
  /\ loop' = "done"
  /\ toReceiver' = SendControl(sOpen, toReceiver, [type |-> "TRANSFER_FAILED"])
  /\ sHasher' = FALSE
  /\ IF sState \in SDone THEN UNCHANGED <<sState, sStatus, sOpen>> ELSE SFail

\* The head of sendOne's while loop on file f, with the checks in the code's order.
LoopHead(f, off, held, buffered) ==
  IF off >= Sizes[f] THEN "final"
  ELSE IF cancelled \/ ~sOpen THEN "throw"
  ELSE IF held THEN "hold"
  ELSE IF buffered > BufferHigh THEN "drain"
  ELSE "read"

ChunkEnd(f, off) == IF off + ChunkSize < Sizes[f] THEN off + ChunkSize ELSE Sizes[f]

\* Run the loop until its next await.
Continue(off, held, buffered) ==
  LET stop == LoopHead(current, off, held, buffered) IN
  /\ end' = IF stop = "read" THEN ChunkEnd(current, off) ELSE end
  /\ IF stop = "throw" THEN Throw
     ELSE loop' = stop /\ UNCHANGED <<toReceiver, sState, sStatus, sOpen, sHasher>>

\* Start sendOne on file f: a fresh hasher, awaiting its init.
OpenFile(f) ==
  /\ current' = f /\ offset' = 0 /\ hashed' = <<>>
  /\ sHasher' = TRUE /\ loop' = "init"

-----------------------------------------------------------------------------
(* sendBatch and sendOne *)

HasherReady ==
  /\ loop = "init" /\ sHasher
  /\ Continue(offset, remotePaused \/ userPaused, bufferedAmount)
  /\ UNCHANGED <<current, offset, hashed, remotePaused, userPaused, cancelled, toSender,
                 dataBuf, bufferedAmount, dataNet, rOpen, linkUp, spent>>

\* The slice is in memory: send it, then hand it to the hashing worker.
\* data.send throws on a channel that closed during the read.
ChunkRead ==
  /\ loop = "read"
  /\ IF sOpen
     THEN /\ dataBuf' = Append(dataBuf, SubSeq(Content(current), offset + 1, end))
          /\ bufferedAmount' = bufferedAmount + (end - offset)
          /\ loop' = "hash"
          /\ UNCHANGED <<toReceiver, sState, sStatus, sOpen, sHasher>>
     ELSE Throw /\ UNCHANGED <<dataBuf, bufferedAmount>>
  /\ UNCHANGED <<current, offset, end, hashed, remotePaused, userPaused, cancelled,
                 toSender, dataNet, rOpen, linkUp, spent>>

\* The file changed or went away under the read, or the worker reported an error.
ReadFails ==
  /\ \/ loop = "read" /\ Happens("read")
     \/ loop \in {"init", "hash", "final"} /\ sHasher /\ Happens("hash")
  /\ Throw
  /\ UNCHANGED <<current, offset, end, hashed, remotePaused, userPaused, cancelled,
                 toSender, dataBuf, bufferedAmount, dataNet, rOpen, linkUp>>

ChunkHashed ==
  /\ loop = "hash" /\ sHasher
  /\ hashed' = hashed \o SubSeq(Content(current), offset + 1, end)
  /\ offset' = end
  /\ Continue(end, remotePaused \/ userPaused, bufferedAmount)
  /\ UNCHANGED <<current, remotePaused, userPaused, cancelled, toSender,
                 dataBuf, bufferedAmount, dataNet, rOpen, linkUp, spent>>

\* The digest is known: announce it, then start the next file or flush.
DigestReady ==
  /\ loop = "final" /\ sHasher
  /\ toReceiver' = SendControl(sOpen, toReceiver,
                     [type |-> "FILE_DONE", file |-> current, sha |-> hashed])
  /\ IF current < Len(Sizes) /\ ~cancelled
     THEN /\ OpenFile(current + 1)
          /\ sStatus' = [sStatus EXCEPT ![current] = "sent", ![current + 1] = "sending"]
          /\ UNCHANGED sState
     ELSE /\ sStatus' = [sStatus EXCEPT ![current] = "sent"]
          /\ sHasher' = FALSE
          /\ UNCHANGED <<offset, hashed>>
          /\ IF cancelled THEN loop' = "done" /\ UNCHANGED <<current, sState>>
             ELSE loop' = "flush" /\ current' = 0 /\ sState' = "verifying"
  /\ UNCHANGED <<end, remotePaused, userPaused, cancelled, toSender,
                 dataBuf, bufferedAmount, dataNet, sOpen, rOpen, linkUp, spent>>

\* Mutant: the sender calls the transfer complete once its buffer is empty.
FlushedIsComplete ==
  /\ loop = "flush" /\ bufferedAmount = 0
  /\ toReceiver' = SendControl(sOpen, toReceiver, [type |-> "TRANSFER_COMPLETE"])
  /\ loop' = "done" /\ sState' = "complete"
  /\ UNCHANGED <<current, offset, end, hashed, sHasher, remotePaused, userPaused,
                 cancelled, sStatus, toSender, dataBuf, bufferedAmount, dataNet,
                 sOpen, rOpen, linkUp, spent>>

\* flush(): the buffer is empty, so TRANSFER_COMPLETE may be announced.
Flushed ==
  /\ loop = "flush" /\ bufferedAmount = 0
  /\ toReceiver' = SendControl(sOpen, toReceiver, [type |-> "TRANSFER_COMPLETE"])
  /\ loop' = "done"
  /\ UNCHANGED <<sState, current, offset, end, hashed, sHasher, remotePaused, userPaused,
                 cancelled, sStatus, toSender, dataBuf, bufferedAmount, dataNet,
                 sOpen, rOpen, linkUp, spent>>

FlushBroken ==
  /\ loop = "flush" /\ bufferedAmount # 0 /\ ~sOpen
  /\ Throw
  /\ UNCHANGED <<current, offset, end, hashed, remotePaused, userPaused, cancelled,
                 toSender, dataBuf, bufferedAmount, dataNet, rOpen, linkUp, spent>>

\* bufferedamountlow fires for the listener drain() left.
Drained ==
  /\ loop = "drain" /\ bufferedAmount <= BufferLow
  /\ Continue(offset, remotePaused \/ userPaused, bufferedAmount)
  /\ UNCHANGED <<current, offset, hashed, remotePaused, userPaused, cancelled, toSender,
                 dataBuf, bufferedAmount, dataNet, rOpen, linkUp, spent>>

\* wake(): only when neither side holds the transfer.
Wake(remote, user) ==
  IF loop = "hold" /\ ~remote /\ ~user
  THEN Continue(offset, FALSE, bufferedAmount)
  ELSE UNCHANGED <<loop, end, toReceiver, sState, sStatus, sOpen, sHasher>>

-----------------------------------------------------------------------------
(* onControl: one message from the receiver *)

SReceive(type) ==
  /\ sOpen /\ linkUp /\ toSender # <<>> /\ Head(toSender).type = type
  /\ toSender' = Tail(toSender)
  /\ UNCHANGED <<dataBuf, bufferedAmount, dataNet, rOpen, linkUp, spent>>

\* sendBatch starts.  onControl would start it a second time on a second
\* MANIFEST_ACCEPT, while the loop runs or after it: OnAcceptAgain of Overlap.
OnAccept ==
  /\ SReceive("MANIFEST_ACCEPT")
  /\ loop = "idle"
  /\ OpenFile(1)
  /\ sState' = "transferring"
  /\ sStatus' = [sStatus EXCEPT ![1] = "sending"]
  /\ toReceiver' = SendControl(sOpen, toReceiver, [type |-> "TRANSFER_START"])
  /\ UNCHANGED <<end, remotePaused, userPaused, cancelled, sOpen>>

OnPause ==
  /\ SReceive("PAUSE")
  /\ remotePaused' = TRUE
  /\ UNCHANGED <<sState, loop, current, offset, end, hashed, sHasher, userPaused,
                 cancelled, sStatus, toReceiver, sOpen>>

OnResume ==
  /\ SReceive("RESUME")
  /\ remotePaused' = FALSE
  /\ UNCHANGED <<current, offset, hashed, userPaused, cancelled>>
  /\ Wake(FALSE, userPaused)

OnFileVerified ==
  /\ SReceive("FILE_VERIFIED")
  /\ sStatus' = [sStatus EXCEPT ![Head(toSender).file] = "verified"]
  /\ UNCHANGED <<sState, loop, current, offset, end, hashed, sHasher, remotePaused,
                 userPaused, cancelled, toReceiver, sOpen>>

OnTransferVerified ==
  /\ SReceive("TRANSFER_VERIFIED")
  /\ sState' = "complete"
  /\ UNCHANGED <<loop, current, offset, end, hashed, sHasher, remotePaused,
                 userPaused, cancelled, sStatus, toReceiver, sOpen>>

OnReject ==
  /\ SReceive("MANIFEST_REJECT")
  /\ sState' = "declined"
  /\ sOpen' = FALSE /\ sHasher' = FALSE
  /\ UNCHANGED <<loop, current, offset, end, hashed, remotePaused, userPaused,
                 cancelled, sStatus, toReceiver>>

SOnTransferFailed ==
  /\ SReceive("TRANSFER_FAILED")
  /\ SFail
  /\ UNCHANGED <<loop, current, offset, end, hashed, remotePaused, userPaused,
                 cancelled, toReceiver>>

-----------------------------------------------------------------------------
(* the user, and losing the other side *)

\* The Pause button is shown while the transfer is moving.
Pause ==
  /\ sState \in {"transferring", "verifying"} /\ ~userPaused /\ Happens("userPause")
  /\ userPaused' = TRUE
  /\ UNCHANGED <<sState, loop, current, offset, end, hashed, sHasher, remotePaused,
                 cancelled, sStatus, toReceiver, toSender, dataBuf, bufferedAmount,
                 dataNet, sOpen, rOpen, linkUp>>

Resume ==
  /\ sState \in {"transferring", "verifying"} /\ userPaused
  /\ userPaused' = FALSE
  /\ UNCHANGED <<current, offset, hashed, remotePaused, cancelled, toSender, dataBuf,
                 bufferedAmount, dataNet, rOpen, linkUp, spent>>
  /\ Wake(remotePaused, FALSE)

\* cancel() wakes the loop before cleanup() closes the channels under it; the
\* loop runs after both and throws, which fails the transfer.
Cancel ==
  /\ ~cancelled /\ Happens("senderCancel")
  /\ cancelled' = TRUE /\ userPaused' = FALSE
  /\ sOpen' = FALSE /\ sHasher' = FALSE
  /\ LET woken == loop = "hold" /\ ~remotePaused
         fails == woken /\ sState \notin SDone
     IN  /\ loop' = IF woken THEN "done" ELSE loop
         /\ sState' = IF fails THEN "failed" ELSE sState
         /\ sStatus' = IF fails THEN [sStatus EXCEPT ![current] = "failed"] ELSE sStatus
  /\ UNCHANGED <<current, offset, end, hashed, remotePaused, toReceiver, toSender,
                 dataBuf, bufferedAmount, dataNet, rOpen, linkUp>>

\* data.onclose: fails a transfer that is moving.
SChannelsClose ==
  /\ sOpen /\ SenderAlone
  /\ IF sState \in {"transferring", "verifying"} THEN SFail
     ELSE sOpen' = FALSE /\ UNCHANGED <<sState, sStatus, sHasher>>
  /\ UNCHANGED <<loop, current, offset, end, hashed, remotePaused, userPaused, cancelled,
                 toReceiver, toSender, dataBuf, bufferedAmount, dataNet, rOpen, linkUp, spent>>

\* pc.connectionState becomes "failed"; a connection this side closed reports nothing.
SConnectionFails ==
  /\ SenderAlone /\ ~cancelled
  /\ SFail
  /\ UNCHANGED <<loop, current, offset, end, hashed, remotePaused, userPaused, cancelled,
                 toReceiver, toSender, dataBuf, bufferedAmount, dataNet, rOpen, linkUp, spent>>

SenderLoop == \/ HasherReady \/ ChunkRead \/ ChunkHashed \/ DigestReady
              \/ Flushed \/ FlushBroken \/ Drained
SenderControl == \/ OnAccept \/ OnPause \/ OnResume \/ OnFileVerified
                 \/ OnTransferVerified \/ OnReject \/ SOnTransferFailed
SenderLoss == SChannelsClose \/ SConnectionFails
SenderChoices == Pause \/ Resume \/ Cancel \/ ReadFails

SenderNext == SenderLoop \/ SenderControl \/ SenderLoss \/ SenderChoices
=============================================================================
