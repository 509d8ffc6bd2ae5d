--------------------------- MODULE Transfer_proofs ---------------------------
(***************************************************************************)
(* What the two engines guarantee for every batch, chunk size, watermark   *)
(* and sequence of failures.                                               *)
(***************************************************************************)
EXTENDS Overlap, Receiver_proofs, FiniteSetTheorems

\* FILE_DONE carries the digest of the whole file.
ExactMsg == [type : {"TRANSFER_START", "TRANSFER_COMPLETE", "TRANSFER_FAILED"}]
            \cup {[type |-> "FILE_DONE", file |-> f, sha |-> Content(f)] : f \in File}

Sending == {"init", "hold", "drain", "read", "hash", "final"}

\* The sender hashes each file from its first byte to its last, and sends
\* nothing before it is accepted.
SenderInv ==
  /\ loop \in Loop /\ offset \in Nat /\ end \in Nat
  /\ loop \in Sending => /\ current \in File /\ offset <= Sizes[current]
                         /\ hashed = Prefix(current, offset)
  /\ loop \in {"read", "hash"} => offset <= end /\ end <= Sizes[current]
  /\ loop = "final" => offset = Sizes[current]
  /\ toReceiver \in Seq(ExactMsg)
  /\ loop = "idle" => toReceiver = <<>> /\ dataBuf = <<>> /\ dataNet = <<>>

LEMMA BatchOK ==
  /\ Len(Sizes) \in Nat /\ Len(Sizes) >= 1 /\ 1 \in File
  /\ \A f \in File : f \in Nat /\ Sizes[f] \in Nat \ {0}
BY BatchAssumption DEF BatchAssumption, File

-----------------------------------------------------------------------------
(* The sender *)

LEMMA MessagesOK ==
  /\ \A t \in {"TRANSFER_START", "TRANSFER_COMPLETE", "TRANSFER_FAILED"} : [type |-> t] \in ExactMsg
  /\ \A f \in File : [type |-> "FILE_DONE", file |-> f, sha |-> Content(f)] \in ExactMsg
BY DEF ExactMsg

LEMMA SendOK ==
  ASSUME NEW q \in Seq(ExactMsg), NEW msg \in ExactMsg, NEW open
  PROVE  SendControl(open, q, msg) \in Seq(ExactMsg)
BY DEF SendControl

LEMMA ThrowOK ==
  ASSUME toReceiver \in Seq(ExactMsg), Throw
  PROVE  loop' = "done" /\ toReceiver' \in Seq(ExactMsg)
BY MessagesOK, SendOK DEF Throw

\* Where the loop may stop, and what it has then read.
LEMMA ContinueOK ==
  ASSUME toReceiver \in Seq(ExactMsg), current \in File, end \in Nat, SenderAssumption,
         NEW off \in Nat, off <= Sizes[current], NEW held, NEW buffered,
         Continue(off, held, buffered)
  PROVE  /\ loop' \in {"final", "hold", "drain", "read", "done"}
         /\ loop' = "final" => off = Sizes[current]
         /\ loop' = "read" => off <= end' /\ end' <= Sizes[current]
         /\ end' \in Nat /\ toReceiver' \in Seq(ExactMsg)
<1>0. Sizes[current] \in Nat /\ ChunkSize \in Nat
  BY BatchOK DEF SenderAssumption
<1>1. ChunkEnd(current, off) \in Nat /\ off <= ChunkEnd(current, off) /\ ChunkEnd(current, off) <= Sizes[current]
  BY <1>0 DEF ChunkEnd
<1>2. end' = IF LoopHead(current, off, held, buffered) = "read" THEN ChunkEnd(current, off) ELSE end
  BY DEF Continue
<1>3. CASE LoopHead(current, off, held, buffered) = "throw"
  <2>1. Throw
    BY <1>3 DEF Continue
  <2> QED BY <1>2, <1>3, <2>1, ThrowOK
<1>4. CASE LoopHead(current, off, held, buffered) # "throw"
  <2>1. loop' = LoopHead(current, off, held, buffered) /\ toReceiver' = toReceiver
    BY <1>4 DEF Continue
  <2>2. loop' \in {"final", "hold", "drain", "read"}
    BY <1>4, <2>1 DEF LoopHead
  <2>3. loop' = "final" => off = Sizes[current]
    BY <1>0, <2>1 DEF LoopHead
  <2> QED BY <1>1, <1>2, <2>1, <2>2, <2>3
<1> QED BY <1>3, <1>4

\* A step that goes on with the loop from offset off.
LEMMA ContinueInv ==
  ASSUME SenderInv, SenderAssumption, current \in File, NEW off \in Nat, off <= Sizes[current],
         NEW held, NEW buffered, Continue(off, held, buffered), loop # "idle",
         current' = current, offset' = off, hashed' = Prefix(current, off)
  PROVE  SenderInv'
<1>1. toReceiver \in Seq(ExactMsg) /\ end \in Nat
  BY DEF SenderInv
<1>2. /\ loop' \in {"final", "hold", "drain", "read", "done"}
      /\ loop' = "final" => off = Sizes[current]
      /\ loop' = "read" => off <= end' /\ end' <= Sizes[current]
      /\ end' \in Nat /\ toReceiver' \in Seq(ExactMsg)
  BY <1>1, ContinueOK
<1> QED BY <1>2 DEF SenderInv, Loop, Sending

LEMMA ThrowInv == SenderInv /\ Throw /\ UNCHANGED <<offset, end>> => SenderInv'
BY ThrowOK DEF SenderInv, Loop, Sending

\* A step that opens file f from any message queue the receiver will understand.
LEMMA OpenFileInv ==
  ASSUME SenderInv, NEW f \in File, OpenFile(f), UNCHANGED end, toReceiver' \in Seq(ExactMsg)
  PROVE  SenderInv'
<1>1. Sizes[f] \in Nat /\ Prefix(f, 0) = <<>>
  BY BatchOK, PrefixWhole
<1> QED BY <1>1 DEF OpenFile, SenderInv, Loop, Sending

\* Every task of the sender keeps SenderInv.
LEMMA SenderLoopInv ==
  ASSUME SenderInv, SenderAssumption, SenderLoop \/ ReadFails
  PROVE  SenderInv'
<1>0. /\ offset \in Nat /\ end \in Nat /\ toReceiver \in Seq(ExactMsg)
      /\ loop \in Sending => current \in File /\ offset <= Sizes[current]
                             /\ hashed = Prefix(current, offset)
      /\ loop \in {"read", "hash"} => offset <= end /\ end <= Sizes[current]
  BY DEF SenderInv
<1>1. CASE HasherReady
  BY <1>0, <1>1, ContinueInv DEF HasherReady, Sending
<1>2. CASE ChunkRead
  <2>1. loop = "read" /\ UNCHANGED <<current, offset, end, hashed>>
    BY <1>2 DEF ChunkRead
  <2>2. CASE sOpen
    BY <1>2, <2>1, <2>2 DEF ChunkRead, SenderInv, Loop, Sending
  <2>3. CASE ~sOpen
    BY <1>2, <2>1, <2>3, ThrowInv DEF ChunkRead
  <2> QED BY <2>2, <2>3
<1>3. CASE ReadFails
  BY <1>3, ThrowInv DEF ReadFails
<1>4. CASE ChunkHashed
  <2>1. /\ loop = "hash" /\ current' = current /\ offset' = end
        /\ hashed' = hashed \o SubSeq(Content(current), offset + 1, end)
        /\ Continue(end, remotePaused \/ userPaused, bufferedAmount)
    BY <1>4 DEF ChunkHashed
  <2>2. current \in File /\ hashed' = Prefix(current, end) /\ end <= Sizes[current]
    BY <1>0, <2>1, PrefixGrows DEF Sending
  <2> QED BY <1>0, <2>1, <2>2, ContinueInv
<1>5. CASE DigestReady
  <2>1. /\ loop = "final" /\ UNCHANGED end
        /\ toReceiver' = SendControl(sOpen, toReceiver,
                            [type |-> "FILE_DONE", file |-> current, sha |-> hashed])
    BY <1>5 DEF DigestReady
  <2>2. current \in File /\ hashed = Content(current)
    BY <1>0, <2>1, PrefixWhole DEF SenderInv, Sending
  <2>3. toReceiver' \in Seq(ExactMsg)
    BY <1>0, <2>1, <2>2, MessagesOK, SendOK
  <2>4. CASE current < Len(Sizes) /\ ~cancelled
    <3>1. current + 1 \in File
      BY <2>2, <2>4, BatchOK DEF File
    <3>2. OpenFile(current + 1)
      BY <1>5, <2>4 DEF DigestReady
    <3> QED BY <2>1, <2>3, <3>1, <3>2, OpenFileInv
  <2>5. CASE ~(current < Len(Sizes) /\ ~cancelled)
    <3>1. loop' \in {"done", "flush"} /\ UNCHANGED <<offset, end>>
      BY <1>5, <2>5 DEF DigestReady
    <3> QED BY <1>0, <2>3, <3>1 DEF SenderInv, Loop, Sending
  <2> QED BY <2>4, <2>5
<1>6. CASE Flushed
  BY <1>0, <1>6, MessagesOK, SendOK DEF Flushed, SenderInv, Loop, Sending
<1>7. CASE FlushBroken
  BY <1>7, ThrowInv DEF FlushBroken
<1>8. CASE Drained
  BY <1>0, <1>8, ContinueInv DEF Drained, Sending
<1> QED BY <1>1, <1>2, <1>3, <1>4, <1>5, <1>6, <1>7, <1>8 DEF SenderLoop

\* Wake either goes on with the loop or leaves it alone.
LEMMA WakeInv ==
  ASSUME SenderInv, SenderAssumption, NEW remote, NEW user, Wake(remote, user),
         UNCHANGED <<current, offset, hashed, dataBuf, dataNet>>
  PROVE  SenderInv'
<1>1. CASE loop = "hold" /\ ~remote /\ ~user
  <2>1. Continue(offset, FALSE, bufferedAmount)
    BY <1>1 DEF Wake
  <2> QED BY <1>1, <2>1, ContinueInv DEF SenderInv, Sending
<1>2. CASE ~(loop = "hold" /\ ~remote /\ ~user)
  BY <1>2 DEF Wake, SenderInv
<1> QED BY <1>1, <1>2

LEMMA SenderRestInv ==
  ASSUME SenderInv, SenderAssumption,
         SenderControl \/ SenderLoss \/ Pause \/ Resume \/ Cancel
  PROVE  SenderInv'
<1>0. toReceiver \in Seq(ExactMsg)
  BY DEF SenderInv
<1>1. CASE OnAccept
  <2>1. OpenFile(1) /\ UNCHANGED end
    BY <1>1 DEF OnAccept
  <2>2. toReceiver' \in Seq(ExactMsg)
    BY <1>0, <1>1, MessagesOK, SendOK DEF OnAccept
  <2> QED BY <2>1, <2>2, BatchOK, OpenFileInv
<1>2. CASE OnResume
  BY <1>2, WakeInv DEF OnResume, SReceive
<1>3. CASE Resume
  BY <1>3, WakeInv DEF Resume
<1>4. CASE Cancel
  <2>1. loop' \in {loop, "done"} /\ UNCHANGED <<current, offset, end, hashed, toReceiver, dataBuf, dataNet>>
    BY <1>4 DEF Cancel
  <2> QED BY <2>1 DEF SenderInv, Loop, Sending
<1>5. CASE \/ OnPause \/ OnFileVerified \/ OnTransferVerified \/ OnReject
           \/ SOnTransferFailed \/ SenderLoss \/ Pause
  <2>1. UNCHANGED <<loop, current, offset, end, hashed, toReceiver, dataBuf, dataNet>>
    BY <1>5 DEF OnPause, OnFileVerified, OnTransferVerified, OnReject, SOnTransferFailed,
                SenderLoss, SChannelsClose, SConnectionFails, Pause, SReceive
  <2> QED BY <2>1 DEF SenderInv
<1> QED BY <1>1, <1>2, <1>3, <1>4, <1>5 DEF SenderControl
\* The receiver and the network only take messages and chunks away, or damage them.
LEMMA OthersKeepSenderInv ==
  ASSUME SenderInv, ReceiverStep \/ NetworkStep \/ UNCHANGED vars
  PROVE  SenderInv'
<1>0. toReceiver \in Seq(ExactMsg) /\ (loop = "idle" => dataBuf = <<>> /\ dataNet = <<>>)
  BY DEF SenderInv
<1>1. CASE ReceiverStep
  <2>1. UNCHANGED senderVars /\ (ReceiverMicrotask \/ ReceiverTask)
    BY <1>1 DEF ReceiverStep, ReceiverNext
  <2>2. CASE ReceiverControl
    <3>1. /\ toReceiver # <<>> /\ toReceiver' = Tail(toReceiver)
          /\ UNCHANGED <<dataBuf, dataNet>>
      BY <2>2 DEF ReceiverControl, OnTransferStart, OnFileDone, OnTransferComplete,
                  ROnTransferFailed, RReceive
    <3>2. toReceiver' \in Seq(ExactMsg)
      BY <1>0, <3>1
    <3> QED BY <2>1, <3>1, <3>2 DEF SenderInv, senderVars
  <2>3. CASE ChunkArrives
    <3>1. dataNet # <<>> /\ UNCHANGED <<dataBuf, toReceiver>>
      BY <2>3 DEF ChunkArrives
    <3> QED BY <2>1, <3>1 DEF SenderInv, senderVars
  <2>4. CASE TailArrives \/ ReceiverQueue \/ ReceiverMicrotask
    <3>1. UNCHANGED <<toReceiver, dataBuf, dataNet>>
      BY <2>4 DEF TailArrives, ReceiverQueue, ReceiverMicrotask, ConsumeStart, Finish,
                  PieceWritten, PieceHashed, DigestComputed, Mismatch, FileCloses,
                  NextFileOpens, NextFileReady, transport
    <3> QED BY <2>1, <3>1 DEF SenderInv, senderVars
  <2>5. CASE ReceiverAccepts \/ ReceiverLoss \/ ReceiverFaults
    <3>1. UNCHANGED <<toReceiver, dataBuf, dataNet>>
      BY <2>5 DEF ReceiverAccepts, Accept, DestinationOpens, FirstFileOpens, Accepted,
                  ReceiverLoss, RChannelsClose, RConnectionFails, ReceiverFaults, PieceFails,
                  DigestFails, CloseFails, NextFileFails, AcceptFails, DialogDismissed,
                  Decline, RCancel, transport
    <3> QED BY <2>1, <3>1 DEF SenderInv, senderVars
  <2> QED BY <2>1, <2>2, <2>3, <2>4, <2>5 DEF ReceiverTask
<1>2. CASE NetworkStep
  <2>1. UNCHANGED senderVars /\ UNCHANGED toReceiver
    BY <1>2 DEF NetworkStep, Transmit, Corrupt, LinkDown
  <2>2. loop = "idle" => UNCHANGED <<dataBuf, dataNet>>
    BY <1>0, <1>2 DEF NetworkStep, Transmit, Corrupt, LinkDown
  <2> QED BY <2>1, <2>2 DEF SenderInv, senderVars
<1>3. CASE UNCHANGED vars
  BY <1>3 DEF SenderInv, vars, senderVars, channelVars
<1> QED BY <1>1, <1>2, <1>3

\* Nothing is sent before the batch is accepted, and every FILE_DONE carries
\* the digest of the whole file.
LEMMA SenderInvariant == Spec => []SenderInv
<1>1. Init => SenderInv
  BY DEF Init, ChannelsInit, SenderInit, SenderInv, Loop, Sending
<1>2. SenderInv /\ [Next]_vars => SenderInv'
  BY SenderAssumption, SenderLoopInv, SenderRestInv, OthersKeepSenderInv
     DEF Next, SenderStep, SenderNext, SenderChoices
<1> QED BY <1>1, <1>2, PTL DEF Spec

-----------------------------------------------------------------------------
(* The handshake *)

\* The sender starts only once the batch is accepted, and calls complete only what
\* the receiver verified.
Inv1 == /\ ReceiverInv
        /\ accepting # "yes" => loop = "idle"
        /\ sState = "complete" => verified

\* The sender takes messages off the queue, and believes the batch complete only
\* when the receiver said so.
LEMMA SenderHears ==
  ASSUME SenderStep, toSender \in Seq(SenderMsg)
  PROVE  /\ Quiet
         /\ sState' = "complete" => sState = "complete" \/ Sent("TRANSFER_VERIFIED")
<1>0. SenderNext
  BY DEF SenderStep
<1>1. Quiet
  <2>1. CASE SenderControl
    <3>1. toSender # <<>> /\ toSender' = Tail(toSender)
      BY <2>1 DEF SenderControl, OnAccept, OnPause, OnResume, OnFileVerified, OnTransferVerified,
                  OnReject, SOnTransferFailed, SReceive
    <3> QED BY <3>1, QuietTail
  <2>2. CASE SenderLoop \/ SenderLoss \/ SenderChoices
    <3>1. UNCHANGED toSender
      BY <2>2 DEF SenderLoop, HasherReady, ChunkRead, ChunkHashed, DigestReady, Flushed,
                  FlushBroken, Drained, SenderLoss, SChannelsClose, SConnectionFails,
                  SenderChoices, Pause, Resume, Cancel, ReadFails
    <3> QED BY <3>1, QuietSame
  <2> QED BY <1>0, <2>1, <2>2 DEF SenderNext
<1>2. sState' = "complete" => sState = "complete" \/ Sent("TRANSFER_VERIFIED")
  <2>1. CASE OnTransferVerified
    <3>1. toSender # <<>> /\ Head(toSender).type = "TRANSFER_VERIFIED"
      BY <2>1 DEF OnTransferVerified, SReceive
    <3> QED BY <3>1, QueueShrinks DEF Sent
  <2>2. CASE ~OnTransferVerified
    <3>1. CASE SenderLoop \/ ReadFails
      BY <3>1 DEF SenderLoop, HasherReady, ChunkRead, ChunkHashed, DigestReady, Flushed,
                  FlushBroken, Drained, ReadFails, Continue, Throw, SFail
    <3>2. CASE SenderControl
      BY <2>2, <3>2 DEF SenderControl, OnAccept, OnPause, OnResume, OnFileVerified, OnReject,
                        SOnTransferFailed, Wake, Continue, Throw, SFail
    <3>3. CASE SenderLoss \/ Pause \/ Resume \/ Cancel
      BY <3>3 DEF SenderLoss, SChannelsClose, SConnectionFails, Pause, Resume, Cancel,
                  Wake, Continue, Throw, SFail
    <3> QED BY <1>0, <3>1, <3>2, <3>3 DEF SenderNext, SenderChoices
  <2> QED BY <2>1, <2>2
<1> QED BY <1>1, <1>2

\* The sender starts only once the batch is accepted.
LEMMA SenderKeepsInv1 ==
  ASSUME SenderInv, Inv1, SenderStep
  PROVE  Inv1'
<1>0. /\ SenderNext /\ UNCHANGED receiverVars /\ toSender \in Seq(SenderMsg)
      /\ (loop # "idle" => accepting = "yes") /\ (Sent("MANIFEST_ACCEPT") => accepting = "yes")
      /\ (Sent("TRANSFER_VERIFIED") => verified) /\ (sState = "complete" => verified)
  BY DEF SenderStep, Inv1, ReceiverInv, HandshakeInv, OutcomeInv
<1>1. Quiet /\ (sState' = "complete" => verified)
  BY <1>0, SenderHears
<1>2. accepting # "yes" => loop' = "idle"
  <2>1. CASE OnAccept
    <3>1. toSender # <<>> /\ Head(toSender).type = "MANIFEST_ACCEPT"
      BY <2>1 DEF OnAccept, SReceive
    <3> QED BY <1>0, <3>1, QueueShrinks DEF Sent
  <2>2. CASE SenderLoop \/ ReadFails
    <3>1. loop # "idle"
      BY <2>2 DEF SenderLoop, HasherReady, ChunkRead, ChunkHashed, DigestReady, Flushed,
                  FlushBroken, Drained, ReadFails
    <3> QED BY <1>0, <3>1
  <2>3. CASE \/ OnPause \/ OnFileVerified \/ OnTransferVerified \/ OnReject
             \/ SOnTransferFailed \/ SenderLoss \/ Pause \/ Cancel
    <3>1. loop = "idle" => loop' = "idle"
      BY <2>3 DEF OnPause, OnFileVerified, OnTransferVerified, OnReject, SOnTransferFailed,
                  SenderLoss, SChannelsClose, SConnectionFails, Pause, Cancel
    <3> QED BY <1>0, <3>1
  <2>4. CASE OnResume \/ Resume
    <3>1. loop = "idle" => loop' = "idle"
      BY <2>4 DEF OnResume, Resume, Wake
    <3> QED BY <1>0, <3>1
  <2> QED BY <1>0, <2>1, <2>2, <2>3, <2>4 DEF SenderNext, SenderControl, SenderChoices
<1>3. HandshakeInv'
  BY <1>0, <1>1 DEF Inv1, ReceiverInv, HandshakeInv, Quiet, receiverVars
<1>4. OutcomeInv'
  BY <1>0, <1>1 DEF Inv1, ReceiverInv, OutcomeInv, Quiet, receiverVars
<1> QED BY <1>0, <1>1, <1>2, <1>3, <1>4 DEF Inv1, ReceiverInv, receiverVars

LEMMA Inv1Step == SenderInv /\ Inv1 /\ [Next]_vars => Inv1'
<1> SUFFICES ASSUME SenderInv, Inv1, [Next]_vars PROVE Inv1'
  OBVIOUS
<1>1. CASE ReceiverStep
  <2>1. ReceiverNext /\ UNCHANGED senderVars
    BY <1>1 DEF ReceiverStep
  <2>2. ReceiverInv'
    BY <2>1, ReceiverKeepsInv DEF Inv1, SenderInv, QuietBefore
  <2>3. (accepting' # "yes" => loop' = "idle") /\ (sState' = "complete" => verified')
    BY <2>1, AcceptedStays DEF Inv1, senderVars
  <2> QED BY <2>2, <2>3 DEF Inv1
<1>2. CASE NetworkStep \/ UNCHANGED vars
  <2>1. UNCHANGED <<senderVars, receiverVars, toSender>>
    BY <1>2 DEF NetworkStep, Transmit, Corrupt, LinkDown, vars, channelVars
  <2>2. HandshakeInv'
    BY <2>1 DEF Inv1, ReceiverInv, HandshakeInv, Sent, senderVars, receiverVars
  <2>3. OutcomeInv'
    BY <2>1 DEF Inv1, ReceiverInv, OutcomeInv, Sent, senderVars, receiverVars
  <2> QED BY <2>1, <2>2, <2>3 DEF Inv1, ReceiverInv, senderVars, receiverVars
<1> QED BY <1>1, <1>2, SenderKeepsInv1 DEF Next

LEMMA Inv1Invariant == Spec => []Inv1
<1>1. Init => Inv1
  <2> SUFFICES ASSUME Init PROVE Inv1
    OBVIOUS
  <2>1. toSender = <<>> /\ toSender \in Seq(SenderMsg)
    BY DEF Init, ChannelsInit
  <2>2. \A t : ~Sent(t)
    BY <2>1 DEF Sent
  <2>3. HandshakeInv
    BY <2>1, <2>2, BatchOK DEF Init, SenderInit, ReceiverInit, HandshakeInv
  <2>4. OutcomeInv
    BY <2>2, BatchOK DEF Init, SenderInit, ReceiverInit, OutcomeInv
  <2> QED BY <2>3, <2>4 DEF Inv1, ReceiverInv, Init, SenderInit
<1> QED BY <1>1, Inv1Step, SenderInvariant, PTL DEF Spec

\* A batch that failed is never complete, whatever finish() was awaiting when
\* the failure landed (receiver.ts, fail and finish).
THEOREM NoSuccess == Spec => []NoSuccessAfterFailure
<1>1. Inv1 => NoSuccessAfterFailure
  BY DEF Inv1, ReceiverInv, OutcomeInv, NoSuccessAfterFailure
<1> QED BY <1>1, Inv1Invariant, PTL

\* The sender's screen says "sent and verified" only once the receiver's finish()
\* has found every declared byte written (sender.ts, TRANSFER_VERIFIED).
THEOREM SenderBelievesReceiver == Spec => [](sState = "complete" => verified /\ ~aborted)
<1>1. Inv1 => (sState = "complete" => verified /\ ~aborted)
  BY DEF Inv1, ReceiverInv, OutcomeInv
<1> QED BY <1>1, Inv1Invariant, PTL

-----------------------------------------------------------------------------
(* The write queue *)

\* A chunk that the network damages is still a chunk.
LEMMA CorruptOK ==
  ASSUME NEW q \in Seq(Chunk), NEW i \in DOMAIN q, NEW k \in DOMAIN q[i]
  PROVE  [q EXCEPT ![i][k] = Corrupted] \in Seq(Chunk)
<1>1. q[i] \in Chunk /\ Corrupted \in Byte
  BY DEF Byte
<1>2. [q[i] EXCEPT ![k] = Corrupted] \in Chunk
  BY <1>1 DEF Chunk
<1> DEFINE c == [q[i] EXCEPT ![k] = Corrupted]
<1>3. [q EXCEPT ![i] = c] \in Seq(Chunk)
  <2> HIDE DEF c
  <2> QED BY <1>2 DEF c
<1>4. [q EXCEPT ![i][k] = Corrupted] = [q EXCEPT ![i] = c]
  OBVIOUS
<1> QED BY <1>3, <1>4

\* The sender puts whole chunks into its buffer, and the network passes them on.
LEMMA SenderKeepsQueue ==
  ASSUME QueueInv, SenderInv, SenderStep
  PROVE  QueueInv'
<1>1. UNCHANGED <<dataNet, writes, ahead, task, finishing, verified, accepting, broken, rState, rHasher>>
  BY DEF SenderStep, receiverVars, SenderNext, SenderLoop, HasherReady, ChunkRead, ChunkHashed,
         DigestReady, Flushed, FlushBroken, Drained, SenderControl, OnAccept, OnPause, OnResume,
         OnFileVerified, OnTransferVerified, OnReject, SOnTransferFailed, SReceive, SenderLoss,
         SChannelsClose, SConnectionFails, SenderChoices, Pause, Resume, Cancel, ReadFails
<1>2. dataBuf' \in Seq(Chunk)
  <2>1. CASE ChunkRead /\ sOpen
    <3>1. dataBuf' = Append(dataBuf, SubSeq(Content(current), offset + 1, end)) /\ loop = "read"
      BY <2>1 DEF ChunkRead
    <3>2. current \in File /\ offset \in Nat /\ end \in Nat /\ offset <= end /\ end <= Sizes[current]
      BY <3>1 DEF SenderInv, Sending
    <3>3. Content(current) \in Seq(Byte) /\ Len(Content(current)) = Sizes[current]
      BY <3>2, BatchOK DEF Content, Byte
    <3>4. SubSeq(Content(current), offset + 1, end) \in Chunk
      BY <3>2, <3>3, BatchOK DEF Chunk
    <3> QED BY <3>1, <3>4 DEF QueueInv
  <2>2. CASE ~(ChunkRead /\ sOpen)
    <3>1. dataBuf' = dataBuf
      BY <2>2
      DEF SenderStep, SenderNext, SenderLoop, HasherReady, ChunkRead, ChunkHashed,
          DigestReady, Flushed, FlushBroken, Drained, SenderControl, OnAccept, OnPause, OnResume,
          OnFileVerified, OnTransferVerified, OnReject, SOnTransferFailed, SReceive, SenderLoss,
          SChannelsClose, SConnectionFails, SenderChoices, Pause, Resume, Cancel, ReadFails
    <3> QED BY <3>1 DEF QueueInv
  <2> QED BY <2>1, <2>2
<1> QED BY <1>1, <1>2 DEF QueueInv

LEMMA NetworkKeepsQueue ==
  ASSUME QueueInv, NetworkStep \/ UNCHANGED vars
  PROVE  QueueInv'
<1>1. UNCHANGED <<writes, ahead, task, finishing, verified, accepting, broken, rState, rHasher>>
  BY DEF NetworkStep, receiverVars, vars
<1>2. dataBuf' \in Seq(Chunk) /\ dataNet' \in Seq(Chunk)
  <2>1. CASE Transmit
    BY <2>1, TailOK DEF Transmit, QueueInv
  <2>2. CASE Corrupt
    <3>1. PICK i \in DOMAIN dataNet : \E k \in DOMAIN dataNet[i] :
            dataNet' = [dataNet EXCEPT ![i][k] = Corrupted]
      BY <2>2 DEF Corrupt
    <3>2. PICK k \in DOMAIN dataNet[i] : dataNet' = [dataNet EXCEPT ![i][k] = Corrupted]
      BY <3>1
    <3>3. dataNet \in Seq(Chunk)
      BY DEF QueueInv
    <3>4. [dataNet EXCEPT ![i][k] = Corrupted] \in Seq(Chunk)
      BY <3>3, CorruptOK
    <3> QED BY <2>2, <3>2, <3>4 DEF Corrupt, QueueInv
  <2>3. CASE LinkDown \/ UNCHANGED vars
    BY <2>3 DEF LinkDown, vars, channelVars, QueueInv
  <2> QED BY <2>1, <2>2, <2>3 DEF NetworkStep
<1> QED BY <1>1, <1>2 DEF QueueInv

LEMMA QueueStep == SenderInv /\ Inv1 /\ QueueInv /\ [Next]_vars => QueueInv'
<1> SUFFICES ASSUME SenderInv, Inv1, QueueInv, [Next]_vars PROVE QueueInv'
  OBVIOUS
<1>1. CASE ReceiverStep
  BY <1>1, ReceiverKeepsQueue DEF ReceiverStep, Inv1
<1> QED BY <1>1, SenderKeepsQueue, NetworkKeepsQueue DEF Next

LEMMA QueueInvariant == Spec => []QueueInv
<1>1. Init => QueueInv
  BY DEF Init, ChannelsInit, SenderInit, ReceiverInit, QueueInv, Task
<1> QED BY <1>1, QueueStep, SenderInvariant, Inv1Invariant, PTL DEF Spec

-----------------------------------------------------------------------------
(* The bytes on disk *)

RowsOK(rows) == /\ rows = [f \in File |-> rows[f]]
                /\ \A f \in File : rows[f] = "verified" => f < index

\* Only a digest of the whole file is ever parked.
DigestsOK == /\ digests = [f \in File |-> digests[f]]
             /\ \A f \in File : digests[f] \in {<<>>, Content(f)}

\* The files before index are whole, those after it are empty.
FilesOK == /\ disk = [f \in File |-> disk[f]]
           /\ \A f \in File : (f < index => disk[f] = Content(f)) /\ (f > index => disk[f] = <<>>)

\* A piece is written first and hashed next: while the hasher lives, it has been
\* fed what is on disk, but for the piece it is being fed.  A failure between the
\* two leaves them apart, and then nothing more of the batch is consumed.
Fed == IF task = "hash" THEN rHashed \o PieceBytes ELSE rHashed

HashOK ==
  index \in File =>
    /\ accepting # "yes" \/ task \in {"open", "init"} => disk[index] = <<>>
    /\ rHasher /\ (task # "idle" \/ ~aborted) => disk[index] = Fed
    /\ task = "digest" => disk[index] = rHashed
    /\ task = "close" => disk[index] = Content(index)
    /\ task \in {"digest", "close", "abort", "open"} => ~rHasher

ExactInv == RowsOK(rStatus) /\ DigestsOK /\ FilesOK /\ HashOK

LEMMA FailRows ==
  ASSUME NEW state, NEW s, NEW fates, NEW rows, RFailFrom(state, s, fates, rows), RowsOK(rows)
  PROVE  RowsOK(rStatus')
BY DEF RFailFrom, RowsOK

LEMMA FailHash ==
  ASSUME NEW state, NEW s, NEW fates, NEW rows, RFailFrom(state, s, fates, rows)
  PROVE  /\ (rHasher' => rHasher) /\ (aborted => aborted')
         /\ rHasher' => aborted \/ rState \in {"complete", "declined"}
BY DEF RFailFrom

LEMMA ReceivingRows ==
  ASSUME RowsOK(rStatus)
  PROVE  RowsOK([rStatus EXCEPT ![index] = "receiving"])
BY DEF RowsOK

LEMMA AdvanceRows ==
  ASSUME NEW ps, NEW rows, Advance(ps, rows), RowsOK(rows)
  PROVE  /\ RowsOK(rStatus') /\ (rHasher' => rHasher) /\ (aborted => aborted')
         /\ task' \in {"idle", "write"}
<1>1. CASE ps = <<>>
  BY <1>1 DEF Advance, ChunkDone
<1>2. CASE ps # <<>> /\ sink # 0 /\ rHasher /\ Head(ps).index = index
  BY <1>2 DEF Advance
<1>3. CASE ps # <<>> /\ ~(sink # 0 /\ rHasher /\ Head(ps).index = index)
  <2>1. RFailFrom("failed", sink, fate, rows) /\ ChunkDone(toSender)
    BY <1>3 DEF Advance
  <2> QED BY <2>1, FailRows, FailHash DEF ChunkDone
<1> QED BY <1>1, <1>2, <1>3

\* Steps that write nothing and hash nothing.
LEMMA ExactFrame ==
  ASSUME ExactInv, UNCHANGED <<index, disk, digests, rHashed>>, RowsOK(rStatus'),
         accepting = "yes" => accepting' = "yes", rHasher' => rHasher, aborted => aborted',
         \/ task' = task /\ (task = "hash" => PieceBytes' = PieceBytes)
         \/ task' = "idle" /\ (task = "hash" => aborted' \/ ~rHasher')
         \/ task' = "write" /\ task # "hash" /\ (task # "idle" \/ ~aborted)
  PROVE  ExactInv'
<1>1. DigestsOK' /\ FilesOK' /\ RowsOK(rStatus)'
  BY DEF ExactInv, DigestsOK, FilesOK, RowsOK
<1>2. HashOK'
  <2> SUFFICES ASSUME index \in File PROVE HashOK'
    BY DEF HashOK
  <2>1. CASE task' = task /\ (task = "hash" => PieceBytes' = PieceBytes)
    BY <2>1 DEF ExactInv, HashOK, Fed
  <2>2. CASE task' = "idle" /\ (task = "hash" => aborted' \/ ~rHasher')
    BY <2>2 DEF ExactInv, HashOK, Fed
  <2>3. CASE task' = "write" /\ task # "hash" /\ (task # "idle" \/ ~aborted)
    BY <2>3 DEF ExactInv, HashOK, Fed
  <2> QED BY <2>1, <2>2, <2>3
<1> QED BY <1>1, <1>2 DEF ExactInv

LEMMA FilesAhead ==
  ASSUME Inv1, QueueInv
  PROVE  /\ index \in Nat /\ (task # "idle" => index \in File /\ accepting = "yes" /\ writes # <<>>)
         /\ accepting # "yes" => task = "idle" /\ index = 1 /\ index \in File
BY BatchOK DEF Inv1, ReceiverInv, HandshakeInv, QueueInv

\* Where a failure cannot hide from fail(): the batch is neither complete nor declined.
LEMMA FailBites ==
  ASSUME Inv1, QueueInv, accepting = "yes", rHasher, NEW state, NEW s, NEW fates, NEW rows,
         RFailFrom(state, s, fates, rows)
  PROVE  aborted' \/ ~rHasher'
<1>1. rState # "complete" /\ rState # "declined"
  BY DEF Inv1, ReceiverInv, OutcomeInv, QueueInv
<1>2. CASE aborted
  BY <1>2, FailHash
<1>3. CASE ~aborted
  BY <1>1, <1>3 DEF RFailFrom
<1> QED BY <1>2, <1>3

LEMMA FailChunkExact ==
  ASSUME Inv1, QueueInv, ExactInv, FailChunk, accepting = "yes",
         UNCHANGED <<index, disk, digests, rHashed, accepting>>
  PROVE  ExactInv'
<1>1. RFailFrom("failed", sink, fate, rStatus) /\ task' = "idle"
  BY DEF FailChunk, RFail, ChunkDone
<1>2. task = "hash" => aborted' \/ ~rHasher'
  BY <1>1, FailBites, FailHash
<1>3. RowsOK(rStatus') /\ (rHasher' => rHasher) /\ (aborted => aborted')
  BY <1>1, FailRows, FailHash DEF ExactInv
<1> QED BY <1>1, <1>2, <1>3, ExactFrame

LEMMA ConsumeExact ==
  ASSUME Inv1, QueueInv, ExactInv, ConsumeStart
  PROVE  ExactInv'
<1> USE DEF failing
<1>1. /\ task = "idle" /\ accepting = "yes" /\ UNCHANGED <<index, disk, digests, rHashed, accepting>>
  BY DEF ConsumeStart, MustConsume, Inv1, ReceiverInv, HandshakeInv
<1>2. CASE aborted
  <2>1. ChunkDone(toSender) /\ UNCHANGED <<rStatus, rHasher, aborted>>
    BY <1>2 DEF ConsumeStart
  <2>2. task' = "idle" /\ RowsOK(rStatus')
    BY <2>1 DEF ChunkDone, ExactInv
  <2> QED BY <1>1, <2>1, <2>2, ExactFrame
<1>3. CASE ~aborted
  <2>1. FailChunk \/ \E ps : Advance(ps, rStatus)
    BY <1>1, <1>3 DEF ConsumeStart
  <2>2. CASE FailChunk
    BY <1>1, <2>2, FailChunkExact
  <2>3. CASE \E ps : Advance(ps, rStatus)
    <3>1. RowsOK(rStatus') /\ (rHasher' => rHasher) /\ (aborted => aborted') /\ task' \in {"idle", "write"}
      BY <2>3, AdvanceRows DEF ExactInv
    <3> QED BY <1>1, <1>3, <3>1, ExactFrame
  <2> QED BY <2>1, <2>2, <2>3
<1> QED BY <1>2, <1>3

LEMMA PieceWrittenExact ==
  ASSUME Inv1, QueueInv, ExactInv, PieceWritten
  PROVE  ExactInv'
<1>1. /\ task = "write" /\ index \in File /\ accepting = "yes" /\ index \in Nat
      /\ disk' = [disk EXCEPT ![index] = @ \o PieceBytes]
      /\ UNCHANGED <<index, digests, rHashed, accepting>>
  BY FilesAhead DEF PieceWritten
<1>2. disk' = [f \in File |-> disk'[f]] /\ \A f \in File : f # index => disk'[f] = disk[f]
  BY <1>1 DEF ExactInv, FilesOK
<1>3. disk'[index] = disk[index] \o PieceBytes
  BY <1>1 DEF ExactInv, FilesOK
<1>4. DigestsOK' /\ FilesOK'
  <2>1. DigestsOK'
    BY <1>1 DEF ExactInv, DigestsOK
  <2>2. \A f \in File : f < index \/ f > index => f # index
    BY <1>1, BatchOK
  <2> QED BY <1>1, <1>2, <2>1, <2>2 DEF ExactInv, FilesOK
<1>5. CASE rHasher
  <2>1. task' = "hash" /\ UNCHANGED <<rStatus, rHasher, writes, pieces>>
    BY <1>1, <1>5 DEF PieceWritten, failing
  <2>2. PieceBytes' = PieceBytes
    BY <2>1 DEF PieceBytes
  <2>3. disk[index] = rHashed
    BY <1>1, <1>5 DEF ExactInv, HashOK, Fed
  <2>4. HashOK'
    BY <1>1, <1>3, <2>1, <2>2, <2>3 DEF HashOK, Fed
  <2>5. RowsOK(rStatus)'
    BY <1>1, <2>1 DEF ExactInv, RowsOK
  <2> QED BY <1>4, <2>4, <2>5 DEF ExactInv
<1>6. CASE ~rHasher
  <2>1. RFailFrom("failed", sink, fate, rStatus) /\ task' = "idle"
    BY <1>1, <1>6 DEF PieceWritten, FailChunk, RFail, ChunkDone
  <2>2. RowsOK(rStatus') /\ ~rHasher'
    BY <1>6, <2>1, FailRows, FailHash DEF ExactInv
  <2>3. HashOK'
    BY <1>1, <2>1, <2>2 DEF HashOK
  <2>4. RowsOK(rStatus)'
    BY <1>1, <2>2 DEF RowsOK
  <2> QED BY <1>4, <2>3, <2>4 DEF ExactInv
<1> QED BY <1>5, <1>6

LEMMA PieceHashedExact ==
  ASSUME Inv1, QueueInv, ExactInv, PieceHashed
  PROVE  ExactInv'
<1>1. /\ task = "hash" /\ rHasher /\ index \in File /\ accepting = "yes"
      /\ rHashed' = rHashed \o PieceBytes
      /\ UNCHANGED <<index, digests, disk, accepting>>
  BY FilesAhead DEF PieceHashed
<1>2. disk'[index] = rHashed'
  BY <1>1 DEF ExactInv, HashOK, Fed
<1>3. RowsOK(rStatus') /\ task' \in {"final", "idle", "write"}
  <2>1. CASE Head(pieces).endsFile
    BY <2>1 DEF PieceHashed, failing, ExactInv
  <2>2. CASE ~Head(pieces).endsFile
    BY <2>2, AdvanceRows DEF PieceHashed, ExactInv
  <2> QED BY <2>1, <2>2
<1>4. HashOK'
  BY <1>1, <1>2, <1>3 DEF HashOK, Fed
<1>5. DigestsOK' /\ FilesOK' /\ RowsOK(rStatus)'
  BY <1>1, <1>3 DEF ExactInv, DigestsOK, FilesOK, RowsOK
<1> QED BY <1>4, <1>5 DEF ExactInv


LEMMA DigestComputedExact ==
  ASSUME Inv1, QueueInv, ExactInv, DigestComputed
  PROVE  ExactInv'
<1>1. /\ task = "final" /\ rHasher /\ index \in File /\ accepting = "yes" /\ ~rHasher'
      /\ task' = IF digests[index] = <<>> THEN "digest" ELSE Verdict(digests[index])
      /\ UNCHANGED <<index, digests, disk, accepting, rHashed, rStatus>>
  BY FilesAhead DEF DigestComputed
<1>2. disk[index] = rHashed
  BY <1>1 DEF ExactInv, HashOK, Fed
<1>3. digests[index] \in {<<>>, Content(index)}
  BY <1>1 DEF ExactInv, DigestsOK
<1>4. HashOK'
  BY <1>1, <1>2, <1>3 DEF HashOK, Fed, Verdict
<1>5. DigestsOK' /\ FilesOK' /\ RowsOK(rStatus)'
  BY <1>1 DEF ExactInv, DigestsOK, FilesOK, RowsOK
<1> QED BY <1>4, <1>5 DEF ExactInv

LEMMA FileClosesExact ==
  ASSUME Inv1, QueueInv, ExactInv, FileCloses
  PROVE  ExactInv'
<1>1. /\ task = "close" /\ index \in File /\ accepting = "yes" /\ index \in Nat
      /\ rStatus' = [rStatus EXCEPT ![index] = "verified"] /\ index' = index + 1
      /\ UNCHANGED <<digests, disk, accepting, rHashed, rHasher>>
  BY FilesAhead DEF FileCloses
<1>2. disk[index] = Content(index) /\ ~rHasher
  BY <1>1 DEF ExactInv, HashOK
<1>3. \A f \in File : f \in Nat
  BY BatchOK
<1>4. FilesOK'
  BY <1>1, <1>2, <1>3 DEF ExactInv, FilesOK
<1>5. RowsOK(rStatus)'
  <2>1. \A f \in File : rStatus'[f] = "verified" => f = index \/ rStatus[f] = "verified"
    BY <1>1 DEF ExactInv, RowsOK
  <2>2. rStatus' = [f \in File |-> rStatus'[f]]
    BY <1>1 DEF ExactInv, RowsOK
  <2>3. \A f \in File : f = index \/ f < index => f < index + 1
    BY <1>1, <1>3
  <2> QED BY <1>1, <2>1, <2>2, <2>3 DEF ExactInv, RowsOK
<1>6. HashOK'
  <2>1. task' \in {"open", "idle"}
    BY DEF FileCloses, ChunkDone
  <2>2. index + 1 \in File => disk[index + 1] = <<>>
    BY <1>1 DEF ExactInv, FilesOK
  <2> QED BY <1>1, <1>2, <2>1, <2>2 DEF HashOK
<1>7. DigestsOK'
  BY <1>1 DEF ExactInv, DigestsOK
<1> QED BY <1>4, <1>5, <1>6, <1>7 DEF ExactInv

\* A file that is opened is empty, and so is its hasher.
LEMMA OpenExact ==
  ASSUME Inv1, QueueInv, ExactInv, NextFileOpens \/ FirstFileOpens
  PROVE  ExactInv'
<1>1. /\ index \in File /\ rHashed' = <<>>
      /\ task' \in {"idle", "init"} /\ (accepting = "yes" => accepting' = "yes")
      /\ UNCHANGED <<index, digests, disk, rStatus>>
      /\ accepting # "yes" \/ task = "open"
  BY FilesAhead DEF NextFileOpens, FirstFileOpens, OpenCurrent, queueing
<1>2. disk[index] = <<>>
  BY <1>1 DEF ExactInv, HashOK
<1>3. HashOK'
  BY <1>1, <1>2 DEF HashOK, Fed
<1>4. DigestsOK' /\ FilesOK' /\ RowsOK(rStatus)'
  BY <1>1 DEF ExactInv, DigestsOK, FilesOK, RowsOK
<1> QED BY <1>3, <1>4 DEF ExactInv

LEMMA QueueExact ==
  ASSUME Inv1, QueueInv, ExactInv, ReceiverQueue \/ PieceFails \/ DigestFails \/ CloseFails \/ NextFileFails
  PROVE  ExactInv'
<1>1. CASE PieceFails \/ NextFileFails
  <2>1. FailChunk /\ task # "idle" /\ UNCHANGED <<index, disk, digests, rHashed, accepting>>
    BY <1>1 DEF PieceFails, NextFileFails
  <2> QED BY <2>1, FailChunkExact, FilesAhead
<1>2. CASE DigestFails
  <2>1. /\ task = "final" /\ task' = "idle"
        /\ UNCHANGED <<index, disk, digests, rHashed, accepting, rStatus, rHasher, aborted>>
    BY <1>2 DEF DigestFails
  <2>2. RowsOK(rStatus')
    BY <2>1 DEF ExactInv
  <2> QED BY <2>1, <2>2, ExactFrame
<1>3. CASE CloseFails \/ Mismatch
  <2>1. /\ task \in {"close", "abort"} /\ task' = "idle"
        /\ \E fates : RFailFrom("failed", 0, fates, rStatus)
        /\ UNCHANGED <<index, disk, digests, rHashed, accepting>>
    BY <1>3 DEF CloseFails, Mismatch, ChunkDone
  <2>2. RowsOK(rStatus') /\ (rHasher' => rHasher) /\ (aborted => aborted')
    BY <2>1, FailRows, FailHash DEF ExactInv
  <2> QED BY <2>1, <2>2, ExactFrame
<1>4. CASE NextFileReady
  <2>1. /\ task = "init" /\ Advance(Tail(pieces), [rStatus EXCEPT ![index] = "receiving"])
        /\ UNCHANGED <<index, disk, digests, rHashed, accepting>>
    BY <1>4 DEF NextFileReady
  <2>2. RowsOK(rStatus') /\ (rHasher' => rHasher) /\ (aborted => aborted') /\ task' \in {"idle", "write"}
    BY <2>1, AdvanceRows, ReceivingRows DEF ExactInv
  <2> QED BY <2>1, <2>2, ExactFrame
<1> QED BY <1>1, <1>2, <1>3, <1>4, PieceWrittenExact, PieceHashedExact, DigestComputedExact,
        FileClosesExact, OpenExact
     DEF ReceiverQueue

\* The head of the queue is the same chunk after another has arrived.
LEMMA PieceKept ==
  ASSUME NEW S, writes \in Seq(S), writes # <<>>, NEW c \in S, UNCHANGED pieces,
         writes' = Append(writes, c)
  PROVE  PieceBytes' = PieceBytes
<1>1. Head(Append(writes, c)) = Head(writes)
  OBVIOUS
<1>2. Head(writes') = Head(writes)
  BY <1>1
<1> QED BY <1>2 DEF PieceBytes

LEMMA OnFileDoneExact ==
  ASSUME SenderInv, Inv1, QueueInv, ExactInv, OnFileDone
  PROVE  ExactInv'
<1> DEFINE msg == Head(toReceiver)
<1>1. msg \in ExactMsg /\ msg.type = "FILE_DONE"
  BY DEF OnFileDone, RReceive, SenderInv
<1>2. msg.file \in File /\ msg.sha = Content(msg.file)
  BY <1>1 DEF ExactMsg
<1>3. /\ digests' = [digests EXCEPT ![msg.file] = msg.sha]
      /\ task' = IF task = "digest" /\ msg.file = index /\ msg.sha # <<>> THEN Verdict(msg.sha) ELSE task
      /\ UNCHANGED <<index, disk, rHashed, accepting, rStatus, rHasher, aborted, writes, pieces>>
  BY DEF OnFileDone, RReceive, failing
<1> HIDE DEF msg
<1>4. DigestsOK'
  BY <1>2, <1>3 DEF ExactInv, DigestsOK
<1>5. FilesOK' /\ RowsOK(rStatus)'
  BY <1>3 DEF ExactInv, FilesOK, RowsOK
<1>6. HashOK'
  <2>1. PieceBytes' = PieceBytes
    BY <1>3 DEF PieceBytes
  <2>2. CASE task' = task
    BY <1>3, <2>1, <2>2 DEF ExactInv, HashOK, Fed
  <2>3. CASE task' # task
    <3>1. task = "digest" /\ msg.file = index /\ task' = IF rHashed = Content(index) THEN "close" ELSE "abort"
      BY <1>2, <1>3, <2>3 DEF Verdict
    <3> QED BY <1>3, <3>1 DEF ExactInv, HashOK, Fed
  <2> QED BY <2>2, <2>3
<1> QED BY <1>4, <1>5, <1>6 DEF ExactInv

LEMMA OthersExact ==
  ASSUME Inv1, QueueInv, ExactInv,
         \/ ChunkArrives \/ TailArrives \/ OnTransferStart \/ OnTransferComplete
         \/ ROnTransferFailed \/ ReceiverLoss \/ Accept \/ DestinationOpens \/ Accepted
         \/ AcceptFails \/ DialogDismissed \/ Decline \/ RCancel \/ Finish
  PROVE  ExactInv'
<1> USE DEF failing, queueing, losing
<1>0. writes \in Seq(Chunk) /\ dataNet \in Seq(Chunk)
  BY DEF QueueInv
<1>1. /\ UNCHANGED <<disk, digests, rHashed, task>>
      /\ accepting = "yes" => accepting' = "yes"
  <2>1. CASE ChunkArrives \/ TailArrives \/ OnTransferStart \/ OnTransferComplete \/ ROnTransferFailed
    BY <2>1 DEF ChunkArrives, TailArrives, OnTransferStart, OnTransferComplete, ROnTransferFailed, RReceive
  <2>2. CASE ReceiverLoss \/ Accept \/ DestinationOpens \/ Accepted
    BY <2>2 DEF ReceiverLoss, RChannelsClose, RConnectionFails, Accept, DestinationOpens, Accepted
  <2>3. CASE AcceptFails \/ DialogDismissed \/ Decline \/ RCancel \/ Finish
    BY <2>3 DEF AcceptFails, DialogDismissed, Decline, RCancel, Finish
  <2> QED BY <2>1, <2>2, <2>3
<1>2. index' = index
  BY DEF ChunkArrives, TailArrives, OnTransferStart, OnTransferComplete, ROnTransferFailed, RReceive,
         ReceiverLoss, RChannelsClose, RConnectionFails, Accept, DestinationOpens, Accepted,
         AcceptFails, DialogDismissed, Decline, RCancel, Finish, Inv1, ReceiverInv, HandshakeInv
<1>3. task = "hash" => PieceBytes' = PieceBytes
  <2>1. CASE ChunkArrives
    BY <1>0, <2>1, PieceKept, TailOK DEF ChunkArrives, QueueInv
  <2>2. CASE ~ChunkArrives
    <3>1. UNCHANGED <<writes, pieces>>
      BY <2>2 DEF TailArrives, OnTransferStart, OnTransferComplete, ROnTransferFailed, RReceive,
         ReceiverLoss, RChannelsClose, RConnectionFails, Accept, DestinationOpens, Accepted,
         AcceptFails, DialogDismissed, Decline, RCancel, Finish
    <3> QED BY <3>1 DEF PieceBytes
  <2> QED BY <2>1, <2>2
<1>4. RowsOK(rStatus') /\ (rHasher' => rHasher) /\ (aborted => aborted')
  <2>1. CASE \E state : RFail(state)
    BY <2>1, FailRows, FailHash DEF RFail, ExactInv
  <2>2. CASE Accepted
    BY <2>2, ReceivingRows DEF Accepted, ExactInv
  <2>3. CASE Finish
    <3>1. \/ UNCHANGED <<rStatus, rHasher, aborted>>
          \/ RFail("failed")
          \/ UNCHANGED <<rStatus, aborted>> /\ ~rHasher'
      BY <2>3 DEF Finish
    <3> QED BY <2>1, <3>1 DEF ExactInv
  <2>4. CASE ~Accepted /\ ~Finish /\ ~(\E state : RFail(state))
    <3>1. UNCHANGED <<rStatus, aborted>> /\ (rHasher' => rHasher)
      BY <2>4 DEF ChunkArrives, TailArrives, OnTransferStart, OnTransferComplete, ROnTransferFailed,
         ReceiverLoss, RChannelsClose, RConnectionFails, Accept, DestinationOpens,
         AcceptFails, DialogDismissed, Decline, RCancel
    <3> QED BY <3>1 DEF ExactInv
  <2> QED BY <2>1, <2>2, <2>3, <2>4
<1> QED BY <1>1, <1>2, <1>3, <1>4, ExactFrame

LEMMA ExactStep == SenderInv /\ Inv1 /\ QueueInv /\ ExactInv /\ [Next]_vars => ExactInv'
<1> SUFFICES ASSUME SenderInv, Inv1, QueueInv, ExactInv, [Next]_vars PROVE ExactInv'
  OBVIOUS
<1>1. CASE ReceiverStep
  BY <1>1, ConsumeExact, QueueExact, OnFileDoneExact, OpenExact, OthersExact
     DEF ReceiverStep, ReceiverNext, ReceiverMicrotask, ReceiverTask, ReceiverFaults,
         ReceiverControl, ReceiverAccepts
<1>2. CASE SenderStep \/ NetworkStep \/ UNCHANGED vars
  <2>1. UNCHANGED <<index, disk, digests, rHashed, rStatus, accepting, rHasher, aborted, task, writes, pieces>>
    BY <1>2 DEF SenderStep, NetworkStep, vars, receiverVars
  <2>2. RowsOK(rStatus') /\ PieceBytes' = PieceBytes
    BY <2>1 DEF ExactInv, PieceBytes
  <2> QED BY <2>1, <2>2, ExactFrame
<1> QED BY <1>1, <1>2 DEF Next

LEMMA ExactInvariant == Spec => []ExactInv
<1>1. Init => ExactInv
  <2> SUFFICES ASSUME Init PROVE ExactInv
    OBVIOUS
  <2>1. index = 1 /\ 1 \in File
    BY BatchOK DEF Init, ReceiverInit
  <2>2. \A f \in File : ~(f < 1)
    BY BatchOK DEF File
  <2> QED BY <2>1, <2>2 DEF Init, ReceiverInit, ExactInv, RowsOK, DigestsOK, FilesOK, HashOK
<1> QED BY <1>1, ExactStep, QueueInvariant, SenderInvariant, Inv1Invariant, PTL DEF Spec

\* A file the receiver calls verified is on its disk byte for byte as the sender
\* read it, for every batch and chunk size, whatever damaged the chunks on the
\* way, whatever failed, and in whichever order the digest and the last chunk of
\* the file arrived (receiver.ts, closeCurrent).
THEOREM VerifiedFilesAreExact == Spec => []VerifiedIsExact
<1>1. ExactInv => VerifiedIsExact
  BY DEF ExactInv, RowsOK, FilesOK, VerifiedIsExact
<1> QED BY <1>1, ExactInvariant, PTL

-----------------------------------------------------------------------------
(* Pausing *)

\* A message that is appended, or read, counts for what it says.
LEMMA BelievesAppended ==
  ASSUME NEW q \in Seq(SenderMsg), NEW m \in SenderMsg, NEW now \in BOOLEAN
  PROVE  Believes(Append(q, m), now) <=> IF Signal(m) THEN m.type = "PAUSE" ELSE Believes(q, now)
<1> DEFINE n == Len(q)
           r == Append(q, m)
<1>1. /\ n \in Nat /\ DOMAIN q = 1 .. n /\ DOMAIN r = 1 .. n + 1
      /\ r[n + 1] = m /\ \A i \in 1 .. n : r[i] = q[i]
  OBVIOUS
<1> HIDE DEF n, r
<1>2. \A i \in 1 .. n + 1 : i = n + 1 \/ (i \in 1 .. n /\ i < n + 1)
  BY <1>1
<1>3. \A i \in 1 .. n : i \in 1 .. n + 1
  BY <1>1
<1>4. n + 1 \in 1 .. n + 1
  BY <1>1
<1>5. CASE Signal(m)
  <2>1. \E i \in DOMAIN r : Signal(r[i])
    BY <1>1, <1>4, <1>5
  <2>2. ASSUME NEW i \in DOMAIN r, \A j \in DOMAIN r : j > i => ~Signal(r[j])
        PROVE  i = n + 1
    BY <1>1, <1>2, <1>4, <1>5, <2>2
  <2>3. \A j \in DOMAIN r : ~(j > n + 1)
    BY <1>1
  <2> QED BY <1>1, <1>4, <1>5, <2>1, <2>2, <2>3 DEF Believes, r
<1>6. CASE ~Signal(m)
  <2>1. (\E i \in DOMAIN r : Signal(r[i])) <=> \E i \in DOMAIN q : Signal(q[i])
    BY <1>1, <1>2, <1>3, <1>6
  <2>2. m.type # "PAUSE"
    BY <1>6 DEF Signal
  <2>3. ASSUME NEW i \in DOMAIN q
        PROVE  (\A j \in DOMAIN r : j > i => ~Signal(r[j])) <=> \A j \in DOMAIN q : j > i => ~Signal(q[j])
    BY <1>1, <1>2, <1>3, <1>6
  <2>4. (\E i \in DOMAIN r : r[i].type = "PAUSE" /\ \A j \in DOMAIN r : j > i => ~Signal(r[j]))
        <=> \E i \in DOMAIN q : q[i].type = "PAUSE" /\ \A j \in DOMAIN q : j > i => ~Signal(q[j])
    BY <1>1, <1>2, <1>3, <2>2, <2>3
  <2> QED BY <1>6, <2>1, <2>4 DEF Believes, r
<1> QED BY <1>5, <1>6

LEMMA BelievesRead ==
  ASSUME NEW q \in Seq(SenderMsg), q # <<>>, NEW now \in BOOLEAN
  PROVE  Believes(q, now)
         <=> Believes(Tail(q), IF Signal(Head(q)) THEN Head(q).type = "PAUSE" ELSE now)
<1> DEFINE n == Len(q) - 1
           r == Tail(q)
           m == Head(q)
<1>1. /\ n \in Nat /\ DOMAIN q = 1 .. n + 1 /\ DOMAIN r = 1 .. n
      /\ q[1] = m /\ \A i \in 1 .. n : r[i] = q[i + 1]
  <2>1. Len(q) \in Nat /\ Len(q) # 0
    OBVIOUS
  <2>2. Len(q) - 1 \in Nat /\ (Len(q) - 1) + 1 = Len(q)
    BY <2>1
  <2> QED BY <2>2
<1> HIDE DEF n, r, m
<1>2. \A i \in 1 .. n + 1 : i = 1 \/ (i - 1 \in 1 .. n /\ (i - 1) + 1 = i)
  BY <1>1
<1>3. \A i \in 1 .. n : i + 1 \in 1 .. n + 1 /\ i + 1 > 1
  BY <1>1
<1>4. 1 \in 1 .. n + 1
  BY <1>1
<1>5. (\E i \in DOMAIN q : Signal(q[i])) <=> Signal(m) \/ \E i \in DOMAIN r : Signal(r[i])
  BY <1>1, <1>2, <1>3, <1>4
<1>6. CASE \E i \in DOMAIN r : Signal(r[i])
  <2>1. ~\A j \in DOMAIN q : j > 1 => ~Signal(q[j])
    BY <1>1, <1>3, <1>6
  <2>2. ASSUME NEW i \in DOMAIN r
        PROVE  (\A j \in DOMAIN r : j > i => ~Signal(r[j]))
               <=> \A j \in DOMAIN q : j > i + 1 => ~Signal(q[j])
    <3>1. ASSUME \A j \in DOMAIN r : j > i => ~Signal(r[j]), NEW j \in DOMAIN q, j > i + 1
          PROVE  ~Signal(q[j])
      <4>1. j - 1 \in 1 .. n /\ j - 1 > i /\ (j - 1) + 1 = j
        BY <1>1, <3>1
      <4> QED BY <1>1, <3>1, <4>1
    <3>2. ASSUME \A j \in DOMAIN q : j > i + 1 => ~Signal(q[j]), NEW j \in DOMAIN r, j > i
          PROVE  ~Signal(r[j])
      <4>1. j + 1 \in 1 .. n + 1 /\ j + 1 > i + 1
        BY <1>1, <3>2
      <4> QED BY <1>1, <3>2, <4>1
    <3> QED BY <3>1, <3>2
  <2>3. (\E i \in DOMAIN r : r[i].type = "PAUSE" /\ \A j \in DOMAIN r : j > i => ~Signal(r[j]))
        <=> \E i \in DOMAIN q : q[i].type = "PAUSE" /\ \A j \in DOMAIN q : j > i => ~Signal(q[j])
    <3>1. ASSUME NEW i \in DOMAIN r, r[i].type = "PAUSE", \A j \in DOMAIN r : j > i => ~Signal(r[j])
          PROVE  \E k \in DOMAIN q : q[k].type = "PAUSE" /\ \A j \in DOMAIN q : j > k => ~Signal(q[j])
      <4>1. i + 1 \in DOMAIN q /\ q[i + 1].type = "PAUSE"
        BY <1>1, <1>3, <3>1
      <4> QED BY <2>2, <3>1, <4>1
    <3>2. ASSUME NEW i \in DOMAIN q, q[i].type = "PAUSE", \A j \in DOMAIN q : j > i => ~Signal(q[j])
          PROVE  \E k \in DOMAIN r : r[k].type = "PAUSE" /\ \A j \in DOMAIN r : j > k => ~Signal(r[j])
      <4>1. i # 1
        BY <2>1, <3>2
      <4>2. i - 1 \in DOMAIN r /\ (i - 1) + 1 = i
        BY <1>1, <1>2, <4>1
      <4>3. r[i - 1].type = "PAUSE"
        BY <1>1, <3>2, <4>2
      <4> QED BY <2>2, <3>2, <4>2, <4>3
    <3> QED BY <3>1, <3>2
  <2> QED BY <1>5, <1>6, <2>3 DEF Believes, r
<1>7. CASE ~\E i \in DOMAIN r : Signal(r[i])
  <2>0. \A j \in DOMAIN q : j # 1 => ~Signal(q[j])
    <3> SUFFICES ASSUME NEW j \in DOMAIN q, j # 1 PROVE ~Signal(q[j])
      OBVIOUS
    <3>1. j - 1 \in 1 .. n /\ (j - 1) + 1 = j
      BY <1>1, <1>2
    <3>2. q[j] = r[j - 1]
      BY <1>1, <3>1
    <3> QED BY <1>1, <1>7, <3>1, <3>2
  <2>1. \A j \in DOMAIN q : j > 1 => ~Signal(q[j])
    BY <2>0
  <2>2. (\E i \in DOMAIN q : q[i].type = "PAUSE" /\ \A j \in DOMAIN q : j > i => ~Signal(q[j]))
        <=> m.type = "PAUSE"
    <3>1. \A i \in DOMAIN q : q[i].type = "PAUSE" => i = 1
      BY <2>0 DEF Signal
    <3> QED BY <1>1, <1>4, <2>1, <3>1
  <2> QED BY <1>5, <1>7, <2>2 DEF Believes, r, m
<1> QED BY <1>6, <1>7

\* As long as both sides can talk, the sender has been told, or will be, whether
\* the receiver's backlog is full.
PauseInv ==
  /\ backlog.paused \in BOOLEAN /\ remotePaused \in BOOLEAN
  /\ rOpen /\ sOpen => (WillBePaused <=> backlog.paused)

\* A step that sends neither PAUSE nor RESUME.
Mute == /\ rOpen' => rOpen
        /\ rOpen' => \/ UNCHANGED toSender
                     \/ \E m \in SenderMsg : ~Signal(m) /\ toSender' = Append(toSender, m)

LEMMA MuteKeeps ==
  ASSUME PauseInv, HandshakeInv, Mute, UNCHANGED <<backlog, remotePaused>>, sOpen' => sOpen
  PROVE  PauseInv'
<1>1. toSender \in Seq(SenderMsg) /\ remotePaused \in BOOLEAN
  BY DEF PauseInv, HandshakeInv
<1>2. rOpen' => (WillBePaused' <=> WillBePaused)
  <2>1. ASSUME NEW m \in SenderMsg, ~Signal(m), toSender' = Append(toSender, m)
        PROVE  WillBePaused' <=> WillBePaused
    BY <1>1, <2>1, BelievesAppended DEF WillBePaused
  <2>2. ASSUME UNCHANGED toSender PROVE WillBePaused' <=> WillBePaused
    BY <2>2 DEF WillBePaused
  <2> QED BY <2>1, <2>2 DEF Mute
<1> QED BY <1>2 DEF PauseInv, Mute

LEMMA NoSignal ==
  /\ \A t \in {"MANIFEST_ACCEPT", "MANIFEST_REJECT", "TRANSFER_VERIFIED", "TRANSFER_FAILED"} :
        [type |-> t] \in SenderMsg /\ ~Signal([type |-> t])
  /\ \A f \in File : LET m == [type |-> "FILE_VERIFIED", file |-> f] IN m \in SenderMsg /\ ~Signal(m)
BY SenderMsgOK DEF Signal

LEMMA MuteSend ==
  ASSUME NEW m \in SenderMsg, ~Signal(m), rOpen' => rOpen, toSender' = SendControl(rOpen, toSender, m)
  PROVE  Mute
BY SendControlIs DEF Mute

\* The end of a chunk: RESUME is sent when the backlog lets the sender go.
LEMMA ChunkDoneKeepsPause ==
  ASSUME PauseInv, HandshakeInv, NEW q, ChunkDone(q), rOpen' => rOpen,
         UNCHANGED <<remotePaused, sOpen>>,
         \/ q = toSender
         \/ \E m \in SenderMsg : ~Signal(m) /\ q = Append(toSender, m)
  PROVE  PauseInv'
<1>1. toSender \in Seq(SenderMsg) /\ remotePaused \in BOOLEAN /\ backlog.paused \in BOOLEAN
  BY DEF PauseInv, HandshakeInv
<1>2. q \in Seq(SenderMsg) /\ (Believes(q, remotePaused) <=> Believes(toSender, remotePaused))
  <2>1. CASE q = toSender
    BY <1>1, <2>1
  <2>2. ASSUME NEW m \in SenderMsg, ~Signal(m), q = Append(toSender, m)
        PROVE  q \in Seq(SenderMsg) /\ (Believes(q, remotePaused) <=> Believes(toSender, remotePaused))
    <3>1. q \in Seq(SenderMsg)
      BY <1>1, <2>2
    <3>2. Believes(Append(toSender, m), remotePaused) <=> Believes(toSender, remotePaused)
      BY <1>1, <2>2, BelievesAppended
    <3> QED BY <2>2, <3>1, <3>2
  <2> QED BY <2>1, <2>2
<1> DEFINE resumes == MayResume(backlog, Len(Head(writes)))
           m == [type |-> "RESUME"]
<1>3. backlog'.paused = (backlog.paused /\ ~resumes)
  BY DEF ChunkDone, Written
<1>4. toSender' = IF resumes THEN SendControl(rOpen', q, m) ELSE q
  BY DEF ChunkDone
<1>5. m \in SenderMsg /\ Signal(m) /\ m.type # "PAUSE"
  BY SenderMsgOK DEF Signal
<1> HIDE DEF resumes, m
<1>6. ASSUME rOpen', sOpen' PROVE WillBePaused' <=> backlog'.paused
  <2>1. Believes(q, remotePaused) <=> backlog.paused
    BY <1>2, <1>6 DEF PauseInv, WillBePaused
  <2>2. CASE resumes
    <3>1. toSender' = Append(q, m)
      BY <1>4, <1>6, <2>2 DEF SendControl
    <3>2. ~WillBePaused'
      BY <1>1, <1>2, <1>5, <3>1, BelievesAppended DEF WillBePaused
    <3> QED BY <1>3, <2>2, <3>2
  <2>3. CASE ~resumes
    BY <1>1, <1>3, <1>4, <2>1, <2>3 DEF WillBePaused
  <2> QED BY <2>2, <2>3
<1> QED BY <1>1, <1>3, <1>6 DEF PauseInv

LEMMA ArrivalKeepsPause ==
  ASSUME PauseInv, HandshakeInv, ChunkArrives, UNCHANGED remotePaused
  PROVE  PauseInv'
<1>1. /\ toSender \in Seq(SenderMsg) /\ remotePaused \in BOOLEAN /\ backlog.paused \in BOOLEAN
      /\ rOpen /\ UNCHANGED <<rOpen, sOpen>>
  BY DEF PauseInv, HandshakeInv, ChunkArrives
<1> DEFINE pauses == MustPause(backlog, Len(Head(dataNet)))
           m == [type |-> "PAUSE"]
<1>2. backlog'.paused = (backlog.paused \/ pauses)
  BY DEF ChunkArrives, Arrived
<1>3. toSender' = IF pauses THEN Append(toSender, m) ELSE toSender
  BY DEF ChunkArrives
<1>4. m \in SenderMsg /\ Signal(m) /\ m.type = "PAUSE"
  BY SenderMsgOK DEF Signal
<1>5. pauses => ~backlog.paused
  BY DEF MustPause
<1>6. pauses \in BOOLEAN
  BY DEF MustPause
<1> HIDE DEF pauses, m
<1>7. CASE pauses
  <2>1. WillBePaused'
    BY <1>1, <1>3, <1>4, <1>7, BelievesAppended DEF WillBePaused
  <2> QED BY <1>1, <1>2, <1>7, <2>1 DEF PauseInv
<1>8. CASE ~pauses
  BY <1>1, <1>2, <1>3, <1>8 DEF PauseInv, WillBePaused
<1> QED BY <1>7, <1>8

LEMMA FailOpens ==
  ASSUME NEW state, NEW s, NEW fates, NEW rows, RFailFrom(state, s, fates, rows)
  PROVE  rOpen' => rOpen
BY DEF RFailFrom

LEMMA FailChunkKeepsPause ==
  ASSUME PauseInv, HandshakeInv, UNCHANGED <<remotePaused, sOpen>>, NEW s, NEW fates, NEW rows,
         RFailFrom("failed", s, fates, rows), ChunkDone(toSender)
  PROVE  PauseInv'
BY FailOpens, ChunkDoneKeepsPause

LEMMA AdvanceKeepsPause ==
  ASSUME PauseInv, HandshakeInv, UNCHANGED <<remotePaused, sOpen>>, NEW ps, NEW rows, Advance(ps, rows)
  PROVE  PauseInv'
<1>1. CASE ps = <<>>
  <2>1. ChunkDone(toSender) /\ rOpen' = rOpen
    BY <1>1 DEF Advance
  <2> QED BY <2>1, ChunkDoneKeepsPause
<1>2. CASE ps # <<>> /\ sink # 0 /\ rHasher /\ Head(ps).index = index
  <2>1. UNCHANGED <<toSender, backlog, rOpen>>
    BY <1>2 DEF Advance
  <2> QED BY <2>1, MuteKeeps DEF Mute
<1>3. CASE ps # <<>> /\ ~(sink # 0 /\ rHasher /\ Head(ps).index = index)
  <2>1. RFailFrom("failed", sink, fate, rows) /\ ChunkDone(toSender)
    BY <1>3 DEF Advance
  <2> QED BY <2>1, FailChunkKeepsPause
<1> QED BY <1>1, <1>2, <1>3

LEMMA QueueKeepsPause ==
  ASSUME PauseInv, Inv1, UNCHANGED remotePaused,
         ConsumeStart \/ ReceiverQueue \/ PieceFails \/ DigestFails \/ CloseFails \/ NextFileFails
  PROVE  PauseInv'
<1> USE DEF transport
<1>0. HandshakeInv /\ (task # "idle" => index \in File)
  BY DEF Inv1, ReceiverInv, HandshakeInv
<1>1. UNCHANGED <<sOpen, remotePaused>>
  BY DEF ConsumeStart, ReceiverQueue, PieceWritten, PieceHashed, DigestComputed, Mismatch, FileCloses,
         NextFileOpens, NextFileReady, PieceFails, DigestFails, CloseFails, NextFileFails
<1>2. CASE FailChunk
  BY <1>0, <1>1, <1>2, FailChunkKeepsPause DEF FailChunk, RFail
<1>3. CASE \E ps, rows : Advance(ps, rows)
  BY <1>0, <1>1, <1>3, AdvanceKeepsPause
<1>4. CASE ChunkDone(toSender) /\ UNCHANGED failing
  BY <1>0, <1>1, <1>4, ChunkDoneKeepsPause DEF failing
<1>5. CASE UNCHANGED <<toSender, backlog, rOpen>>
  BY <1>0, <1>1, <1>5, MuteKeeps DEF Mute
<1>6. CASE CloseFails \/ Mismatch
  BY <1>0, <1>1, <1>6, FailChunkKeepsPause DEF CloseFails, Mismatch
<1>7. CASE FileCloses
  <2> DEFINE m == [type |-> "FILE_VERIFIED", file |-> index]
             q == SendControl(rOpen, toSender, m)
  <2>1. rOpen' = rOpen /\ m \in SenderMsg /\ ~Signal(m)
    BY <1>0, <1>7, NoSignal DEF FileCloses
  <2>2. q = toSender \/ q = Append(toSender, m)
    BY SendControlIs
  <2>3. \/ toSender' = q /\ backlog' = backlog
        \/ ChunkDone(q)
    BY <1>7 DEF FileCloses
  <2> HIDE DEF m, q
  <2>4. CASE ChunkDone(q)
    BY <1>0, <1>1, <2>1, <2>2, <2>4, ChunkDoneKeepsPause
  <2>5. CASE toSender' = q /\ backlog' = backlog
    BY <1>0, <1>1, <2>1, <2>2, <2>5, MuteKeeps DEF Mute
  <2> QED BY <2>3, <2>4, <2>5
<1>8. CASE ConsumeStart
  <2>1. \/ ChunkDone(toSender) /\ UNCHANGED failing
        \/ FailChunk
        \/ \E ps : Advance(ps, rStatus)
    BY <1>8 DEF ConsumeStart
  <2> QED BY <1>2, <1>3, <1>4, <2>1
<1>9. CASE PieceWritten \/ PieceHashed \/ PieceFails \/ NextFileFails
  BY <1>2, <1>3, <1>5, <1>9 DEF PieceWritten, PieceHashed, PieceFails, NextFileFails, failing
<1>10. CASE DigestComputed \/ NextFileOpens \/ NextFileReady \/ DigestFails
  BY <1>3, <1>5, <1>10 DEF DigestComputed, NextFileOpens, NextFileReady, DigestFails
<1> QED BY <1>6, <1>7, <1>8, <1>9, <1>10 DEF ReceiverQueue

LEMMA ReceiverKeepsPause ==
  ASSUME PauseInv, Inv1, UNCHANGED remotePaused,
         \/ Finish \/ TailArrives \/ ReceiverControl \/ ReceiverAccepts \/ ReceiverLoss
         \/ AcceptFails \/ DialogDismissed \/ Decline \/ RCancel
  PROVE  PauseInv'
<1> USE DEF transport, failing, queueing, losing
<1>0. HandshakeInv
  BY DEF Inv1, ReceiverInv
<1>1. /\ UNCHANGED <<sOpen, remotePaused, backlog>> /\ (rOpen' => rOpen)
  <2>1. CASE Finish \/ TailArrives \/ ReceiverControl
    BY <2>1, FailOpens DEF Finish, TailArrives, ReceiverControl, OnTransferStart, OnFileDone,
       OnTransferComplete, ROnTransferFailed, RReceive, RFail
  <2>2. CASE ReceiverAccepts \/ ReceiverLoss
    BY <2>2, FailOpens DEF ReceiverAccepts, Accept, DestinationOpens, FirstFileOpens, Accepted,
       ReceiverLoss, RChannelsClose, RConnectionFails, RFail
  <2>3. CASE AcceptFails \/ DialogDismissed \/ Decline \/ RCancel
    BY <2>3, FailOpens DEF AcceptFails, DialogDismissed, Decline, RCancel, RFail
  <2> QED BY <2>1, <2>2, <2>3
<1>2. \/ UNCHANGED toSender
      \/ \E t \in {"MANIFEST_ACCEPT", "MANIFEST_REJECT", "TRANSFER_VERIFIED", "TRANSFER_FAILED"} :
            toSender' = SendControl(rOpen, toSender, [type |-> t])
  BY DEF Finish, TailArrives, ReceiverControl, OnTransferStart, OnFileDone, OnTransferComplete,
     ROnTransferFailed, RReceive, ReceiverAccepts, Accept, DestinationOpens, FirstFileOpens, Accepted,
     ReceiverLoss, RChannelsClose, RConnectionFails, AcceptFails, DialogDismissed, Decline, RCancel
<1>3. Mute
  BY <1>1, <1>2, MuteSend, NoSignal DEF Mute
<1> QED BY <1>0, <1>1, <1>3, MuteKeeps

\* The sender reads its queue in order.
LEMMA ReadKeepsPause ==
  ASSUME PauseInv, HandshakeInv, toSender # <<>>, toSender' = Tail(toSender),
         UNCHANGED <<backlog, rOpen>>, sOpen' => sOpen,
         remotePaused' = IF Signal(Head(toSender)) THEN Head(toSender).type = "PAUSE" ELSE remotePaused
  PROVE  PauseInv'
<1>1. toSender \in Seq(SenderMsg) /\ remotePaused \in BOOLEAN
  BY DEF PauseInv, HandshakeInv
<1>2. WillBePaused <=> WillBePaused'
  BY <1>1, BelievesRead DEF WillBePaused
<1>3. remotePaused' \in BOOLEAN
  BY <1>1
<1> QED BY <1>2, <1>3 DEF PauseInv

LEMMA WakeOpens == ASSUME NEW a, NEW b, Wake(a, b), sOpen' PROVE sOpen
BY DEF Wake, Continue, Throw, SFail

LEMMA SenderKeepsPause ==
  ASSUME PauseInv, Inv1, SenderStep
  PROVE  PauseInv'
<1> USE DEF SReceive
<1>0. HandshakeInv /\ UNCHANGED <<backlog>>
  BY DEF Inv1, ReceiverInv, SenderStep, receiverVars
<1>1. CASE OnPause
  <2>1. Signal(Head(toSender)) /\ Head(toSender).type = "PAUSE"
    BY <1>1 DEF OnPause, Signal
  <2>2. /\ toSender # <<>> /\ toSender' = Tail(toSender) /\ UNCHANGED <<rOpen, sOpen>>
        /\ remotePaused' = TRUE
    BY <1>1 DEF OnPause
  <2> QED BY <1>0, <2>1, <2>2, ReadKeepsPause
<1>2. CASE OnResume
  <2>1. Signal(Head(toSender)) /\ Head(toSender).type # "PAUSE"
    BY <1>2 DEF OnResume, Signal
  <2>2. /\ toSender # <<>> /\ toSender' = Tail(toSender) /\ UNCHANGED rOpen
        /\ remotePaused' = FALSE /\ (sOpen' => sOpen)
    BY <1>2, WakeOpens DEF OnResume
  <2> QED BY <1>0, <2>1, <2>2, ReadKeepsPause
<1>3. CASE OnAccept \/ OnFileVerified \/ OnTransferVerified \/ OnReject \/ SOnTransferFailed
  <2>1. /\ toSender # <<>> /\ toSender' = Tail(toSender) /\ UNCHANGED <<rOpen, remotePaused>>
        /\ (sOpen' => sOpen)
    BY <1>3 DEF OnAccept, OnFileVerified, OnTransferVerified, OnReject, SOnTransferFailed, SFail
  <2>2. ~Signal(Head(toSender))
    BY <1>3 DEF OnAccept, OnFileVerified, OnTransferVerified, OnReject, SOnTransferFailed, Signal
  <2> QED BY <1>0, <2>1, <2>2, ReadKeepsPause
<1>4. CASE SenderLoop \/ SenderLoss \/ SenderChoices
  <2>1. UNCHANGED <<rOpen, remotePaused, toSender>>
    BY <1>4 DEF SenderLoop, HasherReady, ChunkRead, ChunkHashed, DigestReady, Flushed, FlushBroken,
       Drained, SenderLoss, SChannelsClose, SConnectionFails, SenderChoices, Pause, Resume, Cancel, ReadFails
  <2>2. sOpen' => sOpen
    BY <1>4, WakeOpens DEF SenderLoop, HasherReady, ChunkRead, ChunkHashed, DigestReady, Flushed,
       FlushBroken, Drained, SenderLoss, SChannelsClose, SConnectionFails, SenderChoices, Pause, Resume,
       Cancel, ReadFails, Continue, Throw, SFail
  <2> QED BY <1>0, <2>1, <2>2, MuteKeeps DEF Mute
<1> QED BY <1>1, <1>2, <1>3, <1>4 DEF SenderStep, SenderNext, SenderControl

LEMMA PauseStep == Inv1 /\ PauseInv /\ [Next]_vars => PauseInv'
<1> SUFFICES ASSUME Inv1, PauseInv, [Next]_vars PROVE PauseInv'
  OBVIOUS
<1>0. HandshakeInv
  BY DEF Inv1, ReceiverInv
<1>1. CASE ReceiverStep
  <2>1. UNCHANGED remotePaused
    BY <1>1 DEF ReceiverStep, senderVars
  <2> QED BY <1>0, <1>1, <2>1, QueueKeepsPause, ReceiverKeepsPause, ArrivalKeepsPause
          DEF ReceiverStep, ReceiverNext, ReceiverMicrotask, ReceiverTask, ReceiverFaults
<1>2. CASE NetworkStep \/ UNCHANGED vars
  <2>1. UNCHANGED <<backlog, remotePaused, toSender, rOpen, sOpen>>
    BY <1>2 DEF NetworkStep, Transmit, Corrupt, LinkDown, vars, channelVars, senderVars, receiverVars
  <2> QED BY <1>0, <2>1, MuteKeeps DEF Mute
<1> QED BY <1>1, <1>2, SenderKeepsPause DEF Next

\* PAUSE and RESUME never get out of step with the receiver's backlog, for every
\* pair of watermarks and size of chunks (backlog.ts; receiver.ts, onChunk): the
\* sender is neither left paused for good nor let go over a full backlog.
THEOREM PauseFollowsBacklog == Spec => []PauseInStep
<1>1. Init => PauseInv
  <2>1. Init => toSender = <<>> /\ remotePaused = FALSE /\ backlog.paused = FALSE
    BY DEF Init, ChannelsInit, SenderInit, ReceiverInit, EmptyBacklog
  <2>2. ~Believes(<<>>, FALSE)
    BY DEF Believes
  <2> QED BY <2>1, <2>2 DEF PauseInv, WillBePaused
<1>2. PauseInv => PauseInStep
  <2> SUFFICES ASSUME PauseInv, rOpen, sOpen PROVE WillBePaused = backlog.paused
    BY DEF PauseInStep
  <2>1. WillBePaused \in BOOLEAN
    BY DEF PauseInv, WillBePaused, Believes
  <2> QED BY <2>1 DEF PauseInv
<1> QED BY <1>1, <1>2, PauseStep, Inv1Invariant, PTL DEF Spec

-----------------------------------------------------------------------------
(* The bytes in the queue *)

BytesInv == backlog.bytes = Len(FlattenSeq(writes))

LEMMA ConsumedKeeps ==
  ASSUME BytesInv, QueueInv, writes # <<>>, NEW q, ChunkDone(q)
  PROVE  BytesInv'
<1>1. writes' = Tail(writes) /\ backlog'.bytes = backlog.bytes - Len(Head(writes))
  BY DEF ChunkDone, Written
<1>2. writes \in Seq(Chunk)
  BY DEF QueueInv
<1> QED BY <1>1, <1>2, FlatTail DEF BytesInv

LEMMA QueueKeepsBytes ==
  ASSUME BytesInv, QueueInv,
         ConsumeStart \/ ReceiverQueue \/ PieceFails \/ DigestFails \/ CloseFails \/ NextFileFails
  PROVE  BytesInv'
<1>0. task # "idle" => writes # <<>>
  BY DEF QueueInv
<1>1. CASE UNCHANGED <<writes, backlog>>
  BY <1>1 DEF BytesInv
<1>2. CASE writes # <<>> /\ \E q : ChunkDone(q)
  BY <1>2, ConsumedKeeps
<1>3. CASE ConsumeStart
  <2>1. writes # <<>>
    BY <1>3 DEF ConsumeStart, MustConsume
  <2>2. (\E q : ChunkDone(q)) \/ UNCHANGED <<writes, backlog>>
    BY <1>3 DEF ConsumeStart, FailChunk, Advance
  <2> QED BY <1>1, <1>2, <2>1, <2>2
<1>4. CASE ReceiverQueue \/ PieceFails \/ CloseFails \/ NextFileFails
  <2>1. task # "idle"
    BY <1>4 DEF ReceiverQueue, PieceWritten, PieceHashed, DigestComputed, Mismatch, FileCloses,
                NextFileOpens, NextFileReady, PieceFails, CloseFails, NextFileFails
  <2>2. (\E q : ChunkDone(q)) \/ UNCHANGED <<writes, backlog>>
    BY <1>4 DEF ReceiverQueue, PieceWritten, PieceHashed, DigestComputed, Mismatch, FileCloses,
                NextFileOpens, NextFileReady, PieceFails, CloseFails, NextFileFails, FailChunk, Advance
  <2> QED BY <1>0, <1>1, <1>2, <2>1, <2>2
<1>5. CASE DigestFails
  BY <1>1, <1>5 DEF DigestFails
<1> QED BY <1>3, <1>4, <1>5

LEMMA ArrivalKeepsBytes ==
  ASSUME BytesInv, QueueInv, ChunkArrives
  PROVE  BytesInv'
<1>1. /\ writes' = Append(writes, Head(dataNet)) /\ dataNet # <<>>
      /\ backlog'.bytes = backlog.bytes + Len(Head(dataNet))
  BY DEF ChunkArrives, Arrived
<1>2. writes \in Seq(Chunk) /\ Head(dataNet) \in Chunk
  BY <1>1, TailOK DEF QueueInv
<1> QED BY <1>1, <1>2, FlatAppend DEF BytesInv

LEMMA BytesStep == QueueInv /\ BytesInv /\ [Next]_vars => BytesInv'
<1> SUFFICES ASSUME QueueInv, BytesInv, [Next]_vars PROVE BytesInv'
  OBVIOUS
<1>1. CASE UNCHANGED <<writes, backlog>>
  BY <1>1 DEF BytesInv
<1>2. CASE ReceiverStep
  <2>1. CASE \/ Finish \/ TailArrives \/ ReceiverControl \/ ReceiverAccepts \/ ReceiverLoss
             \/ AcceptFails \/ DialogDismissed \/ Decline \/ RCancel
    BY <1>1, <2>1 DEF Finish, TailArrives, ReceiverControl, OnTransferStart, OnFileDone,
       OnTransferComplete, ROnTransferFailed, RReceive, ReceiverAccepts, Accept, DestinationOpens,
       FirstFileOpens, Accepted, ReceiverLoss, RChannelsClose, RConnectionFails, AcceptFails,
       DialogDismissed, Decline, RCancel, queueing, losing
  <2> QED BY <1>2, <2>1, QueueKeepsBytes, ArrivalKeepsBytes
          DEF ReceiverStep, ReceiverNext, ReceiverMicrotask, ReceiverTask, ReceiverFaults
<1>3. CASE SenderStep \/ NetworkStep \/ UNCHANGED vars
  BY <1>1, <1>3 DEF SenderStep, NetworkStep, receiverVars, vars
<1> QED BY <1>2, <1>3 DEF Next

\* The backlog counts exactly the bytes taken off the wire and not yet consumed
\* (backlog.ts; receiver.ts, onChunk and consume), whatever the chunks are and
\* whichever of them fail: nothing is counted twice or forgotten, although each
\* size is measured on arrival and given back after its buffer is gone.
THEOREM BacklogCounts == Spec => []BacklogIsQueue
<1>1. Init => BytesInv
  <2>1. Init => writes = <<>> /\ backlog.bytes = 0
    BY DEF Init, ReceiverInit, EmptyBacklog
  <2>2. FlattenSeq(<<>>) = <<>>
    BY DEF FlattenSeq
  <2> QED BY <2>1, <2>2 DEF BytesInv
<1>2. BytesInv => BacklogIsQueue
  BY DEF BytesInv, BacklogIsQueue
<1> QED BY <1>1, <1>2, BytesStep, QueueInvariant, PTL DEF Spec

-----------------------------------------------------------------------------
(* The whole batch *)

LEMMA ReceiverSteps == [Next]_vars => ReceiverNext \/ UNCHANGED <<receiverVars, rOpen>>
<1> SUFFICES ASSUME [Next]_vars PROVE ReceiverNext \/ UNCHANGED <<receiverVars, rOpen>>
  OBVIOUS
<1>1. CASE SenderStep
  BY <1>1 DEF SenderStep, SenderNext, SenderLoop, HasherReady, ChunkRead, ChunkHashed,
              DigestReady, Flushed, FlushBroken, Drained, SenderControl, OnAccept, OnPause, OnResume,
              OnFileVerified, OnTransferVerified, OnReject, SOnTransferFailed, SReceive, SenderLoss,
              SChannelsClose, SConnectionFails, SenderChoices, Pause, Resume, Cancel, ReadFails
<1>2. CASE NetworkStep \/ UNCHANGED vars
  BY <1>2 DEF NetworkStep, Transmit, Corrupt, LinkDown, vars, channelVars
<1> QED BY <1>1, <1>2 DEF Next, ReceiverStep

LEMMA SyncInvariant == Spec => []SyncInv
<1>1. Init => SyncInv
  <2> SUFFICES ASSUME Init PROVE SyncInv
    OBVIOUS
  <2>1. CursorOK(AtStart)
    BY SizesOK DEF CursorOK, AtStart
  <2>2. <<>> \in Chunk
    BY DEF Chunk
  <2>3. \A f \in File : ~(f < 1)
    BY SizesOK
  <2> QED BY <2>1, <2>2, <2>3 DEF Init, ChannelsInit, ReceiverInit, SyncInv, Closing, Rows, Ticked, Sound
<1>2. SyncInv /\ Inv1 /\ QueueInv /\ [Next]_vars => SyncInv'
  BY QueueFactsHold, ReceiverSteps, ReceiverSync DEF Inv1
<1> QED BY <1>1, <1>2, Inv1Invariant, QueueInvariant, PTL DEF Spec

\* While nothing failed, the receiver has counted exactly the files before the
\* one it is writing and what is hashed of that one, however the chunks fall on
\* the files (receiver.ts, consume, closeCurrent and openCurrent; cursor.ts, split).
THEOREM CountsStayInStep == Spec => []InStep
<1>1. SyncInv /\ QueueFacts => InStep
  <2> SUFFICES ASSUME SyncInv, QueueFacts, ~aborted, ~closed, accepting = "yes"
               PROVE  Placed = IF sink = 0 THEN 0 ELSE Len(rHashed)
    BY DEF InStep, SyncInv, Sound, Stage
  <2>1. Stage
    BY DEF SyncInv, Sound
  <2>2. CASE index \notin File
    BY <2>2 DEF QueueFacts, Placed
  <2>3. CASE index \in File
    BY <2>1, <2>3 DEF QueueFacts, Task, Stage, Held, Placed
  <2> QED BY <2>2, <2>3
<1>2. Inv1 => ReceiverInv
  BY DEF Inv1
<1> QED BY <1>1, <1>2, QueueFactsHold, Inv1Invariant, QueueInvariant, SyncInvariant, PTL

\* Once TRANSFER_VERIFIED is sent the batch is whole, unless the write queue was
\* rejected: then finish() goes by the count alone.
CompleteInv ==
  /\ Sent("TRANSFER_VERIFIED") \/ sState = "complete" => broken \/ Whole
  /\ broken => "digest" \in Events

LEMMA FinishCompletes ==
  ASSUME Inv1, QueueInv, SyncInv, Finish, ~verified, rOpen, verified', ~broken
  PROVE  Whole
<1>1. ~aborted /\ received = TotalBytes
  BY DEF Finish, failing, RFail, RFailFrom
<1>2. QueueFacts
  BY QueueFactsHold DEF Inv1
<1>3. accepting = "yes" /\ index = Len(Sizes) + 1
  BY <1>1, <1>2, FinishIsWhole
<1>4. ASSUME NEW f \in File PROVE fate[f] = "saved"
  <2>1. f < index
    BY <1>3, SizesOK
  <2> QED BY <1>1, <2>1 DEF SyncInv, Closing, Sound
<1> QED BY <1>3, <1>4 DEF Whole

LEMMA VerifiedOnlyByFinish == ReceiverNext /\ ~Finish => UNCHANGED verified
BY DEF ReceiverNext, ReceiverMicrotask, ReceiverTask, ReceiverQueue, ReceiverFaults, ReceiverControl,
       ReceiverAccepts, ReceiverLoss, ConsumeStart, ChunkArrives, TailArrives,
       PieceWritten, PieceHashed, DigestComputed, Mismatch, FileCloses, NextFileOpens, NextFileReady,
       OnTransferStart, OnFileDone, OnTransferComplete, ROnTransferFailed, RReceive, Accept,
       DestinationOpens, FirstFileOpens, Accepted, RChannelsClose, RConnectionFails, losing, queueing,
       PieceFails, DigestFails, CloseFails, NextFileFails, AcceptFails, DialogDismissed, Decline, RCancel

LEMMA CompleteStep ==
  SenderInv /\ Inv1 /\ QueueInv /\ SyncInv /\ CompleteInv /\ [Next]_vars => CompleteInv'
<1> SUFFICES ASSUME SenderInv, Inv1, QueueInv, SyncInv, CompleteInv, [Next]_vars PROVE CompleteInv'
  OBVIOUS
<1> DEFINE wholeOrBroken == broken \/ Whole
<1>0. ReceiverNext \/ UNCHANGED receiverVars
  BY ReceiverSteps
<1>1. broken' => "digest" \in Events
  BY <1>0, BrokenBy DEF CompleteInv
<1>2. wholeOrBroken => wholeOrBroken'
  BY <1>0, QueueFactsHold, WholeStays, BrokenStays DEF Inv1
<1>3. Inv1'
  BY Inv1Step
<1>4. /\ (Sent("TRANSFER_VERIFIED") \/ sState = "complete") => wholeOrBroken
      /\ (Sent("TRANSFER_VERIFIED") \/ sState = "complete") => verified
  BY DEF CompleteInv, Inv1, ReceiverInv, OutcomeInv
<1> HIDE DEF wholeOrBroken
<1>5. ASSUME Sent("TRANSFER_VERIFIED")' \/ sState' = "complete" PROVE wholeOrBroken'
  <2>1. CASE SenderStep
    <3>1. Sent("TRANSFER_VERIFIED") \/ sState = "complete"
      BY <1>5, <2>1, SenderHears DEF Quiet, Inv1, ReceiverInv, HandshakeInv
    <3> QED BY <1>2, <1>4, <3>1
  <2>2. CASE NetworkStep \/ UNCHANGED vars
    <3>1. UNCHANGED <<toSender, sState>>
      BY <2>2 DEF NetworkStep, Transmit, Corrupt, LinkDown, vars, channelVars, senderVars
    <3>2. Sent("TRANSFER_VERIFIED") \/ sState = "complete"
      BY <1>5, <3>1 DEF Sent
    <3> QED BY <1>2, <1>4, <3>2
  <2>3. CASE ReceiverStep
    <3>0. ReceiverNext /\ UNCHANGED sState
      BY <2>3 DEF ReceiverStep, senderVars
    <3>1. CASE ~rOpen
      <4>1. UNCHANGED toSender
        BY <3>0, <3>1, ClosedIsSilent
      <4>2. Sent("TRANSFER_VERIFIED") \/ sState = "complete"
        BY <1>5, <3>0, <4>1 DEF Sent
      <4> QED BY <1>2, <1>4, <4>2
    <3>2. CASE rOpen
      <4>1. ~verified
        BY <3>2 DEF SyncInv, Closing, Inv1, ReceiverInv, OutcomeInv
      <4>2. verified'
        BY <1>3, <1>5 DEF Inv1, ReceiverInv, OutcomeInv
      <4>3. Finish
        BY <3>0, <4>1, <4>2, VerifiedOnlyByFinish
      <4>4. broken \/ Whole
        BY <3>2, <4>1, <4>2, <4>3, FinishCompletes
      <4> QED BY <1>2, <4>4 DEF wholeOrBroken
    <3> QED BY <3>1, <3>2
  <2> QED BY <2>1, <2>2, <2>3 DEF Next
<1> QED BY <1>1, <1>5 DEF CompleteInv, wholeOrBroken

LEMMA CompleteInvariant == Spec => []CompleteInv
<1>1. Init => CompleteInv
  BY DEF Init, ChannelsInit, SenderInit, ReceiverInit, CompleteInv, Sent
<1> QED BY <1>1, CompleteStep, SenderInvariant, Inv1Invariant, QueueInvariant, SyncInvariant, PTL DEF Spec

\* "Sent and verified" on the sender's screen means that every file is whole and
\* closed on the receiver's disk, unless the hasher itself failed to give a digest
\* (receiver.ts, finish: it catches the rejection and goes by the count).
THEOREM CompleteIsSaved == Spec => [](CompleteMeansSaved \/ broken)
<1>1. CompleteInv /\ ExactInv => CompleteMeansSaved \/ broken
  <2> SUFFICES ASSUME CompleteInv, ExactInv, ~broken, sState = "complete"
               PROVE  \A f \in File : fate[f] = "saved" /\ disk[f] = Content(f)
    BY DEF CompleteMeansSaved
  <2>1. Whole
    BY DEF CompleteInv
  <2>2. \A f \in File : f < index
    BY <2>1, SizesOK DEF Whole
  <2> QED BY <2>1, <2>2 DEF Whole, ExactInv, FilesOK
<1> QED BY <1>1, CompleteInvariant, ExactInvariant, PTL

\* Where the hasher always gives its digest, nothing is excepted.
THEOREM DigestedIsSaved ==
  ASSUME "digest" \notin Events
  PROVE  Spec => []CompleteMeansSaved
<1>1. CompleteInv /\ (CompleteMeansSaved \/ broken) => CompleteMeansSaved
  BY DEF CompleteInv
<1> QED BY <1>1, CompleteInvariant, CompleteIsSaved, PTL

-----------------------------------------------------------------------------
(* How a transfer ends *)

\* TRANSFER_COMPLETE is on its way to the receiver.
Tells(queue) == \E i \in DOMAIN queue : queue[i].type = "TRANSFER_COMPLETE"

\* A loop that has announced the end is over, a batch that is rejected was never
\* accepted, and a sender that gave up has closed its side.
EndInv ==
  /\ Tells(toReceiver) \/ finishing # "no" => loop = "done"
  /\ Sent("MANIFEST_REJECT") => loop = "idle" /\ ~Sent("MANIFEST_ACCEPT") /\ ~rOpen
  /\ sState \in {"failed", "declined"} => ~sOpen /\ ~sHasher
  /\ cancelled => ~sOpen

\* What a step of the sender may do to the transfer unless a message decides it.
MayThrow ==
  /\ Tells(toReceiver') => Tells(toReceiver)
  /\ sOpen' => sOpen
  /\ sHasher' => sHasher
  /\ \/ sState' = sState
     \/ sState \notin SDone /\ sState' = "failed" /\ ~sOpen' /\ ~sHasher'

LEMMA TellsSent ==
  ASSUME NEW q \in Seq(ExactMsg), NEW m \in ExactMsg, m.type # "TRANSFER_COMPLETE", NEW open,
         Tells(SendControl(open, q, m))
  PROVE  Tells(q)
<1>1. CASE open
  <2>1. \E i \in DOMAIN Append(q, m) : Append(q, m)[i].type = "TRANSFER_COMPLETE"
    BY <1>1 DEF Tells, SendControl
  <2>2. \A i \in DOMAIN Append(q, m) : Append(q, m)[i] = m \/ (i \in DOMAIN q /\ Append(q, m)[i] = q[i])
    OBVIOUS
  <2> QED BY <2>1, <2>2 DEF Tells
<1>2. CASE ~open
  BY <1>2 DEF Tells, SendControl
<1> QED BY <1>1, <1>2

LEMMA ThrowEnds ==
  ASSUME toReceiver \in Seq(ExactMsg), Throw
  PROVE  MayThrow /\ loop' = "done"
<1> DEFINE m == [type |-> "TRANSFER_FAILED"]
<1>1. m \in ExactMsg /\ m.type # "TRANSFER_COMPLETE"
  BY MessagesOK
<1>2. toReceiver' = SendControl(sOpen, toReceiver, m)
  BY DEF Throw
<1> HIDE DEF m
<1>3. Tells(toReceiver') => Tells(toReceiver)
  BY <1>1, <1>2, TellsSent
<1> QED BY <1>3 DEF Throw, SFail, MayThrow, SDone

LEMMA ContinueEnds ==
  ASSUME toReceiver \in Seq(ExactMsg), NEW off, NEW held, NEW buffered, Continue(off, held, buffered)
  PROVE  MayThrow
<1>1. Throw \/ UNCHANGED <<toReceiver, sState, sStatus, sOpen, sHasher>>
  BY DEF Continue
<1> QED BY <1>1, ThrowEnds DEF MayThrow

LEMMA FailEnds == SFail /\ UNCHANGED toReceiver => MayThrow
BY DEF SFail, MayThrow, SDone

\* Every step of the sender but the four that a message, or the last digest, decides.
LEMMA SenderEnds ==
  ASSUME toReceiver \in Seq(ExactMsg), SenderNext,
         ~(OnAccept \/ OnReject \/ OnTransferVerified \/ DigestReady \/ Flushed)
  PROVE  /\ MayThrow
         /\ loop \in {"idle", "done"} => loop' = loop
         /\ cancelled' = cancelled \/ ~sOpen'
<1>1. CASE HasherReady \/ ChunkHashed \/ Drained
  <2>1. /\ loop \in {"init", "hash", "drain"} /\ cancelled' = cancelled
        /\ \E off, held, buffered : Continue(off, held, buffered)
    BY <1>1 DEF HasherReady, ChunkHashed, Drained
  <2> QED BY <2>1, ContinueEnds
<1>2. CASE ChunkRead \/ ReadFails \/ FlushBroken
  <2>1. /\ loop \in {"init", "read", "hash", "final", "flush"} /\ cancelled' = cancelled
        /\ Throw \/ UNCHANGED <<toReceiver, sState, sOpen, sHasher>>
    BY <1>2 DEF ChunkRead, ReadFails, FlushBroken
  <2> QED BY <2>1, ThrowEnds DEF MayThrow
<1>3. CASE OnResume \/ Resume
  <2>1. /\ cancelled' = cancelled
        /\ \/ loop = "hold" /\ Continue(offset, FALSE, bufferedAmount)
           \/ UNCHANGED <<loop, toReceiver, sState, sOpen, sHasher>>
    BY <1>3 DEF OnResume, Resume, Wake
  <2>2. CASE loop = "hold" /\ Continue(offset, FALSE, bufferedAmount)
    BY <2>1, <2>2, ContinueEnds
  <2>3. CASE UNCHANGED <<loop, toReceiver, sState, sOpen, sHasher>>
    BY <2>1, <2>3 DEF MayThrow
  <2> QED BY <2>1, <2>2, <2>3
<1>4. CASE SOnTransferFailed \/ SenderLoss
  <2>1. /\ UNCHANGED <<loop, cancelled, toReceiver>>
        /\ SFail \/ (sOpen' = FALSE /\ UNCHANGED <<sState, sHasher>>)
    BY <1>4 DEF SOnTransferFailed, SenderLoss, SChannelsClose, SConnectionFails
  <2> QED BY <2>1, FailEnds DEF MayThrow
<1>5. CASE Cancel
  BY <1>5 DEF Cancel, MayThrow, SDone
<1>6. CASE OnPause \/ OnFileVerified \/ Pause
  BY <1>6 DEF OnPause, OnFileVerified, Pause, MayThrow
<1> QED BY <1>1, <1>2, <1>3, <1>4, <1>5, <1>6
        DEF SenderNext, SenderLoop, SenderControl, SenderChoices

\* A sender that shows its outcome shows it for good.
LEMMA SenderKeepsEnd ==
  ASSUME SenderInv, Inv1, EndInv, SenderStep
  PROVE  EndInv' /\ (sState \in SDone => sState' = sState)
<1>0. /\ SenderNext /\ UNCHANGED receiverVars /\ toReceiver \in Seq(ExactMsg) /\ toSender \in Seq(SenderMsg)
      /\ rOpen' = rOpen
  BY DEF SenderStep, SenderInv, Inv1, ReceiverInv, HandshakeInv, SenderNext, SenderLoop, HasherReady, ChunkRead, ChunkHashed,
         DigestReady, Flushed, FlushBroken, Drained, SenderControl, OnAccept, OnPause, OnResume, OnFileVerified,
         OnTransferVerified, OnReject, SOnTransferFailed, SReceive, SenderLoss, SChannelsClose, SConnectionFails,
         SenderChoices, Pause, Resume, Cancel, ReadFails
<1>1. sState = "complete" => loop = "done"
  BY DEF Inv1, ReceiverInv, OutcomeInv, EndInv
<1>2. \A t : Sent(t)' => Sent(t)
  <2>1. toSender' = toSender \/ (toSender # <<>> /\ toSender' = Tail(toSender))
    BY <1>0 DEF SenderNext, SenderLoop, HasherReady, ChunkRead, ChunkHashed,
         DigestReady, Flushed, FlushBroken, Drained, SenderControl, OnAccept, OnPause, OnResume, OnFileVerified,
         OnTransferVerified, OnReject, SOnTransferFailed, SReceive, SenderLoss, SChannelsClose, SConnectionFails,
         SenderChoices, Pause, Resume, Cancel, ReadFails
  <2> QED BY <1>0, <2>1, QueueShrinks DEF Sent
<1>3. finishing' = finishing
  BY <1>0 DEF receiverVars
<1>4. CASE OnAccept
  <2>1. /\ loop = "idle" /\ sOpen /\ sOpen' = sOpen /\ sState' = "transferring" /\ cancelled' = cancelled
        /\ toReceiver' = SendControl(sOpen, toReceiver, [type |-> "TRANSFER_START"])
        /\ toSender # <<>> /\ Head(toSender).type = "MANIFEST_ACCEPT"
    BY <1>4 DEF OnAccept, SReceive
  <2>2. Sent("MANIFEST_ACCEPT")
    BY <1>0, <2>1, QueueShrinks DEF Sent
  <2>3. Tells(toReceiver') => Tells(toReceiver)
    <3> DEFINE m == [type |-> "TRANSFER_START"]
    <3>1. m \in ExactMsg /\ m.type # "TRANSFER_COMPLETE"
      BY MessagesOK
    <3> HIDE DEF m
    <3>2. toReceiver' = SendControl(sOpen, toReceiver, m)
      BY <2>1 DEF m
    <3> QED BY <1>0, <3>1, <3>2, TellsSent
  <2> QED BY <1>0, <1>1, <1>2, <1>3, <2>1, <2>2, <2>3 DEF EndInv, SDone
<1>5. CASE OnReject
  <2>1. /\ UNCHANGED <<loop, toReceiver, cancelled>> /\ sState' = "declined" /\ ~sOpen' /\ ~sHasher' /\ sOpen
        /\ toSender # <<>> /\ Head(toSender).type = "MANIFEST_REJECT"
    BY <1>5 DEF OnReject, SReceive
  <2>2. Sent("MANIFEST_REJECT")
    BY <1>0, <2>1, QueueShrinks DEF Sent
  <2> QED BY <1>0, <1>1, <1>2, <1>3, <2>1, <2>2 DEF EndInv, SDone
<1>6. CASE OnTransferVerified
  <2>1. UNCHANGED <<loop, toReceiver, cancelled, sOpen, sHasher>> /\ sState' = "complete" /\ sOpen
    BY <1>6 DEF OnTransferVerified, SReceive
  <2> QED BY <1>0, <1>2, <1>3, <2>1 DEF EndInv, SDone
<1>7. CASE DigestReady
  <2>1. /\ loop = "final" /\ sHasher /\ loop' \in {"init", "flush", "done"} /\ UNCHANGED <<cancelled, sOpen>>
        /\ sState' \in {sState, "verifying"} /\ (sState' # sState => ~cancelled)
        /\ toReceiver' = SendControl(sOpen, toReceiver, [type |-> "FILE_DONE", file |-> current, sha |-> hashed])
    BY <1>7 DEF DigestReady, OpenFile
  <2>2. Tells(toReceiver') => Tells(toReceiver)
    <3> DEFINE m == [type |-> "FILE_DONE", file |-> current, sha |-> hashed]
    <3>1. current \in File /\ hashed = Content(current)
      BY <2>1, PrefixWhole DEF SenderInv, Sending
    <3>2. m \in ExactMsg /\ m.type # "TRANSFER_COMPLETE"
      BY <3>1, MessagesOK
    <3> HIDE DEF m
    <3>3. toReceiver' = SendControl(sOpen, toReceiver, m)
      BY <2>1 DEF m
    <3> QED BY <1>0, <3>2, <3>3, TellsSent
  <2>3. sState \notin SDone
    BY <1>1, <2>1 DEF EndInv, SDone
  <2> QED BY <1>0, <1>2, <1>3, <2>1, <2>2, <2>3 DEF EndInv, SDone
<1>8. CASE Flushed
  <2>1. loop = "flush" /\ loop' = "done" /\ UNCHANGED <<sState, cancelled, sOpen, sHasher>>
    BY <1>8 DEF Flushed
  <2> QED BY <1>0, <1>2, <1>3, <2>1 DEF EndInv
<1>9. CASE ~(OnAccept \/ OnReject \/ OnTransferVerified \/ DigestReady \/ Flushed)
  <2>1. /\ MayThrow
        /\ loop \in {"idle", "done"} => loop' = loop
        /\ cancelled' = cancelled \/ ~sOpen'
    BY <1>0, <1>9, SenderEnds
  <2> QED BY <1>0, <1>2, <1>3, <2>1 DEF EndInv, MayThrow, SDone
<1> QED BY <1>4, <1>5, <1>6, <1>7, <1>8, <1>9

\* Of the receiver's steps only Decline rejects the batch.
LEMMA RejectedByDecline ==
  ASSUME toSender \in Seq(SenderMsg), index \in Nat, task # "idle" => index \in File, ReceiverNext, ~Decline,
         Sent("MANIFEST_REJECT")'
  PROVE  Sent("MANIFEST_REJECT")
<1> DEFINE Rejects(q) == \E i \in DOMAIN q : q[i].type = "MANIFEST_REJECT"
<1>1. ASSUME NEW q \in Seq(SenderMsg), NEW m \in SenderMsg, m.type # "MANIFEST_REJECT", NEW open
      PROVE  /\ SendControl(open, q, m) \in Seq(SenderMsg)
             /\ Rejects(SendControl(open, q, m)) => Rejects(q)
  <2>1. CASE SendControl(open, q, m) = q
    BY <2>1
  <2>2. CASE SendControl(open, q, m) = Append(q, m)
    BY <1>1, <2>2, QueueGrows
  <2> QED BY <2>1, <2>2, SendControlIs
<1>2. Rejects(toSender') /\ (Sent("MANIFEST_REJECT") <=> Rejects(toSender))
  BY DEF Sent
<1> HIDE DEF Rejects
<1>3. ASSUME NEW t \in {"MANIFEST_ACCEPT", "PAUSE", "RESUME", "TRANSFER_VERIFIED", "TRANSFER_FAILED"}, NEW open,
             NEW q \in Seq(SenderMsg), Rejects(SendControl(open, q, [type |-> t]))
      PROVE  Rejects(q)
  <2> DEFINE m == [type |-> t]
  <2>1. m \in SenderMsg /\ m.type # "MANIFEST_REJECT"
    BY SenderMsgOK
  <2> HIDE DEF m
  <2> QED BY <1>1, <1>3, <2>1 DEF m
<1>4. ASSUME NEW q \in Seq(SenderMsg), ChunkDone(q) PROVE Rejects(q)
  <2>1. toSender' = q \/ toSender' = SendControl(rOpen', q, [type |-> "RESUME"])
    BY <1>4 DEF ChunkDone
  <2> QED BY <1>2, <1>3, <2>1
<1>5. CASE UNCHANGED toSender
  BY <1>2, <1>5
<1>6. CASE ChunkDone(toSender)
  BY <1>2, <1>4, <1>6
<1>7. CASE ConsumeStart \/ PieceWritten \/ PieceHashed \/ NextFileReady \/ PieceFails \/ NextFileFails
  <2>1. UNCHANGED toSender \/ ChunkDone(toSender) \/ FailChunk \/ \E ps, statuses : Advance(ps, statuses)
    BY <1>7 DEF ConsumeStart, PieceWritten, PieceHashed, NextFileReady, PieceFails, NextFileFails
  <2>2. UNCHANGED toSender \/ ChunkDone(toSender)
    BY <2>1 DEF FailChunk, Advance
  <2> QED BY <1>5, <1>6, <2>2
<1>8. CASE Finish
  <2>1. \/ UNCHANGED toSender
        \/ \E t \in {"TRANSFER_VERIFIED", "TRANSFER_FAILED"} : toSender' = SendControl(rOpen, toSender, [type |-> t])
    BY <1>8 DEF Finish
  <2> QED BY <1>2, <1>3, <1>5, <2>1
<1>9. CASE FileCloses
  <2> DEFINE m == [type |-> "FILE_VERIFIED", file |-> index]
             q == SendControl(rOpen, toSender, m)
  <2>1. index \in File
    BY <1>9 DEF FileCloses
  <2>2. m \in SenderMsg /\ m.type # "MANIFEST_REJECT"
    BY <2>1, SenderMsgOK
  <2>3. q \in Seq(SenderMsg) /\ (Rejects(q) => Rejects(toSender))
    <3> HIDE DEF m
    <3> QED BY <1>1, <2>2 DEF q
  <2>4. toSender' = q \/ ChunkDone(q)
    BY <1>9 DEF FileCloses
  <2> HIDE DEF q
  <2> QED BY <1>2, <1>4, <2>3, <2>4
<1>10. CASE Mismatch \/ CloseFails
  BY <1>6, <1>10 DEF Mismatch, CloseFails
<1>11. CASE ChunkArrives
  <2>1. toSender' = toSender \/ toSender' = SendControl(TRUE, toSender, [type |-> "PAUSE"])
    BY <1>11 DEF ChunkArrives, SendControl
  <2> QED BY <1>2, <1>3, <2>1
<1>12. CASE Accepted
  <2>1. toSender' = SendControl(rOpen, toSender, [type |-> "MANIFEST_ACCEPT"])
    BY <1>12 DEF Accepted
  <2> QED BY <1>2, <1>3, <2>1
<1>13. CASE \/ DigestComputed \/ NextFileOpens \/ TailArrives \/ ReceiverLoss \/ DigestFails
            \/ ReceiverControl \/ AcceptFails \/ DialogDismissed \/ RCancel
            \/ Accept \/ DestinationOpens \/ FirstFileOpens
  <2>1. UNCHANGED toSender
    BY <1>13 DEF DigestComputed, NextFileOpens, TailArrives, ReceiverLoss, RChannelsClose, RConnectionFails,
               DigestFails, ReceiverControl, OnTransferStart, OnFileDone, OnTransferComplete, RReceive,
               ROnTransferFailed, AcceptFails, DialogDismissed, RCancel, Accept, DestinationOpens, FirstFileOpens
  <2> QED BY <1>5, <2>1
<1> QED BY <1>7, <1>8, <1>9, <1>10, <1>11, <1>12, <1>13
        DEF ReceiverNext, ReceiverMicrotask, ReceiverTask, ReceiverQueue, ReceiverFaults, ReceiverAccepts

\* A receiver that is closed stays closed, and starts to finish when it is told.
LEMMA ReceiverMoves ==
  ASSUME toReceiver \in Seq(ExactMsg), ReceiverNext
  PROVE  /\ rOpen' => rOpen
         /\ sOpen' = sOpen
         /\ Tells(toReceiver') => Tells(toReceiver)
         /\ finishing' # "no" => finishing # "no" \/ Tells(toReceiver)
<1>1. ASSUME NEW state, NEW s, NEW fates, NEW statuses, RFailFrom(state, s, fates, statuses)
      PROVE  rOpen' => rOpen
  BY <1>1 DEF RFailFrom
<1>2. CASE ReceiverControl
  <2>1. /\ toReceiver # <<>> /\ toReceiver' = Tail(toReceiver) /\ sOpen' = sOpen
        /\ finishing' = finishing \/ Head(toReceiver).type = "TRANSFER_COMPLETE"
        /\ rOpen' = rOpen \/ RFailFrom("failed", sink, fate, rStatus)
    BY <1>2 DEF ReceiverControl, OnTransferStart, OnFileDone, OnTransferComplete, RReceive,
                ROnTransferFailed, failing, RFail
  <2>2. /\ DOMAIN Tail(toReceiver) = 1 .. Len(toReceiver) - 1
        /\ \A i \in 1 .. Len(toReceiver) - 1 : i + 1 \in DOMAIN toReceiver /\ Tail(toReceiver)[i] = toReceiver[i + 1]
        /\ 1 \in DOMAIN toReceiver /\ Head(toReceiver) = toReceiver[1]
    BY <2>1
  <2>3. Tells(Tail(toReceiver)) => Tells(toReceiver)
    BY <2>2 DEF Tells
  <2>4. Head(toReceiver).type = "TRANSFER_COMPLETE" => Tells(toReceiver)
    BY <2>2 DEF Tells
  <2> QED BY <1>1, <2>1, <2>3, <2>4
<1>3. CASE ConsumeStart \/ ReceiverQueue \/ PieceFails \/ DigestFails \/ CloseFails \/ NextFileFails
  <2>1. /\ UNCHANGED <<toReceiver, sOpen, finishing>>
        /\ rOpen' = rOpen \/ \E state, s, fates, statuses : RFailFrom(state, s, fates, statuses)
    BY <1>3 DEF ConsumeStart, ReceiverQueue, PieceWritten, PieceHashed, DigestComputed, Mismatch, FileCloses,
                NextFileOpens, NextFileReady, PieceFails, DigestFails, CloseFails, NextFileFails, FailChunk,
                RFail, Advance, failing, transport
  <2> QED BY <1>1, <2>1
<1>4. CASE Finish \/ TailArrives \/ ChunkArrives
  <2>1. /\ UNCHANGED <<toReceiver, sOpen>> /\ (finishing' # "no" => finishing # "no")
        /\ rOpen' = rOpen \/ ~rOpen' \/ \E state, s, fates, statuses : RFailFrom(state, s, fates, statuses)
    BY <1>4 DEF Finish, MustFinish, TailArrives, ChunkArrives, RFail, failing, transport
  <2> QED BY <1>1, <2>1
<1>5. CASE ReceiverAccepts \/ ReceiverLoss \/ AcceptFails \/ DialogDismissed \/ Decline \/ RCancel
  <2>1. /\ UNCHANGED <<toReceiver, sOpen, finishing>>
        /\ rOpen' = rOpen \/ ~rOpen' \/ \E state, s, fates, statuses : RFailFrom(state, s, fates, statuses)
    BY <1>5 DEF ReceiverAccepts, Accept, DestinationOpens, FirstFileOpens, Accepted, ReceiverLoss, RChannelsClose,
                RConnectionFails, AcceptFails, DialogDismissed, Decline, RCancel, RFail, failing, queueing, losing,
                transport
  <2> QED BY <1>1, <2>1
<1> QED BY <1>2, <1>3, <1>4, <1>5 DEF ReceiverNext, ReceiverMicrotask, ReceiverTask, ReceiverFaults

LEMMA ReceiverKeepsEnd ==
  ASSUME SenderInv, Inv1, QueueInv, EndInv, ReceiverStep
  PROVE  EndInv'
<1>0. /\ ReceiverNext /\ UNCHANGED <<loop, sState, sHasher, cancelled>>
      /\ toReceiver \in Seq(ExactMsg) /\ toSender \in Seq(SenderMsg) /\ index \in Nat /\ (task # "idle" => index \in File)
  BY BatchOK DEF ReceiverStep, senderVars, SenderInv, Inv1, ReceiverInv, HandshakeInv
<1>1. /\ rOpen' => rOpen
      /\ sOpen' = sOpen
      /\ Tells(toReceiver') => Tells(toReceiver)
      /\ finishing' # "no" => finishing # "no" \/ Tells(toReceiver)
  BY <1>0, ReceiverMoves
<1>2. ~rOpen => UNCHANGED toSender
  BY <1>0, ClosedIsSilent
<1>3. ASSUME Sent("MANIFEST_REJECT")' PROVE loop = "idle" /\ ~Sent("MANIFEST_ACCEPT")' /\ ~rOpen'
  <2>1. CASE ~rOpen
    BY <1>1, <1>2, <1>3, <2>1 DEF EndInv, Sent
  <2>2. CASE rOpen
    <3>1. Decline
      BY <1>0, <1>3, <2>2, RejectedByDecline DEF EndInv
    <3>2. accepting # "yes" /\ ~rOpen' /\ toSender' = SendControl(rOpen, toSender, [type |-> "MANIFEST_REJECT"])
      BY <3>1 DEF Decline, QueueInv
    <3>3. loop = "idle" /\ ~Sent("MANIFEST_ACCEPT")
      BY <3>2 DEF Inv1, ReceiverInv, HandshakeInv
    <3>4. Quiet
      BY <1>0, <3>2, QuietSend
    <3> QED BY <3>2, <3>3, <3>4 DEF Quiet
  <2> QED BY <2>1, <2>2
<1>4. Tells(toReceiver') \/ finishing' # "no" => loop = "done"
  BY <1>1 DEF EndInv
<1> QED BY <1>0, <1>1, <1>3, <1>4 DEF EndInv

LEMMA EndStep == SenderInv /\ Inv1 /\ QueueInv /\ EndInv /\ [Next]_vars => EndInv'
<1> SUFFICES ASSUME SenderInv, Inv1, QueueInv, EndInv, [Next]_vars PROVE EndInv'
  OBVIOUS
<1>1. CASE NetworkStep \/ UNCHANGED vars
  <2>1. UNCHANGED <<senderVars, receiverVars, toReceiver, toSender, sOpen, rOpen>>
    BY <1>1 DEF NetworkStep, Transmit, Corrupt, LinkDown, vars, channelVars
  <2> QED BY <2>1 DEF EndInv, Sent, senderVars, receiverVars
<1> QED BY <1>1, SenderKeepsEnd, ReceiverKeepsEnd DEF Next

LEMMA EndInvariant == Spec => []EndInv
<1>1. Init => EndInv
  BY DEF Init, ChannelsInit, SenderInit, ReceiverInit, EndInv, Tells, Sent
<1> QED BY <1>1, EndStep, SenderInvariant, Inv1Invariant, QueueInvariant, PTL DEF Spec

-----------------------------------------------------------------------------
(* What the two engines promise *)

LEMMA TickedCount ==
  ASSUME NEW statuses, NEW n \in 1 .. Len(Sizes) + 1, Ticked(statuses, n)
  PROVE  Cardinality({f \in File : statuses[f] = "verified"}) = n - 1
<1>0. Len(Sizes) \in Nat /\ n - 1 \in Int
  BY BatchOK
<1>1. {f \in File : statuses[f] = "verified"} = 1 .. n - 1
  <2>1. {f \in File : statuses[f] = "verified"} = {f \in File : f < n}
    BY DEF Ticked
  <2>2. File = 1 .. Len(Sizes)
    BY DEF File
  <2>3. {f \in 1 .. Len(Sizes) : f < n} = 1 .. n - 1
    BY <1>0
  <2> QED BY <2>1, <2>2, <2>3
<1> DEFINE m == n - 1
<1>2. m \in Nat /\ Cardinality(1 .. m) = IF 1 > m THEN 0 ELSE m - 1 + 1
  <2>1. m \in Nat
    BY <1>0
  <2> HIDE DEF m
  <2> QED BY <2>1, FS_Interval
<1>3. Cardinality(1 .. m) = m
  <2> HIDE DEF m
  <2> QED BY <1>2
<1> QED BY <1>1, <1>3

\* A failure stays, and a file is saved while neither outcome changes.
LEMMA ReceiverTurns ==
  ASSUME Inv1, QueueInv, SyncInv, ReceiverNext
  PROVE  /\ aborted => aborted'
         /\ \/ index' = index
            \/ index' = index + 1 /\ index \in File /\ ~verified /\ UNCHANGED <<aborted, verified>>
<1>0. verified => task \in {"idle", "write"}
  BY DEF QueueInv
<1>1. ASSUME NEW state, NEW s, NEW fates, NEW statuses, RFailFrom(state, s, fates, statuses)
      PROVE  aborted => aborted'
  BY <1>1 DEF RFailFrom
<1>2. CASE FileCloses
  BY <1>0, <1>2 DEF FileCloses, Inv1, ReceiverInv, HandshakeInv
<1>3. CASE \/ ConsumeStart \/ PieceWritten \/ PieceHashed \/ DigestComputed \/ Mismatch
           \/ NextFileOpens \/ NextFileReady \/ PieceFails \/ DigestFails \/ CloseFails \/ NextFileFails
  <2>1. index' = index
    BY <1>3 DEF ConsumeStart, PieceWritten, PieceHashed, DigestComputed, Mismatch, NextFileOpens,
                NextFileReady, PieceFails, DigestFails, CloseFails, NextFileFails
  <2>2. aborted' = aborted \/ \E state, s, fates, statuses : RFailFrom(state, s, fates, statuses)
    BY <1>3 DEF ConsumeStart, PieceWritten, PieceHashed, DigestComputed, Mismatch, NextFileOpens,
                NextFileReady, PieceFails, DigestFails, CloseFails, NextFileFails, FailChunk, RFail,
                Advance, failing
  <2> QED BY <1>1, <2>1, <2>2
<1>4. CASE DestinationOpens
  BY <1>4 DEF DestinationOpens, failing, Inv1, ReceiverInv, HandshakeInv
<1>5. CASE \/ Finish \/ ChunkArrives \/ TailArrives \/ ReceiverControl \/ Accept \/ FirstFileOpens \/ Accepted
           \/ ReceiverLoss \/ AcceptFails \/ DialogDismissed \/ Decline \/ RCancel
  <2>1. index' = index
    BY <1>5 DEF Finish, ChunkArrives, TailArrives, ReceiverControl, OnTransferStart, OnFileDone,
       OnTransferComplete, ROnTransferFailed, RReceive, Accept, FirstFileOpens, Accepted, ReceiverLoss,
       RChannelsClose, RConnectionFails, losing, AcceptFails, DialogDismissed, Decline, RCancel
  <2>2. aborted' = aborted \/ \E state, s, fates, statuses : RFailFrom(state, s, fates, statuses)
    BY <1>5 DEF Finish, ChunkArrives, TailArrives, ReceiverControl, OnTransferStart, OnFileDone,
       OnTransferComplete, ROnTransferFailed, RReceive, Accept, FirstFileOpens, Accepted, ReceiverLoss,
       RChannelsClose, RConnectionFails, AcceptFails, DialogDismissed, Decline, RCancel, failing, RFail
  <2> QED BY <1>1, <2>1, <2>2
<1> QED BY <1>2, <1>3, <1>4, <1>5
        DEF ReceiverNext, ReceiverMicrotask, ReceiverTask, ReceiverQueue, ReceiverFaults, ReceiverAccepts

LEMMA FinishesWhole ==
  ASSUME Inv1, QueueInv, SyncInv, ReceiverNext, ~verified, verified'
  PROVE  UNCHANGED <<index, aborted>> /\ ~aborted /\ (broken \/ index = Len(Sizes) + 1)
<1>1. Finish
  BY VerifiedOnlyByFinish
<1>2. ~aborted /\ received = TotalBytes /\ UNCHANGED <<index, aborted>>
  BY <1>1 DEF Finish
<1> QED BY <1>1, <1>2, QueueFactsHold, FinishIsWhole DEF Inv1

\* A cancelled sender stays so, and has no outcome but the one it had.
LEMMA SenderTurns ==
  ASSUME SenderInv, Inv1, EndInv, SenderStep
  PROVE  /\ cancelled => cancelled'
         /\ sState \in SDone => sState' = sState
         /\ sState' = "complete" => sState = "complete" \/ (~cancelled /\ verified)
<1>1. sState \in SDone => sState' = sState
  BY SenderKeepsEnd
<1>2. cancelled => cancelled'
  BY DEF SenderStep, SenderNext, SenderLoop, HasherReady, ChunkRead, ChunkHashed, DigestReady, Flushed,
         FlushBroken, Drained, SenderControl, OnAccept, OnPause, OnResume, OnFileVerified,
         OnTransferVerified, OnReject, SOnTransferFailed, SReceive, SenderLoss, SChannelsClose,
         SConnectionFails, SenderChoices, Pause, Resume, Cancel, ReadFails
<1>3. sState' = "complete" => sState = "complete" \/ Sent("TRANSFER_VERIFIED")
  BY SenderHears DEF Inv1, ReceiverInv, HandshakeInv
<1>4. sState' = "complete" /\ sState # "complete" => sOpen
  <2>1. CASE OnTransferVerified
    BY <2>1 DEF OnTransferVerified, SReceive
  <2>2. CASE OnAccept \/ OnReject \/ DigestReady \/ Flushed
    BY <2>2 DEF OnAccept, OnReject, DigestReady, Flushed
  <2>3. CASE ~(OnAccept \/ OnReject \/ OnTransferVerified \/ DigestReady \/ Flushed)
    <3>1. MayThrow
      BY <2>3, SenderEnds DEF SenderStep, SenderInv
    <3> QED BY <3>1 DEF MayThrow
  <2> QED BY <2>1, <2>2, <2>3
<1> QED BY <1>1, <1>2, <1>3, <1>4 DEF EndInv, Inv1, ReceiverInv, OutcomeInv

\* How many files are saved.
Saved == Cardinality({f \in File : rStatus[f] = "verified"})

\* A step of the receiver saves a file, ends the batch, or is none of the contract's.
LEMMA ReceiverPromises ==
  ASSUME SenderInv, Inv1, QueueInv, SyncInv, CompleteInv, "digest" \notin Events, ReceiverStep
  PROVE  Promise!DeliveryNext \/ UNCHANGED <<Saved, ReceiverOutcome, SenderOutcome>>
<1>0. /\ ReceiverNext /\ UNCHANGED <<sState, cancelled>> /\ index \in 1 .. Len(Sizes) + 1 /\ ~broken
      /\ Len(Sizes) \in Nat /\ verified \in BOOLEAN /\ aborted \in BOOLEAN
  BY BatchOK DEF ReceiverStep, senderVars, Inv1, ReceiverInv, HandshakeInv, OutcomeInv, CompleteInv
<1>1. Inv1' /\ SyncInv'
  BY <1>0, Inv1Step, QueueFactsHold, ReceiverSync DEF Next, Inv1
<1>2. Saved = index - 1 /\ Saved' = index' - 1
  <2>1. Ticked(rStatus, index) /\ Ticked(rStatus', index') /\ index' \in 1 .. Len(Sizes) + 1
    BY <1>1 DEF SyncInv, Rows, Inv1, ReceiverInv, HandshakeInv
  <2> QED BY <1>0, <2>1, TickedCount DEF Saved
<1>3. SenderOutcome' = SenderOutcome
  BY <1>0 DEF SenderOutcome
<1>4. /\ aborted => aborted' /\ ~verified
      /\ aborted' => ~verified'
      /\ verified' \in BOOLEAN /\ aborted' \in BOOLEAN
  BY <1>0, <1>1, ReceiverTurns DEF Inv1, ReceiverInv, OutcomeInv
<1>5. verified => verified'
  BY <1>0, VerifiedOnlyByFinish DEF Finish
<1>6. CASE index' = index + 1 /\ index \in File /\ ~verified /\ UNCHANGED <<aborted, verified>>
  <2>1. ReceiverOutcome' = ReceiverOutcome /\ ReceiverOutcome # "complete"
    BY <1>6 DEF ReceiverOutcome
  <2>2. Saved < Len(Sizes) /\ Saved' = Saved + 1
    BY <1>0, <1>2, <1>6 DEF File
  <2> QED BY <1>3, <2>1, <2>2 DEF Promise!DeliveryNext, Promise!Save, Saved
<1>7. CASE index' = index
  <2>1. Saved' = Saved
    BY <1>2, <1>7
  <2>2. CASE UNCHANGED <<aborted, verified>>
    BY <1>3, <2>1, <2>2 DEF ReceiverOutcome
  <2>3. CASE verified' # verified
    <3>1. ~verified /\ verified'
      BY <1>0, <1>4, <1>5, <2>3
    <3>2. ~aborted /\ index = Len(Sizes) + 1
      BY <1>0, <3>1, FinishesWhole
    <3>3. ReceiverOutcome = "working" /\ ReceiverOutcome' = "complete" /\ Saved = Len(Sizes)
      BY <1>0, <1>2, <3>1, <3>2 DEF ReceiverOutcome
    <3> QED BY <1>3, <2>1, <3>3 DEF Promise!DeliveryNext, Promise!ReceiverEnds, Saved
  <2>4. CASE aborted' # aborted /\ verified' = verified
    <3>1. ~aborted /\ aborted' /\ ~verified'
      BY <1>0, <1>4, <2>4
    <3>2. ReceiverOutcome = "working" /\ ReceiverOutcome' = "stopped"
      BY <2>4, <3>1 DEF ReceiverOutcome
    <3> QED BY <1>3, <2>1, <3>2 DEF Promise!DeliveryNext, Promise!ReceiverEnds, Saved
  <2> QED BY <2>2, <2>3, <2>4
<1> QED BY <1>0, <1>6, <1>7, ReceiverTurns

LEMMA SenderPromises ==
  ASSUME SenderInv, Inv1, EndInv, SenderStep
  PROVE  Promise!DeliveryNext \/ UNCHANGED <<Saved, ReceiverOutcome, SenderOutcome>>
<1>1. UNCHANGED <<Saved, ReceiverOutcome>>
  BY DEF SenderStep, receiverVars, Saved, ReceiverOutcome
<1>2. /\ cancelled => cancelled'
      /\ sState \in SDone => sState' = sState
      /\ sState' = "complete" => sState = "complete" \/ (~cancelled /\ verified)
  BY SenderTurns
<1>3. CASE SenderOutcome' = SenderOutcome
  BY <1>1, <1>3
<1>4. CASE SenderOutcome' # SenderOutcome
  <2>1. SenderOutcome = "working"
    BY <1>2, <1>4 DEF SenderOutcome, SDone
  <2>2. SenderOutcome' = "stopped" \/ (SenderOutcome' = "complete" /\ sState' = "complete")
    BY <1>4, <2>1 DEF SenderOutcome
  <2>3. SenderOutcome' = "complete" => ReceiverOutcome = "complete"
    BY <1>2, <2>1, <2>2 DEF SenderOutcome, ReceiverOutcome
  <2> QED BY <1>1, <2>1, <2>2, <2>3 DEF Promise!DeliveryNext, Promise!SenderEnds, Saved
<1> QED BY <1>3, <1>4

\* The two engines implement the contract of Delivery (protocol/README.md, of
\* FILE_VERIFIED and TRANSFER_VERIFIED) for every batch and every failure but that
\* of the hasher to give a digest: files are saved one at a time, the receiver is
\* complete only with all of them, the sender only after it.
THEOREM EnginesDeliver ==
  ASSUME "digest" \notin Events
  PROVE  Spec => ImplementsDelivery
<1>1. Init => Promise!DeliveryInit
  <2> SUFFICES ASSUME Init PROVE Promise!DeliveryInit
    OBVIOUS
  <2>1. /\ rStatus = [f \in File |-> "queued"] /\ ~verified /\ ~aborted
        /\ sState = "offering" /\ ~cancelled
    BY DEF Init, ReceiverInit, SenderInit
  <2>2. {f \in File : rStatus[f] = "verified"} = {}
    BY <2>1
  <2>3. Cardinality({f \in File : rStatus[f] = "verified"}) = 0
    BY <2>2, FS_EmptySet
  <2> QED BY <2>1, <2>3 DEF Promise!DeliveryInit, ReceiverOutcome, SenderOutcome, SDone
<1>2. SenderInv /\ Inv1 /\ QueueInv /\ SyncInv /\ CompleteInv /\ EndInv /\ [Next]_vars
        => Promise!DeliveryNext \/ UNCHANGED <<Saved, ReceiverOutcome, SenderOutcome>>
  <2> SUFFICES ASSUME SenderInv, Inv1, QueueInv, SyncInv, CompleteInv, EndInv, [Next]_vars
               PROVE  Promise!DeliveryNext \/ UNCHANGED <<Saved, ReceiverOutcome, SenderOutcome>>
    OBVIOUS
  <2>1. CASE NetworkStep \/ UNCHANGED vars
    BY <2>1 DEF NetworkStep, vars, senderVars, receiverVars, Saved, ReceiverOutcome, SenderOutcome
  <2> QED BY <2>1, ReceiverPromises, SenderPromises DEF Next
<1>3. SenderInv /\ Inv1 /\ QueueInv /\ SyncInv /\ CompleteInv /\ EndInv /\ [Next]_vars
        => [Promise!DeliveryNext]_<<Cardinality({f \in File : rStatus[f] = "verified"}),
                                   ReceiverOutcome, SenderOutcome>>
  BY <1>2 DEF Saved
<1> QED BY <1>1, <1>3, SenderInvariant, Inv1Invariant, QueueInvariant, SyncInvariant, CompleteInvariant,
           EndInvariant, PTL DEF Spec, ImplementsDelivery, Promise!DeliverySpec

-----------------------------------------------------------------------------
(* types *)

RowNames == {"queued", "receiving", "verified", "failed"}
Fates == {"none", "open", "saved", "discarded"}

\* What fail() changes.
EndTyped ==
  /\ rState \in RState /\ closed \in BOOLEAN /\ rHasher \in BOOLEAN /\ rOpen \in BOOLEAN
  /\ rStatus \in [File -> RowNames] /\ fate \in [File -> Fates]

\* The pieces that are left lie in the chunk being consumed, a failed batch's too.
Chunked(ps) ==
  /\ ps \in Seq(Piece)
  /\ \A k \in 1 .. Len(ps) : ps[k].offset + ps[k].length <= Len(Head(writes))
PiecesTyped == pieces \in Seq(Piece) /\ (task # "idle" => pieces # <<>> /\ Chunked(pieces))

BytesTyped ==
  /\ received \in Nat /\ rHashed \in Chunk
  /\ digests \in [File -> Chunk] /\ disk \in [File -> Chunk]

StagesTyped ==
  /\ accepting \in {"no", "dest", "open", "init", "yes"}
  /\ finishing \in {"no", "tail", "writes", "done"} /\ broken \in BOOLEAN
  /\ backlog \in Backlog

ReceiverTyped == EndTyped /\ PiecesTyped /\ BytesTyped /\ StagesTyped

LEMMA FailTyped ==
  ASSUME EndTyped, NEW state \in {"failed", "senderGone"}, NEW s \in {0, index},
         NEW fates \in [File -> Fates], NEW statuses \in [File -> RowNames],
         RFailFrom(state, s, fates, statuses)
  PROVE  EndTyped'
<1>1. Discard(s, fates) \in [File -> Fates]
  BY DEF Discard, Fates
<1>2. [statuses EXCEPT ![index] = "failed"] \in [File -> RowNames]
  BY DEF RowNames
<1> QED BY <1>1, <1>2 DEF RFailFrom, EndTyped, RState, RDone

LEMMA DoneTyped ==
  ASSUME PiecesTyped, NEW q, ChunkDone(q)
  PROVE  PiecesTyped'
<1>1. <<>> \in Seq(Piece)
  OBVIOUS
<1> QED BY <1>1 DEF ChunkDone, PiecesTyped

LEMMA FailChunkTyped ==
  ASSUME EndTyped, PiecesTyped, ReceiverInv, FailChunk
  PROVE  EndTyped' /\ PiecesTyped'
<1>1. sink \in {0, index} /\ rStatus \in [File -> RowNames] /\ fate \in [File -> Fates]
  BY DEF ReceiverInv, HandshakeInv, EndTyped
<1>2. RFailFrom("failed", sink, fate, rStatus)
  BY DEF FailChunk, RFail
<1>3. EndTyped'
  BY <1>1, <1>2, FailTyped
<1> QED BY <1>3, DoneTyped DEF FailChunk

LEMMA AdvanceTyped ==
  ASSUME EndTyped, PiecesTyped, ReceiverInv, NEW ps, Chunked(ps),
         NEW statuses \in [File -> RowNames], Advance(ps, statuses)
  PROVE  EndTyped' /\ PiecesTyped'
<1>1. sink \in {0, index} /\ fate \in [File -> Fates]
  BY DEF ReceiverInv, HandshakeInv, EndTyped
<1>2. CASE ps = <<>>
  <2>1. EndTyped'
    BY <1>2 DEF Advance, EndTyped
  <2>2. ChunkDone(toSender)
    BY <1>2 DEF Advance
  <2> QED BY <2>1, <2>2, DoneTyped
<1>3. CASE ps # <<>> /\ sink # 0 /\ rHasher /\ Head(ps).index = index
  <2>1. EndTyped'
    BY <1>3 DEF Advance, EndTyped
  <2>2. pieces' = ps /\ writes' = writes
    BY <1>3 DEF Advance
  <2>3. Chunked(pieces)' /\ pieces' \in Seq(Piece)
    BY <2>2 DEF Chunked
  <2> QED BY <1>3, <2>1, <2>2, <2>3 DEF PiecesTyped
<1>4. CASE ps # <<>> /\ ~(sink # 0 /\ rHasher /\ Head(ps).index = index)
  <2>1. RFailFrom("failed", sink, fate, statuses) /\ ChunkDone(toSender)
    BY <1>4 DEF Advance
  <2>2. EndTyped'
    BY <1>1, <2>1, FailTyped
  <2> QED BY <2>1, <2>2, DoneTyped
<1> QED BY <1>2, <1>3, <1>4

LEMMA ChunkedTail ==
  ASSUME NEW ps, Chunked(ps), ps # <<>>
  PROVE  Chunked(Tail(ps))
<1>1. /\ ps \in Seq(Piece) /\ Len(ps) \in Nat /\ Tail(ps) \in Seq(Piece) /\ Len(Tail(ps)) = Len(ps) - 1
      /\ \A k \in 1 .. Len(Tail(ps)) : Tail(ps)[k] = ps[k + 1] /\ k + 1 \in 1 .. Len(ps)
  BY DEF Chunked
<1> QED BY <1>1 DEF Chunked

\* The bytes of the piece under way.
LEMMA PieceTyped ==
  ASSUME PiecesTyped, QueueInv, task # "idle"
  PROVE  PieceBytes \in Chunk /\ Head(pieces).length \in Nat
<1> DEFINE q == Head(pieces)  c == Head(writes)
<1>1. pieces \in Seq(Piece) /\ pieces # <<>> /\ Chunked(pieces) /\ writes \in Seq(Chunk) /\ writes # <<>>
  BY DEF PiecesTyped, QueueInv
<1>2. q \in Piece /\ q = pieces[1] /\ 1 \in 1 .. Len(pieces) /\ c \in Seq(Byte)
  BY <1>1, TailOK DEF Chunk
<1>3. q.offset \in Nat /\ q.length \in Nat /\ q.offset + q.length <= Len(c)
  BY <1>1, <1>2 DEF Chunked, Piece
<1>4. PieceBytes = SubSeq(c, q.offset + 1, q.offset + q.length)
  BY DEF PieceBytes
<1> HIDE DEF q, c
<1>5. PieceBytes \in Seq(Byte)
  BY <1>2, <1>3, <1>4, SubSeqOK
<1> QED BY <1>3, <1>5 DEF Chunk, q

LEMMA SplitTyped ==
  ASSUME CursorOK(cursor), writes \in Seq(Chunk), writes # <<>>
  PROVE  Chunked(Split(Sizes, cursor, Len(Head(writes))).pieces)
<1> DEFINE l == Len(Head(writes))
           split == Split(Sizes, cursor, l)
<1>1. l \in Nat
  BY TailOK DEF Chunk
<1>2. Cuts(split.pieces, cursor.index, cursor.inFile, l, split.cur)
  BY <1>1, SplitOK
<1> HIDE DEF l, split
<1>3. split.pieces \in Seq(Piece) /\ \A k \in 1 .. Len(split.pieces) :
        split.pieces[k].offset + split.pieces[k].length <= l
  BY <1>2 DEF Cuts, PieceOK
<1> QED BY <1>3 DEF Chunked, l, split

\* The awaits of one chunk.
LEMMA EndStaysTyped ==
  ASSUME EndTyped, PiecesTyped, ReceiverInv, QueueInv, CursorOK(cursor),
         ConsumeStart \/ ReceiverQueue \/ PieceFails \/ DigestFails \/ CloseFails \/ NextFileFails
  PROVE  EndTyped' /\ PiecesTyped'
<1> USE DEF transport
<1>0. /\ index \in Nat /\ sink \in {0, index} /\ (task # "idle" => index \in File)
      /\ rStatus \in [File -> RowNames] /\ fate \in [File -> Fates]
  BY SizesOK DEF ReceiverInv, HandshakeInv, EndTyped
<1>1. CASE FailChunk
  BY <1>1, FailChunkTyped
<1>2. CASE ConsumeStart
  <2>1. CASE aborted \/ accepting \in {"no", "dest"}
    <3>1. ChunkDone(toSender) /\ UNCHANGED failing
      BY <1>2, <2>1 DEF ConsumeStart
    <3> QED BY <3>1, DoneTyped DEF EndTyped, failing
  <2>2. CASE ~(aborted \/ accepting \in {"no", "dest"})
    <3>1. FailChunk \/ Advance(Split(Sizes, cursor, Len(Head(writes))).pieces, rStatus)
      BY <1>2, <2>2 DEF ConsumeStart
    <3>2. writes \in Seq(Chunk) /\ writes # <<>>
      BY <1>2 DEF ConsumeStart, MustConsume, QueueInv
    <3>3. Chunked(Split(Sizes, cursor, Len(Head(writes))).pieces)
      BY <3>2, SplitTyped
    <3> QED BY <1>0, <1>1, <3>1, <3>3, AdvanceTyped
  <2> QED BY <2>1, <2>2
<1>3. CASE PieceWritten
  <2>1. FailChunk \/ (task' = "hash" /\ UNCHANGED <<failing, writes, pieces>> /\ task # "idle")
    BY <1>3 DEF PieceWritten
  <2> QED BY <1>1, <2>1 DEF EndTyped, PiecesTyped, Chunked, failing
<1>4. CASE PieceHashed
  <2>1. /\ task = "hash"
        /\ \/ Advance(Tail(pieces), rStatus)
           \/ UNCHANGED <<failing, writes, pieces>>
    BY <1>4 DEF PieceHashed
  <2>2. Chunked(Tail(pieces))
    BY <2>1, ChunkedTail DEF PiecesTyped
  <2>3. CASE UNCHANGED <<failing, writes, pieces>>
    BY <2>1, <2>3 DEF EndTyped, PiecesTyped, Chunked, failing
  <2> QED BY <1>0, <2>1, <2>2, <2>3, AdvanceTyped
<1>5. CASE DigestComputed
  <2>1. /\ task # "idle" /\ rHasher' = FALSE
        /\ UNCHANGED <<rState, closed, rStatus, fate, rOpen, pieces, writes>>
    BY <1>5 DEF DigestComputed
  <2> QED BY <2>1 DEF EndTyped, PiecesTyped, Chunked
<1>6. CASE Mismatch \/ CloseFails
  <2>1. /\ \E fates \in {fate, Discard(index, fate)} : RFailFrom("failed", 0, fates, rStatus)
        /\ ChunkDone(toSender)
    BY <1>6 DEF Mismatch, CloseFails
  <2>2. Discard(index, fate) \in [File -> Fates]
    BY <1>0 DEF Discard, Fates
  <2>3. EndTyped'
    BY <1>0, <2>1, <2>2, FailTyped
  <2> QED BY <2>1, <2>3, DoneTyped
<1>7. CASE FileCloses
  <2>1. fate' \in [File -> Fates] /\ rStatus' \in [File -> RowNames]
    BY <1>0, <1>7 DEF FileCloses, Fates, RowNames
  <2>2. UNCHANGED <<rState, closed, rHasher, rOpen>>
    BY <1>7 DEF FileCloses
  <2>3. EndTyped'
    BY <2>1, <2>2 DEF EndTyped
  <2>4. task = "close" /\ ((\E q : ChunkDone(q)) \/ UNCHANGED <<writes, pieces>>)
    BY <1>7 DEF FileCloses
  <2>5. PiecesTyped'
    <3>1. CASE UNCHANGED <<writes, pieces>>
      BY <2>4, <3>1 DEF PiecesTyped, Chunked
    <3> QED BY <2>4, <3>1, DoneTyped
  <2> QED BY <2>3, <2>5
<1>8. CASE NextFileOpens
  <2>1. fate' \in [File -> Fates] /\ rHasher' = TRUE
    BY <1>0, <1>8 DEF NextFileOpens, OpenCurrent, Fates
  <2>2. task = "open" /\ UNCHANGED <<rState, closed, rOpen, rStatus, writes, pieces>>
    BY <1>8 DEF NextFileOpens
  <2> QED BY <2>1, <2>2 DEF EndTyped, PiecesTyped, Chunked
<1>9. CASE NextFileReady
  <2>1. task = "init" /\ Advance(Tail(pieces), [rStatus EXCEPT ![index] = "receiving"])
    BY <1>9 DEF NextFileReady
  <2>2. [rStatus EXCEPT ![index] = "receiving"] \in [File -> RowNames]
    BY <1>0 DEF RowNames
  <2>3. Chunked(Tail(pieces))
    BY <2>1, ChunkedTail DEF PiecesTyped
  <2> QED BY <2>1, <2>2, <2>3, AdvanceTyped
<1>10. CASE PieceFails \/ NextFileFails
  BY <1>1, <1>10 DEF PieceFails, NextFileFails
<1>11. CASE DigestFails
  <2>1. task' = "idle" /\ UNCHANGED <<rState, closed, rHasher, rOpen, rStatus, fate, pieces>>
    BY <1>11 DEF DigestFails
  <2> QED BY <2>1 DEF EndTyped, PiecesTyped
<1> QED BY <1>2, <1>3, <1>4, <1>5, <1>6, <1>7, <1>8, <1>9, <1>10, <1>11 DEF ReceiverQueue

\* Everything else the receiver does.
LEMMA RestStaysTyped ==
  ASSUME EndTyped, PiecesTyped, ReceiverInv, QueueInv,
         \/ ChunkArrives \/ TailArrives \/ ReceiverControl \/ ReceiverAccepts \/ ReceiverLoss
         \/ AcceptFails \/ DialogDismissed \/ Decline \/ RCancel \/ Finish
  PROVE  EndTyped' /\ PiecesTyped'
<1> USE DEF transport, failing, queueing, losing
<1>0. /\ index \in Nat /\ sink \in {0, index} /\ (sink # 0 => index \in File)
      /\ rStatus \in [File -> RowNames] /\ fate \in [File -> Fates]
  BY SizesOK DEF ReceiverInv, HandshakeInv, EndTyped
<1>1. PiecesTyped'
  <2>1. CASE ChunkArrives
    <3>1. /\ dataNet # <<>> /\ writes' = Append(writes, Head(dataNet)) /\ UNCHANGED <<task, pieces>>
          /\ writes \in Seq(Chunk) /\ Head(dataNet) \in Chunk
      BY <2>1, TailOK DEF ChunkArrives, QueueInv
    <3>2. task # "idle" => Head(writes') = Head(writes)
      BY <3>1 DEF QueueInv
    <3> QED BY <3>1, <3>2 DEF PiecesTyped, Chunked
  <2>2. CASE OnFileDone
    <3>1. UNCHANGED <<writes, pieces>> /\ (task = "idle" => task' = "idle")
      BY <2>2 DEF OnFileDone, RReceive
    <3> QED BY <3>1 DEF PiecesTyped, Chunked
  <2>3. CASE ~ChunkArrives /\ ~OnFileDone
    <3>1. UNCHANGED <<writes, pieces, task>>
      BY <2>3 DEF TailArrives, ReceiverControl, OnTransferStart, OnTransferComplete, ROnTransferFailed,
        RReceive, ReceiverAccepts, Accept, DestinationOpens, FirstFileOpens, Accepted, ReceiverLoss,
        RChannelsClose, RConnectionFails, AcceptFails, DialogDismissed, Decline, RCancel, Finish
    <3> QED BY <3>1 DEF PiecesTyped, Chunked
  <2> QED BY <2>1, <2>2, <2>3
<1>2. EndTyped'
  <2>1. CASE \E state \in {"failed", "senderGone"} : RFail(state)
    BY <1>0, <2>1, FailTyped DEF RFail
  <2>2. CASE FirstFileOpens \/ RCancel
    <3>1. fate' \in [File -> Fates]
      BY <1>0, <2>2 DEF FirstFileOpens, OpenCurrent, RCancel, Discard, Fates
    <3>2. UNCHANGED <<rState, rStatus>> /\ closed' \in BOOLEAN /\ rHasher' \in BOOLEAN /\ rOpen' \in BOOLEAN
      BY <2>2 DEF FirstFileOpens, OpenCurrent, RCancel, EndTyped
    <3> QED BY <3>1, <3>2 DEF EndTyped
  <2>3. CASE Accepted
    <3>1. rStatus' \in [File -> RowNames]
      BY <1>0, <2>3 DEF Accepted, RowNames
    <3> QED BY <2>3, <3>1 DEF Accepted, EndTyped, RState
  <2>4. CASE Decline \/ OnTransferComplete \/ Finish
    <3>1. \/ RFail("failed")
          \/ /\ rState' \in {rState, "declined", "verifying", "complete"} /\ UNCHANGED <<rStatus, fate>>
             /\ closed' \in {closed, TRUE} /\ rHasher' \in {rHasher, FALSE} /\ rOpen' \in {rOpen, FALSE}
      BY <2>4 DEF Decline, OnTransferComplete, Finish
    <3> QED BY <2>1, <3>1 DEF EndTyped, RState, RDone
  <2>5. CASE ChunkArrives \/ TailArrives \/ OnTransferStart \/ OnFileDone \/ Accept \/ DestinationOpens \/ DialogDismissed
    <3>1. UNCHANGED <<rState, closed, rHasher, rOpen, rStatus, fate>>
      BY <2>5 DEF ChunkArrives, TailArrives, OnTransferStart, OnFileDone, Accept, DestinationOpens, DialogDismissed
    <3> QED BY <3>1 DEF EndTyped
  <2>6. CASE ROnTransferFailed \/ ReceiverLoss \/ AcceptFails
    <3>1. \/ \E state \in {"failed", "senderGone"} : RFail(state)
          \/ rOpen' = FALSE /\ UNCHANGED <<rState, closed, rHasher, rStatus, fate>>
      BY <2>6 DEF ROnTransferFailed, ReceiverLoss, RChannelsClose, RConnectionFails, AcceptFails
    <3> QED BY <2>1, <3>1 DEF EndTyped
  <2> QED BY <2>2, <2>3, <2>4, <2>5, <2>6 DEF ReceiverControl, ReceiverAccepts
<1> QED BY <1>1, <1>2

\* The bytes that are counted, hashed, parked and written.
LEMMA BytesStayTyped ==
  ASSUME BytesTyped, PiecesTyped, ReceiverInv, QueueInv, SenderInv, ReceiverNext
  PROVE  BytesTyped'
<1> USE DEF transport, failing, queueing, losing
<1>0. <<>> \in Chunk /\ \A c \in Chunk, d \in Chunk : c \o d \in Chunk
  BY DEF Chunk
<1>1. CASE PieceWritten
  <2>1. /\ disk' = [disk EXCEPT ![index] = @ \o PieceBytes] /\ index \in File /\ PieceBytes \in Chunk
        /\ UNCHANGED <<received, rHashed, digests>>
    BY <1>1, PieceTyped DEF PieceWritten, ReceiverInv, HandshakeInv
  <2>2. disk' \in [File -> Chunk]
    BY <1>0, <2>1 DEF BytesTyped
  <2> QED BY <2>1, <2>2 DEF BytesTyped
<1>2. CASE PieceHashed
  <2>1. /\ rHashed' = rHashed \o PieceBytes /\ received' = received + Head(pieces).length
        /\ PieceBytes \in Chunk /\ Head(pieces).length \in Nat
        /\ UNCHANGED <<disk, digests>>
    BY <1>2, PieceTyped DEF PieceHashed
  <2> QED BY <1>0, <2>1 DEF BytesTyped
<1>3. CASE OnFileDone
  <2>1. /\ Head(toReceiver) \in ExactMsg /\ Head(toReceiver).type = "FILE_DONE"
        /\ digests' = [digests EXCEPT ![Head(toReceiver).file] = Head(toReceiver).sha]
        /\ UNCHANGED <<received, rHashed, disk>>
    BY <1>3 DEF OnFileDone, RReceive, SenderInv
  <2>2. Head(toReceiver).file \in File /\ Head(toReceiver).sha \in Chunk
    <3>1. \A f \in File : Content(f) \in Chunk
      BY BatchOK DEF Content, Chunk, Byte
    <3> QED BY <2>1, <3>1 DEF ExactMsg
  <2> QED BY <2>1, <2>2 DEF BytesTyped
<1>4. CASE NextFileOpens \/ FirstFileOpens
  <2>1. rHashed' = <<>> /\ UNCHANGED <<received, disk, digests>>
    BY <1>4 DEF NextFileOpens, FirstFileOpens, OpenCurrent
  <2> QED BY <1>0, <2>1 DEF BytesTyped
<1>5. CASE DestinationOpens
  BY <1>5 DEF DestinationOpens, BytesTyped
<1>6. CASE \/ ConsumeStart \/ DigestComputed \/ Mismatch \/ FileCloses \/ NextFileReady
           \/ PieceFails \/ DigestFails \/ CloseFails \/ NextFileFails
  <2>1. UNCHANGED <<received, rHashed, disk, digests>>
    BY <1>6 DEF ConsumeStart, DigestComputed, Mismatch, FileCloses, NextFileReady, PieceFails, DigestFails,
                CloseFails, NextFileFails
  <2> QED BY <2>1 DEF BytesTyped
<1>7. CASE \/ ChunkArrives \/ TailArrives \/ OnTransferStart \/ OnTransferComplete \/ ROnTransferFailed
           \/ Accept \/ Accepted \/ ReceiverLoss \/ AcceptFails \/ DialogDismissed \/ Decline \/ RCancel
           \/ Finish
  <2>1. UNCHANGED <<received, rHashed, disk, digests>>
    BY <1>7 DEF ChunkArrives, TailArrives, OnTransferStart, OnTransferComplete, ROnTransferFailed, RReceive,
       Accept, Accepted, ReceiverLoss, RChannelsClose, RConnectionFails, AcceptFails, DialogDismissed,
       Decline, RCancel, Finish
  <2> QED BY <2>1 DEF BytesTyped
<1> QED BY <1>1, <1>2, <1>3, <1>4, <1>5, <1>6, <1>7
        DEF ReceiverNext, ReceiverMicrotask, ReceiverTask, ReceiverQueue, ReceiverControl,
            ReceiverAccepts, ReceiverFaults


\* Where each activity is, and the backlog.
LEMMA StagesStayTyped ==
  ASSUME StagesTyped, QueueInv', BytesInv', ReceiverNext
  PROVE  StagesTyped'
<1> USE DEF transport, failing, queueing, losing
<1>1. backlog' \in Backlog
  <2>1. backlog'.bytes \in Nat
    <3> DEFINE n == Len(FlattenSeq(writes'))
    <3>1. \E h : Bytes(writes', h) /\ n = h[Len(writes')]
      BY FlatBytes DEF QueueInv
    <3>2. Len(writes') \in Nat
      BY DEF QueueInv
    <3>3. n \in Nat
      BY <3>1, <3>2 DEF Bytes
    <3> QED BY <3>3 DEF BytesInv
  <2>2. \/ backlog' = backlog
        \/ \E n : backlog' = Arrived(backlog, n) \/ backlog' = Written(backlog, n)
    <3>1. CASE \/ ConsumeStart \/ ReceiverQueue
               \/ PieceFails \/ DigestFails \/ CloseFails \/ NextFileFails
      BY <3>1 DEF ConsumeStart, ReceiverQueue, PieceWritten, PieceHashed, DigestComputed, Mismatch,
        FileCloses, NextFileOpens, NextFileReady, PieceFails, DigestFails, CloseFails, NextFileFails,
        FailChunk, Advance, ChunkDone
    <3>2. CASE \/ ChunkArrives \/ TailArrives \/ ReceiverControl \/ ReceiverAccepts \/ ReceiverLoss
               \/ AcceptFails \/ DialogDismissed \/ Decline \/ RCancel \/ Finish
      BY <3>2 DEF ChunkArrives, TailArrives, ReceiverControl, OnTransferStart, OnFileDone, OnTransferComplete,
        ROnTransferFailed, RReceive, ReceiverAccepts, Accept, DestinationOpens, FirstFileOpens, Accepted,
        ReceiverLoss, RChannelsClose, RConnectionFails, AcceptFails, DialogDismissed, Decline, RCancel, Finish
    <3> QED BY <3>1, <3>2 DEF ReceiverNext, ReceiverMicrotask, ReceiverTask, ReceiverFaults
  <2>3. \/ backlog' = backlog
        \/ \E p \in BOOLEAN : backlog' = [bytes |-> backlog'.bytes, paused |-> p]
    <3>1. ASSUME NEW n, backlog' = Arrived(backlog, n)
          PROVE  \E p \in BOOLEAN : backlog' = [bytes |-> backlog'.bytes, paused |-> p]
      <4>1. (backlog.paused \/ MustPause(backlog, n)) \in BOOLEAN
        OBVIOUS
      <4> QED BY <3>1, <4>1 DEF Arrived
    <3>2. ASSUME NEW n, backlog' = Written(backlog, n)
          PROVE  \E p \in BOOLEAN : backlog' = [bytes |-> backlog'.bytes, paused |-> p]
      <4>1. (backlog.paused /\ ~MayResume(backlog, n)) \in BOOLEAN
        OBVIOUS
      <4> QED BY <3>2, <4>1 DEF Written
    <3> QED BY <2>2, <3>1, <3>2
  <2> QED BY <2>1, <2>3 DEF Backlog, StagesTyped
<1>2. /\ accepting' \in {"no", "dest", "open", "init", "yes"}
      /\ finishing' \in {"no", "tail", "writes", "done"} /\ broken' \in BOOLEAN
  <2>1. CASE \/ ConsumeStart \/ ReceiverQueue
             \/ PieceFails \/ DigestFails \/ CloseFails \/ NextFileFails
    BY <2>1 DEF ConsumeStart, ReceiverQueue, PieceWritten, PieceHashed, DigestComputed, Mismatch,
      FileCloses, NextFileOpens, NextFileReady, PieceFails, DigestFails, CloseFails, NextFileFails, StagesTyped
  <2>2. CASE \/ ChunkArrives \/ TailArrives \/ ReceiverControl \/ ReceiverAccepts \/ ReceiverLoss
             \/ AcceptFails \/ DialogDismissed \/ Decline \/ RCancel \/ Finish
    BY <2>2 DEF ChunkArrives, TailArrives, ReceiverControl, OnTransferStart, OnFileDone, OnTransferComplete,
      ROnTransferFailed, RReceive, ReceiverAccepts, Accept, DestinationOpens, FirstFileOpens, Accepted,
      ReceiverLoss, RChannelsClose, RConnectionFails, AcceptFails, DialogDismissed, Decline, RCancel, Finish,
      StagesTyped
  <2> QED BY <2>1, <2>2 DEF ReceiverNext, ReceiverMicrotask, ReceiverTask, ReceiverFaults
<1> QED BY <1>1, <1>2 DEF StagesTyped

LEMMA ReceiverStaysTyped ==
  ASSUME ReceiverTyped, SenderInv, Inv1, QueueInv, SyncInv, ReceiverNext, QueueInv', BytesInv'
  PROVE  ReceiverTyped'
<1>1. ReceiverInv /\ CursorOK(cursor)
  BY DEF Inv1, SyncInv
<1>2. EndTyped' /\ PiecesTyped'
  BY <1>1, EndStaysTyped, RestStaysTyped
     DEF ReceiverTyped, ReceiverNext, ReceiverMicrotask, ReceiverTask, ReceiverFaults
<1>3. BytesTyped' /\ StagesTyped'
  BY <1>1, BytesStayTyped, StagesStayTyped DEF ReceiverTyped
<1> QED BY <1>2, <1>3 DEF ReceiverTyped

\* The rest of the sender; what is sent of its batch is in SenderInv.
SRowNames == {"queued", "sending", "sent", "verified", "failed"}

SenderTyped ==
  /\ sState \in SState /\ current \in {0} \cup File /\ hashed \in Chunk
  /\ sHasher \in BOOLEAN /\ sOpen \in BOOLEAN
  /\ remotePaused \in BOOLEAN /\ userPaused \in BOOLEAN /\ cancelled \in BOOLEAN
  /\ sStatus \in [File -> SRowNames]

\* Steps that fail or go on with the file being sent.
SenderMoves ==
  /\ sState' \in {sState, "failed"} /\ sOpen' \in {sOpen, FALSE} /\ sHasher' \in {sHasher, FALSE}
  /\ sStatus' \in {sStatus, [sStatus EXCEPT ![current] = "failed"]}

LEMMA SFailMoves == SFail => SenderMoves
BY DEF SFail, SenderMoves

LEMMA ThrowMoves == Throw => SenderMoves
BY DEF Throw, SFail, SenderMoves

LEMMA ContinueMoves ==
  ASSUME NEW off, NEW held, NEW buffered, Continue(off, held, buffered)
  PROVE  SenderMoves
BY ThrowMoves DEF Continue, SenderMoves

LEMMA WakeMoves ==
  ASSUME NEW remote, NEW user, Wake(remote, user)
  PROVE  SenderMoves
BY ContinueMoves DEF Wake, SenderMoves

LEMMA MovesTyped ==
  ASSUME SenderTyped, SenderMoves, UNCHANGED <<current, hashed>>,
         remotePaused' \in BOOLEAN, userPaused' \in BOOLEAN, cancelled' \in BOOLEAN
  PROVE  SenderTyped'
<1>1. [sStatus EXCEPT ![current] = "failed"] \in [File -> SRowNames]
  BY DEF SenderTyped, SRowNames
<1> QED BY <1>1 DEF SenderTyped, SenderMoves, SState, SDone

LEMMA SenderStaysTyped ==
  ASSUME SenderTyped, SenderInv, toSender \in Seq(SenderMsg), SenderNext
  PROVE  SenderTyped'
<1>0. /\ sState \in SState /\ current \in {0} \cup File /\ hashed \in Chunk
      /\ sHasher \in BOOLEAN /\ sOpen \in BOOLEAN
      /\ remotePaused \in BOOLEAN /\ userPaused \in BOOLEAN /\ cancelled \in BOOLEAN
      /\ sStatus \in [File -> SRowNames] /\ <<>> \in Chunk
  BY DEF SenderTyped, Chunk
<1>1. CASE \/ HasherReady \/ ChunkRead \/ ReadFails \/ FlushBroken \/ Drained \/ Flushed
  <2>1. UNCHANGED <<current, hashed, remotePaused, userPaused, cancelled>>
    BY <1>1 DEF HasherReady, ChunkRead, ReadFails, FlushBroken, Drained, Flushed
  <2>2. SenderMoves
    <3>1. CASE HasherReady \/ Drained
      BY <3>1, ContinueMoves DEF HasherReady, Drained
    <3>2. CASE ChunkRead \/ ReadFails \/ FlushBroken
      BY <3>2, ThrowMoves DEF ChunkRead, ReadFails, FlushBroken, SenderMoves
    <3>3. CASE Flushed
      BY <3>3 DEF Flushed, SenderMoves
    <3> QED BY <1>1, <3>1, <3>2, <3>3
  <2> QED BY <1>0, <2>1, <2>2, MovesTyped
<1>2. CASE ChunkHashed
  <2>1. /\ loop = "hash" /\ current' = current /\ UNCHANGED <<remotePaused, userPaused, cancelled>>
        /\ hashed' = hashed \o SubSeq(Content(current), offset + 1, end)
        /\ Continue(end, remotePaused \/ userPaused, bufferedAmount)
    BY <1>2 DEF ChunkHashed
  <2>2. current \in File /\ offset \in Nat /\ end \in Nat /\ offset <= end /\ end <= Sizes[current]
    BY <2>1 DEF SenderInv, Sending
  <2>3. Content(current) \in Seq(Byte) /\ Len(Content(current)) = Sizes[current]
    <3>1. current \in File /\ Sizes[current] \in Nat
      BY <2>2, BatchOK
    <3> QED BY <3>1 DEF Content, Byte
  <2>4. hashed' \in Chunk
    <3>1. SubSeq(Content(current), offset + 1, end) \in Seq(Byte)
      BY <2>2, <2>3, BatchOK
    <3> QED BY <1>0, <2>1, <3>1 DEF Chunk
  <2>5. SenderMoves
    BY <2>1, ContinueMoves
  <2>6. [sStatus EXCEPT ![current] = "failed"] \in [File -> SRowNames]
    BY <1>0 DEF SRowNames
  <2> QED BY <1>0, <2>1, <2>4, <2>5, <2>6 DEF SenderTyped, SenderMoves, SState, SDone
<1>3. CASE DigestReady
  <2>1. current \in File
    BY <1>3 DEF DigestReady, SenderInv, Sending
  <2>2. UNCHANGED <<remotePaused, userPaused, cancelled, sOpen>>
    BY <1>3 DEF DigestReady
  <2>3. CASE current < Len(Sizes) /\ ~cancelled
    <3>1. current' = current + 1 /\ hashed' = <<>> /\ sHasher' = TRUE /\ sState' = sState
      BY <1>3, <2>3 DEF DigestReady, OpenFile
    <3>2. sStatus' = [sStatus EXCEPT ![current] = "sent", ![current + 1] = "sending"]
      BY <1>3, <2>3 DEF DigestReady
    <3>3. sStatus' \in [File -> SRowNames]
      BY <1>0, <3>2 DEF SRowNames
    <3>4. current + 1 \in File
      BY <2>1, <2>3, BatchOK DEF File
    <3> QED BY <1>0, <2>2, <3>1, <3>3, <3>4 DEF SenderTyped
  <2>4. CASE ~(current < Len(Sizes) /\ ~cancelled)
    <3>1. current' \in {current, 0} /\ hashed' = hashed /\ sHasher' = FALSE /\ sState' \in {sState, "verifying"}
      BY <1>3, <2>4 DEF DigestReady
    <3>2. sStatus' = [sStatus EXCEPT ![current] = "sent"]
      BY <1>3, <2>4 DEF DigestReady
    <3>3. sStatus' \in [File -> SRowNames]
      BY <1>0, <3>2 DEF SRowNames
    <3> QED BY <1>0, <2>2, <3>1, <3>3 DEF SenderTyped, SState
  <2> QED BY <2>3, <2>4
<1>4. CASE OnAccept
  <2>1. /\ current' = 1 /\ hashed' = <<>> /\ sHasher' = TRUE /\ sState' = "transferring"
        /\ UNCHANGED <<remotePaused, userPaused, cancelled, sOpen>>
        /\ sStatus' = [sStatus EXCEPT ![1] = "sending"]
    BY <1>4 DEF OnAccept, OpenFile
  <2>2. sStatus' \in [File -> SRowNames]
    BY <1>0, <2>1 DEF SRowNames
  <2> QED BY <1>0, <2>1, <2>2, BatchOK DEF SenderTyped, SState
<1>5. CASE OnFileVerified
  <2>1. sStatus' = [sStatus EXCEPT ![Head(toSender).file] = "verified"]
    BY <1>5 DEF OnFileVerified
  <2>2. sStatus' \in [File -> SRowNames]
    BY <1>0, <2>1 DEF SRowNames
  <2>3. UNCHANGED <<sState, current, hashed, sHasher, sOpen, remotePaused, userPaused, cancelled>>
    BY <1>5 DEF OnFileVerified
  <2> QED BY <1>0, <2>2, <2>3 DEF SenderTyped
<1>6. CASE OnTransferVerified \/ OnReject
  <2>1. /\ sState' \in {"complete", "declined"} /\ sOpen' \in {sOpen, FALSE} /\ sHasher' \in {sHasher, FALSE}
        /\ UNCHANGED <<current, hashed, sStatus, remotePaused, userPaused, cancelled>>
    BY <1>6 DEF OnTransferVerified, OnReject
  <2> QED BY <1>0, <2>1 DEF SenderTyped, SState, SDone
<1>7. CASE \/ OnPause \/ OnResume \/ SOnTransferFailed \/ SenderLoss \/ Pause \/ Resume \/ Cancel
  <2>1. /\ UNCHANGED <<current, hashed>>
        /\ remotePaused' \in BOOLEAN /\ userPaused' \in BOOLEAN /\ cancelled' \in BOOLEAN
    BY <1>0, <1>7 DEF OnPause, OnResume, SOnTransferFailed, SenderLoss, SChannelsClose, SConnectionFails,
                      Pause, Resume, Cancel
  <2>2. SenderMoves
    <3>1. CASE OnResume \/ Resume
      BY <3>1, WakeMoves DEF OnResume, Resume
    <3>2. CASE SOnTransferFailed \/ SenderLoss
      BY <3>2, SFailMoves DEF SOnTransferFailed, SenderLoss, SChannelsClose, SConnectionFails, SenderMoves
    <3>3. CASE OnPause \/ Pause \/ Cancel
      BY <3>3 DEF OnPause, Pause, Cancel, SenderMoves
    <3> QED BY <1>7, <3>1, <3>2, <3>3
  <2> QED BY <2>1, <2>2, MovesTyped
<1> QED BY <1>1, <1>2, <1>3, <1>4, <1>5, <1>6, <1>7
        DEF SenderNext, SenderLoop, SenderControl, SenderChoices

\* bufferedAmount is the bytes of the chunks in the send buffer: drain() and
\* flush() wait for what is there (sender.ts).
BufferInv == bufferedAmount = Len(FlattenSeq(dataBuf))

LEMMA BufferStep ==
  ASSUME SenderInv, QueueInv, BufferInv, [Next]_vars
  PROVE  BufferInv'
<1>1. CASE UNCHANGED <<dataBuf, bufferedAmount>>
  BY <1>1 DEF BufferInv
<1>2. CASE ChunkRead /\ sOpen
  <2> DEFINE c == SubSeq(Content(current), offset + 1, end)
  <2>1. dataBuf' = Append(dataBuf, c) /\ bufferedAmount' = bufferedAmount + (end - offset) /\ loop = "read"
    BY <1>2 DEF ChunkRead
  <2>2. current \in File /\ offset \in Nat /\ end \in Nat /\ offset <= end /\ end <= Sizes[current]
    BY <2>1 DEF SenderInv, Sending
  <2>3. Content(current) \in Seq(Byte) /\ Len(Content(current)) = Sizes[current] /\ Sizes[current] \in Nat
    <3>1. current \in File /\ Sizes[current] \in Nat
      BY <2>2, BatchOK
    <3> QED BY <3>1 DEF Content, Byte
  <2>4. c \in Chunk /\ Len(c) = end - offset
    BY <2>2, <2>3 DEF Chunk
  <2> HIDE DEF c
  <2> QED BY <2>1, <2>4, FlatAppend DEF QueueInv, BufferInv
<1>3. CASE Transmit
  <2>1. /\ dataBuf # <<>> /\ dataBuf' = Tail(dataBuf)
        /\ bufferedAmount' = bufferedAmount - Len(Head(dataBuf))
    BY <1>3 DEF Transmit
  <2> QED BY <2>1, FlatTail DEF QueueInv, BufferInv
<1>4. CASE SenderStep /\ ~(ChunkRead /\ sOpen)
  <2>1. UNCHANGED <<dataBuf, bufferedAmount>>
    BY <1>4 DEF SenderStep, SenderNext, SenderLoop, HasherReady, ChunkRead, ChunkHashed,
         DigestReady, Flushed, FlushBroken, Drained, SenderControl, OnAccept, OnPause, OnResume,
         OnFileVerified, OnTransferVerified, OnReject, SOnTransferFailed, SReceive, SenderLoss,
         SChannelsClose, SConnectionFails, SenderChoices, Pause, Resume, Cancel, ReadFails
  <2> QED BY <1>1, <2>1
<1>5. CASE ReceiverStep
  <2>1. CASE ConsumeStart \/ ReceiverQueue \/ ReceiverFaults \/ Finish
    <3>1. UNCHANGED <<dataBuf, bufferedAmount>>
      BY <2>1 DEF ConsumeStart, Finish, ReceiverQueue, PieceWritten, PieceHashed, DigestComputed, Mismatch,
         FileCloses, NextFileOpens, NextFileReady, ReceiverFaults, PieceFails, DigestFails, CloseFails,
         NextFileFails, AcceptFails, DialogDismissed, Decline, RCancel, transport
    <3> QED BY <1>1, <3>1
  <2>2. CASE ChunkArrives \/ TailArrives \/ ReceiverControl \/ ReceiverAccepts \/ ReceiverLoss
    <3>1. UNCHANGED <<dataBuf, bufferedAmount>>
      BY <2>2 DEF ChunkArrives, TailArrives, ReceiverControl, OnTransferStart, OnFileDone, OnTransferComplete,
         ROnTransferFailed, RReceive, ReceiverAccepts, Accept, DestinationOpens, FirstFileOpens, Accepted,
         ReceiverLoss, RChannelsClose, RConnectionFails, transport
    <3> QED BY <1>1, <3>1
  <2> QED BY <1>5, <2>1, <2>2 DEF ReceiverStep, ReceiverNext, ReceiverMicrotask, ReceiverTask
<1>6. CASE Corrupt \/ LinkDown \/ UNCHANGED vars
  <2>1. UNCHANGED <<dataBuf, bufferedAmount>>
    BY <1>6 DEF Corrupt, LinkDown, vars, channelVars
  <2> QED BY <1>1, <2>1
<1> QED BY <1>2, <1>3, <1>4, <1>5, <1>6 DEF Next, NetworkStep

PathTyped == linkUp \in BOOLEAN /\ spent \in Nat

LEMMA PathStep == PathTyped /\ [Next]_vars => PathTyped'
<1> SUFFICES ASSUME PathTyped, [Next]_vars PROVE PathTyped'
  OBVIOUS
<1>1. CASE (linkUp' = linkUp \/ linkUp' = FALSE) /\ spent' \in {spent, spent + 1}
  <2>1. spent' \in Nat
    BY <1>1 DEF PathTyped
  <2>2. linkUp' \in BOOLEAN
    BY <1>1, Zenon DEF PathTyped
  <2> QED BY <2>1, <2>2 DEF PathTyped
<1>2. CASE SenderStep
  <2>1. (linkUp' = linkUp \/ linkUp' = FALSE) /\ spent' \in {spent, spent + 1}
    BY <1>2 DEF SenderStep, SenderNext, SenderLoop, HasherReady, ChunkRead, ChunkHashed,
         DigestReady, Flushed, FlushBroken, Drained, SenderControl, OnAccept, OnPause, OnResume,
         OnFileVerified, OnTransferVerified, OnReject, SOnTransferFailed, SReceive, SenderLoss,
         SChannelsClose, SConnectionFails, SenderChoices, Pause, Resume, Cancel, ReadFails, Happens
  <2> QED BY <1>1, <2>1
<1>3. CASE ReceiverStep
  <2>1. CASE ConsumeStart \/ ReceiverQueue \/ ReceiverFaults \/ Finish
    <3>1. (linkUp' = linkUp \/ linkUp' = FALSE) /\ spent' \in {spent, spent + 1}
      BY <2>1 DEF ConsumeStart, Finish, ReceiverQueue, PieceWritten, PieceHashed, DigestComputed, Mismatch,
         FileCloses, NextFileOpens, NextFileReady, ReceiverFaults, PieceFails, DigestFails, CloseFails,
         NextFileFails, AcceptFails, DialogDismissed, Decline, RCancel, transport, Happens
    <3> QED BY <1>1, <3>1
  <2>2. CASE ChunkArrives \/ TailArrives \/ ReceiverControl \/ ReceiverAccepts \/ ReceiverLoss
    <3>1. (linkUp' = linkUp \/ linkUp' = FALSE) /\ spent' \in {spent, spent + 1}
      BY <2>2 DEF ChunkArrives, TailArrives, ReceiverControl, OnTransferStart, OnFileDone, OnTransferComplete,
         ROnTransferFailed, RReceive, ReceiverAccepts, Accept, DestinationOpens, FirstFileOpens, Accepted,
         ReceiverLoss, RChannelsClose, RConnectionFails, transport, Happens
    <3> QED BY <1>1, <3>1
  <2> QED BY <1>3, <2>1, <2>2 DEF ReceiverStep, ReceiverNext, ReceiverMicrotask, ReceiverTask
<1>4. CASE NetworkStep \/ UNCHANGED vars
  <2>1. (linkUp' = linkUp \/ linkUp' = FALSE) /\ spent' \in {spent, spent + 1}
    BY <1>4 DEF NetworkStep, Transmit, Corrupt, LinkDown, Happens, vars, channelVars
  <2> QED BY <1>1, <2>1
<1> QED BY <1>2, <1>3, <1>4 DEF Next

TypeInv == ReceiverTyped /\ SenderTyped /\ BufferInv /\ PathTyped

LEMMA TypeStep ==
  ASSUME SenderInv, Inv1, QueueInv, SyncInv, TypeInv, [Next]_vars, QueueInv', BytesInv'
  PROVE  TypeInv'
<1>1. BufferInv' /\ PathTyped'
  BY BufferStep, PathStep DEF TypeInv
<1>2. CASE SenderStep
  <2>1. SenderNext /\ UNCHANGED receiverVars /\ toSender \in Seq(SenderMsg)
    BY <1>2 DEF SenderStep, Inv1, ReceiverInv, HandshakeInv
  <2>2. SenderTyped'
    BY <2>1, SenderStaysTyped DEF TypeInv
  <2>3. UNCHANGED rOpen
    BY <1>2 DEF SenderStep, SenderNext, SenderLoop, HasherReady, ChunkRead, ChunkHashed,
         DigestReady, Flushed, FlushBroken, Drained, SenderControl, OnAccept, OnPause, OnResume,
         OnFileVerified, OnTransferVerified, OnReject, SOnTransferFailed, SReceive, SenderLoss,
         SChannelsClose, SConnectionFails, SenderChoices, Pause, Resume, Cancel, ReadFails
  <2>4. ReceiverTyped'
    BY <2>1, <2>3 DEF TypeInv, receiverVars, ReceiverTyped, EndTyped, PiecesTyped, Chunked, BytesTyped, StagesTyped
  <2> QED BY <1>1, <2>2, <2>4 DEF TypeInv
<1>3. CASE ReceiverStep
  <2>1. ReceiverNext /\ UNCHANGED senderVars
    BY <1>3 DEF ReceiverStep
  <2>2. ReceiverTyped'
    BY <2>1, ReceiverStaysTyped DEF TypeInv
  <2>3. UNCHANGED sOpen
    <3>1. CASE ConsumeStart \/ ReceiverQueue \/ ReceiverFaults \/ Finish
      BY <3>1 DEF ConsumeStart, Finish, ReceiverQueue, PieceWritten, PieceHashed, DigestComputed, Mismatch,
         FileCloses, NextFileOpens, NextFileReady, ReceiverFaults, PieceFails, DigestFails, CloseFails,
         NextFileFails, AcceptFails, DialogDismissed, Decline, RCancel, transport
    <3>2. CASE ChunkArrives \/ TailArrives \/ ReceiverControl \/ ReceiverAccepts \/ ReceiverLoss
      BY <3>2 DEF ChunkArrives, TailArrives, ReceiverControl, OnTransferStart, OnFileDone, OnTransferComplete,
         ROnTransferFailed, RReceive, ReceiverAccepts, Accept, DestinationOpens, FirstFileOpens, Accepted,
         ReceiverLoss, RChannelsClose, RConnectionFails, transport
    <3> QED BY <2>1, <3>1, <3>2 DEF ReceiverNext, ReceiverMicrotask, ReceiverTask
  <2>4. SenderTyped'
    BY <2>1, <2>3 DEF TypeInv, senderVars, SenderTyped
  <2> QED BY <1>1, <2>2, <2>4 DEF TypeInv
<1>4. CASE NetworkStep \/ UNCHANGED vars
  <2>1. UNCHANGED <<senderVars, receiverVars, sOpen, rOpen>>
    BY <1>4 DEF NetworkStep, Transmit, Corrupt, LinkDown, vars, channelVars
  <2>2. SenderTyped'
    BY <2>1 DEF TypeInv, senderVars, SenderTyped
  <2>3. ReceiverTyped'
    BY <2>1 DEF TypeInv, receiverVars, ReceiverTyped, EndTyped, PiecesTyped, Chunked, BytesTyped, StagesTyped
  <2> QED BY <1>1, <2>2, <2>3 DEF TypeInv
<1> QED BY <1>2, <1>3, <1>4 DEF Next

LEMMA TypeStart == Init => TypeInv
<1> SUFFICES ASSUME Init PROVE TypeInv
  OBVIOUS
<1>1. <<>> \in Chunk /\ <<>> \in Seq(Piece)
  BY DEF Chunk
<1>2. EndTyped /\ PiecesTyped /\ PathTyped
  BY <1>1 DEF Init, ChannelsInit, ReceiverInit, EndTyped, PiecesTyped, PathTyped, RState, RowNames, Fates
<1>3. BytesTyped /\ StagesTyped
  BY <1>1 DEF Init, ReceiverInit, BytesTyped, StagesTyped, Backlog, EmptyBacklog
<1>4. SenderTyped
  BY <1>1 DEF Init, ChannelsInit, SenderInit, SenderTyped, SState, SRowNames
<1>5. BufferInv
  <2>1. dataBuf = <<>> /\ bufferedAmount = 0
    BY DEF Init, ChannelsInit
  <2>2. FlattenSeq(<<>>) = <<>>
    BY DEF FlattenSeq
  <2> QED BY <2>1, <2>2 DEF BufferInv
<1> QED BY <1>2, <1>3, <1>4, <1>5 DEF TypeInv, ReceiverTyped

LEMMA BytesInvariant == Spec => []BytesInv
<1>1. BacklogIsQueue <=> BytesInv
  BY DEF BytesInv, BacklogIsQueue
<1> QED BY <1>1, BacklogCounts, PTL

\* The variables of both engines and of the channels between them keep their types,
\* for every batch, chunk size and watermark: each row, status and promise is one the
\* code has, a chunk is never shorter than the pieces split() found in it (cursor.ts),
\* also when the batch has failed meanwhile, and bufferedAmount and the backlog, which
\* are counted down, are never less than nothing.
THEOREM TransferTyped == Spec => []TypeOK
<1>1. SenderInv /\ Inv1 /\ QueueInv /\ SyncInv /\ TypeInv => TypeOK
  <2> SUFFICES ASSUME SenderInv, Inv1, QueueInv, SyncInv, TypeInv PROVE TypeOK
    OBVIOUS
  <2>1. ChannelsTypeOK
    <3>1. ExactMsg \subseteq ToReceiverMsg
      <4>1. \A f \in File : Content(f) \in Chunk
        BY BatchOK DEF Content, Chunk, Byte
      <4> QED BY <4>1 DEF ExactMsg, ToReceiverMsg
    <3>2. toReceiver \in Seq(ToReceiverMsg)
      BY <3>1 DEF SenderInv
    <3>3. toSender \in Seq(ToSenderMsg)
      BY DEF Inv1, ReceiverInv, HandshakeInv, SenderMsg, ToSenderMsg
    <3>4. bufferedAmount \in Nat
      <4>1. PICK h : Bytes(dataBuf, h) /\ bufferedAmount = h[Len(dataBuf)]
        BY FlatBytes DEF QueueInv, TypeInv, BufferInv
      <4>2. Len(dataBuf) \in 0 .. Len(dataBuf)
        BY DEF QueueInv
      <4> QED BY <4>1, <4>2 DEF Bytes
    <3> QED BY <3>2, <3>3, <3>4
            DEF ChannelsTypeOK, QueueInv, TypeInv, ReceiverTyped, EndTyped, SenderTyped, PathTyped
  <2>2. SenderTypeOK
    BY DEF SenderTypeOK, SenderInv, TypeInv, SenderTyped, SRowNames
  <2>3. ReceiverTypeOK
    <3>1. cursor \in [index : Nat, inFile : Nat, total : Nat]
      BY SizesOK DEF SyncInv, CursorOK
    <3>2. sink \in {0} \cup File /\ index \in 1 .. Len(Sizes) + 1 /\ aborted \in BOOLEAN /\ verified \in BOOLEAN
      BY DEF Inv1, ReceiverInv, HandshakeInv, OutcomeInv
    <3> QED BY <3>1, <3>2 DEF ReceiverTypeOK, QueueInv, TypeInv, ReceiverTyped, EndTyped, PiecesTyped, BytesTyped,
            StagesTyped, RowNames, Fates
  <2> QED BY <2>1, <2>2, <2>3 DEF TypeOK
<1> QED BY <1>1, TypeStart, TypeStep, SenderInvariant, Inv1Invariant, QueueInvariant, SyncInvariant,
        BytesInvariant, PTL DEF Spec
-----------------------------------------------------------------------------
(* A batch accepted twice *)

\* Queues, whatever their messages, and the news that the batch is complete.
IsSeq(q) == \E S : q \in Seq(S)
News(q) == \E i \in DOMAIN q : q[i].type = "TRANSFER_VERIFIED"
\* r is q with messages added or taken away, none of them that news.
NoNews(q, r) == IsSeq(r) /\ (News(r) => News(q))

LEMMA AppendIs ==
  ASSUME NEW q, IsSeq(q), NEW m
  PROVE  /\ IsSeq(Append(q, m)) /\ Len(Append(q, m)) = Len(q) + 1 /\ Len(q) \in Nat
         /\ DOMAIN Append(q, m) = 1 .. Len(q) + 1 /\ DOMAIN q = 1 .. Len(q)
         /\ \A i \in 1 .. Len(q) : Append(q, m)[i] = q[i]
         /\ Append(q, m)[Len(q) + 1] = m
<1>1. PICK S : q \in Seq(S)
  BY DEF IsSeq
<1>2. q \in Seq(S \cup {m})
  BY <1>1
<1>3. Append(q, m) \in Seq(S \cup {m})
  BY <1>2
<1> QED BY <1>1, <1>2, <1>3 DEF IsSeq

LEMMA TailIs ==
  ASSUME NEW q, IsSeq(q), q # <<>>
  PROVE  /\ IsSeq(Tail(q)) /\ Len(Tail(q)) = Len(q) - 1 /\ Len(q) \in Nat /\ Len(q) >= 1
         /\ DOMAIN Tail(q) = 1 .. Len(q) - 1 /\ DOMAIN q = 1 .. Len(q)
         /\ \A i \in 1 .. Len(q) - 1 : Tail(q)[i] = q[i + 1]
         /\ Head(q) = q[1]
<1>1. PICK S : q \in Seq(S)
  BY DEF IsSeq
<1>2. Tail(q) \in Seq(S)
  BY <1>1
<1> QED BY <1>1, <1>2 DEF IsSeq

LEMMA NoNewsSame == ASSUME NEW q, IsSeq(q) PROVE NoNews(q, q)
BY DEF NoNews

LEMMA NoNewsTail == ASSUME NEW q, IsSeq(q), q # <<>> PROVE NoNews(q, Tail(q))
<1>1. News(Tail(q)) => News(q)
  <2> SUFFICES ASSUME NEW i \in DOMAIN Tail(q), Tail(q)[i].type = "TRANSFER_VERIFIED" PROVE News(q)
    BY DEF News
  <2>1. i + 1 \in DOMAIN q /\ q[i + 1].type = "TRANSFER_VERIFIED"
    BY TailIs
  <2> QED BY <2>1 DEF News
<1> QED BY <1>1, TailIs DEF NoNews

LEMMA NoNewsAppend ==
  ASSUME NEW q, IsSeq(q), NEW m, m.type # "TRANSFER_VERIFIED"
  PROVE  NoNews(q, Append(q, m))
<1>1. News(Append(q, m)) => News(q)
  <2> SUFFICES ASSUME NEW i \in DOMAIN Append(q, m), Append(q, m)[i].type = "TRANSFER_VERIFIED"
               PROVE  News(q)
    BY DEF News
  <2>1. i \in DOMAIN q /\ q[i].type = "TRANSFER_VERIFIED"
    <3>1. i # Len(q) + 1
      BY AppendIs
    <3> QED BY <3>1, AppendIs
  <2> QED BY <2>1 DEF News
<1> QED BY <1>1, AppendIs DEF NoNews

LEMMA SendNoNews ==
  ASSUME NEW q, IsSeq(q), NEW open,
         NEW t \in {"MANIFEST_ACCEPT", "MANIFEST_REJECT", "PAUSE", "RESUME", "TRANSFER_FAILED"}
  PROVE  NoNews(q, SendControl(open, q, [type |-> t]))
<1> DEFINE m == [type |-> t]
<1>1. m.type # "TRANSFER_VERIFIED"
  OBVIOUS
<1> HIDE DEF m
<1>2. NoNews(q, SendControl(open, q, m))
  BY <1>1, NoNewsAppend, NoNewsSame, SendControlIs
<1> QED BY <1>2 DEF m

-----------------------------------------------------------------------------
\* What a receiver's task does to the transfer: it takes messages of the sender,
\* starts to finish when told, and says TRANSFER_VERIFIED only as it closes.
Tidy ==
  /\ UNCHANGED <<senderVars, sOpen, dataBuf>>
  /\ toReceiver' \in Seq(ExactMsg) /\ (Tells(toReceiver') => Tells(toReceiver))
  /\ toReceiver = <<>> => toReceiver' = <<>>
  /\ dataNet = <<>> => dataNet' = <<>>
  /\ rOpen' => rOpen
  /\ IF finishing = "no" THEN finishing' # "no" => Tells(toReceiver) ELSE finishing' # "no"
  /\ ~rOpen => UNCHANGED toSender
  /\ \/ NoNews(toSender, toSender')
     \/ /\ toSender' = Append(toSender, [type |-> "TRANSFER_VERIFIED"])
        /\ ~rOpen' /\ finishing' # "no"

\* One read loop: once it has announced the end it is over, what the receiver
\* says last is that the batch is complete, and a sender that gave up is closed.
OneLoopInv ==
  /\ SenderInv /\ IsSeq(toSender)
  /\ Tells(toReceiver) \/ finishing # "no" => loop = "done"
  /\ News(toSender) \/ sState = "complete" => finishing # "no" /\ ~rOpen
  /\ \A i \in DOMAIN toSender : toSender[i].type = "TRANSFER_VERIFIED" => i = Len(toSender)
  /\ sState = "complete" => toSender = <<>>
  /\ sState \in {"failed", "declined"} => ~sOpen /\ ~sHasher

\* The channel a message was read from was open, and nothing comes after the news.
LEMMA ReadIs ==
  ASSUME OneLoopInv, NEW t, SReceive(t)
  PROVE  /\ sOpen /\ sState \notin SDone
         /\ NoNews(toSender, toSender')
         /\ \A i \in DOMAIN toSender' : toSender'[i].type = "TRANSFER_VERIFIED" => i = Len(toSender')
         /\ t = "TRANSFER_VERIFIED" => News(toSender) /\ toSender' = <<>>
<1>1. IsSeq(toSender) /\ toSender # <<>> /\ toSender' = Tail(toSender) /\ sOpen /\ Head(toSender).type = t
  BY DEF SReceive, OneLoopInv
<1>2. sState \notin SDone
  BY <1>1 DEF OneLoopInv, SDone
<1>3. NoNews(toSender, toSender')
  BY <1>1, NoNewsTail
<1>4. ASSUME NEW i \in DOMAIN toSender', toSender'[i].type = "TRANSFER_VERIFIED" PROVE i = Len(toSender')
  <2>1. i + 1 \in DOMAIN toSender /\ toSender[i + 1].type = "TRANSFER_VERIFIED" /\ i \in Int
    BY <1>1, <1>4, TailIs
  <2>2. i + 1 = Len(toSender)
    BY <2>1 DEF OneLoopInv
  <2> QED BY <1>1, <2>1, <2>2, TailIs
<1>5. ASSUME t = "TRANSFER_VERIFIED" PROVE News(toSender) /\ toSender' = <<>>
  <2>1. 1 \in DOMAIN toSender /\ toSender[1].type = "TRANSFER_VERIFIED"
    BY <1>1, <1>5, TailIs
  <2>2. Len(toSender) = 1
    BY <2>1 DEF OneLoopInv
  <2>3. PICK S : toSender \in Seq(S)
    BY <1>1 DEF IsSeq
  <2> QED BY <1>1, <2>1, <2>2, <2>3 DEF News
<1> QED BY <1>1, <1>2, <1>3, <1>4, <1>5

\* A step of the sender's that no message decides.
LEMMA SenderSettled ==
  ASSUME OneLoopInv, MayThrow, SenderInv', UNCHANGED <<toSender, finishing, rOpen>>,
         loop = "done" => loop' = "done"
  PROVE  OneLoopInv' /\ (sState \in SDone => sState' = sState)
BY DEF OneLoopInv, MayThrow, SDone, News, IsSeq

LEMMA SenderKeepsOutcome ==
  ASSUME OneLoopInv, SenderNext, UNCHANGED receiverVars
  PROVE  OneLoopInv' /\ (sState \in SDone => sState' = sState)
<1>0. toReceiver \in Seq(ExactMsg) /\ IsSeq(toSender) /\ finishing' = finishing
  BY DEF OneLoopInv, SenderInv, receiverVars
<1>1. SenderInv'
  BY SenderAssumption, SenderLoopInv, SenderRestInv DEF OneLoopInv, SenderNext, SenderChoices
<1>2. rOpen' = rOpen
  BY DEF SenderNext, SenderLoop, HasherReady, ChunkRead, ChunkHashed, DigestReady, Flushed, FlushBroken,
         Drained, SenderControl, OnAccept, OnPause, OnResume, OnFileVerified, OnTransferVerified, OnReject,
         SOnTransferFailed, SReceive, SenderLoss, SChannelsClose, SConnectionFails, SenderChoices, Pause,
         Resume, Cancel, ReadFails
<1>3. CASE OnAccept
  <2>1. /\ loop = "idle" /\ sOpen' = sOpen /\ sState' = "transferring" /\ SReceive("MANIFEST_ACCEPT")
        /\ toReceiver' = SendControl(sOpen, toReceiver, [type |-> "TRANSFER_START"])
    BY <1>3 DEF OnAccept
  <2>2. Tells(toReceiver') => Tells(toReceiver)
    <3> DEFINE m == [type |-> "TRANSFER_START"]
    <3>1. m \in ExactMsg /\ m.type # "TRANSFER_COMPLETE"
      BY MessagesOK
    <3> HIDE DEF m
    <3>2. toReceiver' = SendControl(sOpen, toReceiver, m)
      BY <2>1 DEF m
    <3> QED BY <1>0, <3>1, <3>2, TellsSent
  <2>3. /\ sOpen /\ sState \notin SDone /\ NoNews(toSender, toSender')
        /\ \A i \in DOMAIN toSender' : toSender'[i].type = "TRANSFER_VERIFIED" => i = Len(toSender')
    BY <2>1, ReadIs
  <2> QED BY <1>0, <1>1, <1>2, <2>1, <2>2, <2>3 DEF OneLoopInv, SDone, NoNews
<1>4. CASE OnReject
  <2>1. /\ UNCHANGED <<loop, toReceiver>> /\ sState' = "declined" /\ ~sOpen' /\ ~sHasher'
        /\ SReceive("MANIFEST_REJECT")
    BY <1>4 DEF OnReject
  <2>2. /\ sState \notin SDone /\ NoNews(toSender, toSender')
        /\ \A i \in DOMAIN toSender' : toSender'[i].type = "TRANSFER_VERIFIED" => i = Len(toSender')
    BY <2>1, ReadIs
  <2> QED BY <1>0, <1>1, <1>2, <2>1, <2>2 DEF OneLoopInv, SDone, NoNews
<1>5. CASE OnTransferVerified
  <2>1. UNCHANGED <<loop, toReceiver, sOpen, sHasher>> /\ sState' = "complete" /\ SReceive("TRANSFER_VERIFIED")
    BY <1>5 DEF OnTransferVerified
  <2>2. /\ sState \notin SDone /\ NoNews(toSender, toSender') /\ News(toSender) /\ toSender' = <<>>
        /\ \A i \in DOMAIN toSender' : toSender'[i].type = "TRANSFER_VERIFIED" => i = Len(toSender')
    BY <2>1, ReadIs
  <2> QED BY <1>0, <1>1, <1>2, <2>1, <2>2 DEF OneLoopInv, SDone, NoNews
<1>6. CASE DigestReady
  <2>1. /\ loop = "final" /\ sHasher /\ UNCHANGED <<sOpen, toSender>>
        /\ sState' \in {sState, "verifying"} /\ (sHasher' => sHasher)
        /\ toReceiver' = SendControl(sOpen, toReceiver, [type |-> "FILE_DONE", file |-> current, sha |-> hashed])
    BY <1>6 DEF DigestReady, OpenFile
  <2>2. Tells(toReceiver') => Tells(toReceiver)
    <3> DEFINE m == [type |-> "FILE_DONE", file |-> current, sha |-> hashed]
    <3>1. current \in File /\ hashed = Content(current)
      BY <2>1, PrefixWhole DEF OneLoopInv, SenderInv, Sending
    <3>2. m \in ExactMsg /\ m.type # "TRANSFER_COMPLETE"
      BY <3>1, MessagesOK
    <3> HIDE DEF m
    <3>3. toReceiver' = SendControl(sOpen, toReceiver, m)
      BY <2>1 DEF m
    <3> QED BY <1>0, <3>2, <3>3, TellsSent
  <2>3. sState \notin SDone
    BY <2>1 DEF OneLoopInv, SDone
  <2> QED BY <1>0, <1>1, <1>2, <2>1, <2>2, <2>3 DEF OneLoopInv, SDone, News, IsSeq
<1>7. CASE Flushed
  <2>1. loop = "flush" /\ loop' = "done" /\ UNCHANGED <<sState, sOpen, sHasher, toSender>>
    BY <1>7 DEF Flushed
  <2> QED BY <1>0, <1>1, <1>2, <2>1 DEF OneLoopInv, News, IsSeq
<1>8. CASE OnPause \/ OnResume \/ OnFileVerified \/ SOnTransferFailed
  <2>1. \E t : SReceive(t)
    BY <1>8 DEF OnPause, OnResume, OnFileVerified, SOnTransferFailed
  <2>2. /\ sState \notin SDone /\ NoNews(toSender, toSender')
        /\ \A i \in DOMAIN toSender' : toSender'[i].type = "TRANSFER_VERIFIED" => i = Len(toSender')
    BY <2>1, ReadIs
  <2>3. CASE OnAccept \/ OnReject \/ OnTransferVerified \/ DigestReady \/ Flushed
    BY <1>3, <1>4, <1>5, <1>6, <1>7, <2>3
  <2>4. CASE ~(OnAccept \/ OnReject \/ OnTransferVerified \/ DigestReady \/ Flushed)
    <3>1. MayThrow /\ (loop \in {"idle", "done"} => loop' = loop)
      BY <1>0, <2>4, SenderEnds
    <3> QED BY <1>0, <1>1, <1>2, <2>2, <3>1 DEF OneLoopInv, MayThrow, SDone, NoNews
  <2> QED BY <2>3, <2>4
<1>9. CASE \/ SenderLoss \/ SenderChoices
           \/ HasherReady \/ ChunkRead \/ ChunkHashed \/ FlushBroken \/ Drained
  <2>1. UNCHANGED toSender
    BY <1>9 DEF HasherReady, ChunkRead, ChunkHashed, FlushBroken, Drained, SenderLoss, SChannelsClose,
                SConnectionFails, SenderChoices, Pause, Resume, Cancel, ReadFails
  <2>2. CASE OnAccept \/ OnReject \/ OnTransferVerified \/ DigestReady \/ Flushed
    BY <1>3, <1>4, <1>5, <1>6, <1>7, <2>2
  <2>3. CASE ~(OnAccept \/ OnReject \/ OnTransferVerified \/ DigestReady \/ Flushed)
    <3>1. MayThrow /\ (loop \in {"idle", "done"} => loop' = loop)
      BY <1>0, <2>3, SenderEnds
    <3> QED BY <1>0, <1>1, <1>2, <2>1, <3>1, SenderSettled
  <2> QED BY <2>2, <2>3
<1> QED BY <1>3, <1>4, <1>5, <1>6, <1>7, <1>8, <1>9 DEF SenderNext, SenderLoop, SenderControl

-----------------------------------------------------------------------------
LEMMA NoNewsThen == ASSUME NEW p, NEW q, NEW r, NoNews(p, q), NoNews(q, r) PROVE NoNews(p, r)
BY DEF NoNews

LEMMA ChunkDoneSays ==
  ASSUME NEW q, IsSeq(q), ChunkDone(q)
  PROVE  NoNews(q, toSender') /\ (~rOpen' => toSender' = q)
<1>1. toSender' = q \/ toSender' = SendControl(rOpen', q, [type |-> "RESUME"])
  BY DEF ChunkDone
<1>2. ~rOpen' => toSender' = q
  BY <1>1 DEF SendControl
<1> QED BY <1>1, <1>2, NoNewsSame, SendNoNews

LEMMA FileVerifiedSays ==
  ASSUME NEW q, IsSeq(q), NEW open, NEW f
  PROVE  NoNews(q, SendControl(open, q, [type |-> "FILE_VERIFIED", file |-> f]))
<1> DEFINE m == [type |-> "FILE_VERIFIED", file |-> f]
<1>1. m.type # "TRANSFER_VERIFIED"
  OBVIOUS
<1> HIDE DEF m
<1>2. NoNews(q, SendControl(open, q, m))
  BY <1>1, NoNewsAppend, NoNewsSame, SendControlIs
<1> QED BY <1>2 DEF m

LEMMA AdvanceSays ==
  ASSUME IsSeq(toSender), NEW ps, NEW statuses, Advance(ps, statuses)
  PROVE  NoNews(toSender, toSender') /\ (rOpen' => rOpen) /\ (~rOpen => UNCHANGED toSender)
<1> DEFINE fits == sink # 0 /\ rHasher /\ Head(ps).index = index
<1>1. CASE ps = <<>>
  <2>1. ChunkDone(toSender) /\ rOpen' = rOpen
    BY <1>1 DEF Advance
  <2> QED BY <2>1, ChunkDoneSays
<1>2. CASE ps # <<>> /\ fits
  <2>1. UNCHANGED <<toSender, rOpen>>
    BY <1>2 DEF Advance
  <2> QED BY <2>1, NoNewsSame
<1>3. CASE ps # <<>> /\ ~fits
  <2>1. RFailFrom("failed", sink, fate, statuses) /\ ChunkDone(toSender)
    BY <1>3 DEF Advance
  <2>2. rOpen' = rOpen \/ rOpen' = FALSE
    BY <2>1 DEF RFailFrom
  <2> QED BY <2>1, <2>2, ChunkDoneSays
<1> HIDE DEF fits
<1> QED BY <1>1, <1>2, <1>3

\* Of the receiver's steps only Finish announces that the batch is complete.
LEMMA ReceiverSays ==
  ASSUME IsSeq(toSender), ReceiverNext
  PROVE  \/ NoNews(toSender, toSender')
         \/ /\ toSender' = SendControl(rOpen, toSender, [type |-> "TRANSFER_VERIFIED"])
            /\ ~rOpen' /\ finishing' # "no"
<1>1. CASE UNCHANGED toSender
  BY <1>1, NoNewsSame
<1>2. CASE ChunkDone(toSender)
  BY <1>2, ChunkDoneSays
<1>3. CASE ConsumeStart \/ PieceWritten \/ PieceHashed \/ NextFileReady \/ PieceFails \/ NextFileFails
  <2>1. UNCHANGED toSender \/ ChunkDone(toSender) \/ FailChunk \/ \E ps, statuses : Advance(ps, statuses)
    BY <1>3 DEF ConsumeStart, PieceWritten, PieceHashed, NextFileReady, PieceFails, NextFileFails
  <2> QED BY <1>1, <1>2, <2>1, AdvanceSays DEF FailChunk
<1>4. CASE Finish
  <2>1. \/ UNCHANGED toSender
        \/ toSender' = SendControl(rOpen, toSender, [type |-> "TRANSFER_FAILED"])
        \/ /\ toSender' = SendControl(rOpen, toSender, [type |-> "TRANSFER_VERIFIED"])
           /\ ~rOpen' /\ finishing' = "done"
    BY <1>4 DEF Finish
  <2> QED BY <1>1, <2>1, SendNoNews
<1>5. CASE FileCloses
  <2> DEFINE q == SendControl(rOpen, toSender, [type |-> "FILE_VERIFIED", file |-> index])
  <2>1. NoNews(toSender, q)
    BY FileVerifiedSays
  <2>2. toSender' = q \/ ChunkDone(q)
    BY <1>5 DEF FileCloses
  <2> HIDE DEF q
  <2>3. IsSeq(q)
    BY <2>1 DEF NoNews
  <2> QED BY <2>1, <2>2, <2>3, ChunkDoneSays, NoNewsThen
<1>6. CASE Mismatch \/ CloseFails
  BY <1>2, <1>6 DEF Mismatch, CloseFails
<1>7. CASE ChunkArrives
  <2>1. toSender' = toSender \/ toSender' = SendControl(TRUE, toSender, [type |-> "PAUSE"])
    BY <1>7 DEF ChunkArrives, SendControl
  <2> QED BY <1>1, <2>1, SendNoNews
<1>8. CASE Accepted \/ Decline
  <2>1. \E t \in {"MANIFEST_ACCEPT", "MANIFEST_REJECT"} : toSender' = SendControl(rOpen, toSender, [type |-> t])
    BY <1>8 DEF Accepted, Decline
  <2> QED BY <2>1, SendNoNews
<1>9. CASE \/ DigestComputed \/ NextFileOpens \/ TailArrives \/ ReceiverLoss \/ DigestFails
           \/ ReceiverControl \/ AcceptFails \/ DialogDismissed \/ RCancel
           \/ Accept \/ DestinationOpens \/ FirstFileOpens
  <2>1. UNCHANGED toSender
    BY <1>9 DEF DigestComputed, NextFileOpens, TailArrives, ReceiverLoss, RChannelsClose, RConnectionFails,
              DigestFails, ReceiverControl, OnTransferStart, OnFileDone, OnTransferComplete, RReceive,
              ROnTransferFailed, AcceptFails, DialogDismissed, RCancel, Accept, DestinationOpens, FirstFileOpens
  <2> QED BY <1>1, <2>1
<1> QED BY <1>3, <1>4, <1>5, <1>6, <1>7, <1>8, <1>9
        DEF ReceiverNext, ReceiverMicrotask, ReceiverTask, ReceiverQueue, ReceiverFaults, ReceiverAccepts

\* The receiver takes from the channels, and a finish() that has started stays so.
LEMMA ReceiverTakes ==
  ASSUME toReceiver \in Seq(ExactMsg), ReceiverNext
  PROVE  /\ toReceiver' \in Seq(ExactMsg) /\ UNCHANGED dataBuf
         /\ toReceiver = <<>> => toReceiver' = <<>>
         /\ dataNet = <<>> => dataNet' = <<>>
         /\ finishing # "no" => finishing' # "no"
<1>1. CASE ReceiverControl
  <2>1. /\ toReceiver # <<>> /\ toReceiver' = Tail(toReceiver) /\ UNCHANGED <<dataBuf, dataNet>>
        /\ finishing' \in {finishing, "tail"}
    BY <1>1 DEF ReceiverControl, OnTransferStart, OnFileDone, OnTransferComplete, ROnTransferFailed, RReceive
  <2>2. toReceiver' \in Seq(ExactMsg)
    BY <2>1
  <2> QED BY <2>1, <2>2
<1>2. CASE ChunkArrives
  BY <1>2 DEF ChunkArrives
<1>3. CASE TailArrives \/ ReceiverQueue \/ ReceiverMicrotask
  <2>1. UNCHANGED <<toReceiver, dataBuf, dataNet>> /\ finishing' \in {finishing, "writes", "done"}
    BY <1>3 DEF TailArrives, ReceiverQueue, ReceiverMicrotask, ConsumeStart, Finish,
                PieceWritten, PieceHashed, DigestComputed, Mismatch, FileCloses,
                NextFileOpens, NextFileReady, transport
  <2> QED BY <2>1
<1>4. CASE ReceiverAccepts \/ ReceiverLoss \/ ReceiverFaults
  <2>1. UNCHANGED <<toReceiver, dataBuf, dataNet, finishing>>
    BY <1>4 DEF ReceiverAccepts, Accept, DestinationOpens, FirstFileOpens, Accepted,
                ReceiverLoss, RChannelsClose, RConnectionFails, ReceiverFaults, PieceFails,
                DigestFails, CloseFails, NextFileFails, AcceptFails, DialogDismissed,
                Decline, RCancel, transport, queueing, losing
  <2> QED BY <2>1
<1> QED BY <1>1, <1>2, <1>3, <1>4 DEF ReceiverNext, ReceiverTask

LEMMA ReceiverIsTidy ==
  ASSUME SenderInv, IsSeq(toSender), ReceiverNext, UNCHANGED senderVars
  PROVE  Tidy
<1>1. toReceiver \in Seq(ExactMsg)
  BY DEF SenderInv
<1>2. /\ toReceiver' \in Seq(ExactMsg) /\ UNCHANGED dataBuf /\ (dataNet = <<>> => dataNet' = <<>>)
      /\ toReceiver = <<>> => toReceiver' = <<>>
      /\ finishing # "no" => finishing' # "no"
  BY <1>1, ReceiverTakes
<1>3. /\ rOpen' => rOpen
      /\ sOpen' = sOpen
      /\ Tells(toReceiver') => Tells(toReceiver)
      /\ finishing' # "no" => finishing # "no" \/ Tells(toReceiver)
  BY <1>1, ReceiverMoves
<1>4. ~rOpen => UNCHANGED toSender
  BY ClosedIsSilent
<1>5. \/ NoNews(toSender, toSender')
      \/ /\ toSender' = Append(toSender, [type |-> "TRANSFER_VERIFIED"])
         /\ ~rOpen' /\ finishing' # "no"
  <2>1. \/ NoNews(toSender, toSender')
        \/ /\ toSender' = SendControl(rOpen, toSender, [type |-> "TRANSFER_VERIFIED"])
           /\ ~rOpen' /\ finishing' # "no"
    BY ReceiverSays
  <2> QED BY <2>1, NoNewsSame DEF SendControl
<1> QED BY <1>2, <1>3, <1>4, <1>5 DEF Tidy

LEMMA TidyKeepsOutcome ==
  ASSUME OneLoopInv, Tidy
  PROVE  OneLoopInv' /\ sState' = sState
<1>0. /\ UNCHANGED <<sState, loop, offset, end, current, hashed, sHasher, sOpen, dataBuf>> /\ IsSeq(toSender)
  BY DEF Tidy, senderVars, OneLoopInv
<1>1. SenderInv'
  BY <1>0 DEF OneLoopInv, SenderInv, Tidy
<1>2. Tells(toReceiver') \/ finishing' # "no" => loop' = "done"
  BY <1>0 DEF OneLoopInv, Tidy
<1>3. CASE ~rOpen
  BY <1>0, <1>1, <1>2, <1>3 DEF OneLoopInv, Tidy, News, IsSeq
<1>4. CASE rOpen
  <2>1. ~News(toSender) /\ sState # "complete"
    BY <1>4 DEF OneLoopInv
  <2>2. CASE NoNews(toSender, toSender')
    <3>1. IsSeq(toSender') /\ ~News(toSender')
      BY <2>1, <2>2 DEF NoNews
    <3> QED BY <1>0, <1>1, <1>2, <2>1, <3>1 DEF OneLoopInv, News
  <2>3. CASE toSender' = Append(toSender, [type |-> "TRANSFER_VERIFIED"]) /\ ~rOpen' /\ finishing' # "no"
    <3> DEFINE m == [type |-> "TRANSFER_VERIFIED"]
    <3>1. /\ IsSeq(toSender') /\ Len(toSender') = Len(toSender) + 1 /\ Len(toSender) \in Nat
          /\ DOMAIN toSender' = 1 .. Len(toSender) + 1 /\ DOMAIN toSender = 1 .. Len(toSender)
          /\ \A i \in 1 .. Len(toSender) : toSender'[i] = toSender[i]
      <4> HIDE DEF m
      <4> QED BY <1>0, <2>3, AppendIs DEF m
    <3>2. ASSUME NEW i \in DOMAIN toSender', toSender'[i].type = "TRANSFER_VERIFIED" PROVE i = Len(toSender')
      BY <2>1, <3>1, <3>2 DEF News
    <3> QED BY <1>0, <1>1, <1>2, <2>1, <2>3, <3>1, <3>2 DEF OneLoopInv
  <2> QED BY <2>2, <2>3, <1>4 DEF Tidy
<1> QED BY <1>0, <1>3, <1>4

-----------------------------------------------------------------------------
(* The steps a second call of accept() adds to the receiver's *)

LEMMA FailCloses ==
  ASSUME NEW state, NEW s, NEW fates, NEW statuses, RFailFrom(state, s, fates, statuses)
  PROVE  rOpen' => rOpen
BY DEF RFailFrom

LEMMA CallsAreTidy ==
  ASSUME SenderInv, IsSeq(toSender), UNCHANGED senderVars, Calls \/ AcceptAgain \/ AcceptRefused
  PROVE  Tidy
<1>1. UNCHANGED <<toReceiver, dataBuf, dataNet, sOpen, finishing>> /\ toReceiver \in Seq(ExactMsg)
  BY DEF Calls, FirstOpened, SecondOpened, Opened, FirstReady, SecondReady, Ready, SecondDestination,
         SecondFails, AcceptAgain, AcceptRefused, queueing, transport, SenderInv, receiverVars
<1>2. rOpen' => rOpen
  <2>1. UNCHANGED rOpen \/ RFail("failed")
    BY DEF Calls, FirstOpened, SecondOpened, Opened, FirstReady, SecondReady, Ready, SecondDestination,
           SecondFails, AcceptAgain, AcceptRefused, failing
  <2> QED BY <2>1, FailCloses DEF RFail
<1>3. \/ UNCHANGED toSender
      \/ toSender' = SendControl(rOpen, toSender, [type |-> "MANIFEST_ACCEPT"])
  BY DEF Calls, FirstOpened, SecondOpened, Opened, FirstReady, SecondReady, Ready, SecondDestination,
         SecondFails, AcceptAgain, AcceptRefused
<1>4. NoNews(toSender, toSender') /\ (~rOpen => UNCHANGED toSender)
  BY <1>3, NoNewsSame, SendNoNews DEF SendControl
<1> QED BY <1>1, <1>2, <1>4 DEF Tidy

LEMMA QueueIsTidy ==
  ASSUME SenderInv, IsSeq(toSender), UNCHANGED senderVars,
         PieceCounts \/ DigestKnown \/ DigestHeard \/ Closes \/ NextReady \/ NextOpened
  PROVE  Tidy
<1>1. toReceiver \in Seq(ExactMsg)
  BY DEF SenderInv
<1>2. CASE DigestHeard
  <2>1. /\ toReceiver # <<>> /\ toReceiver' = Tail(toReceiver)
        /\ UNCHANGED <<dataBuf, dataNet, sOpen, rOpen, finishing, toSender>>
    BY <1>2 DEF DigestHeard, RReceive, failing
  <2>2. toReceiver' \in Seq(ExactMsg) /\ (Tells(toReceiver') => Tells(toReceiver))
    <3>1. /\ DOMAIN Tail(toReceiver) = 1 .. Len(toReceiver) - 1
          /\ \A i \in 1 .. Len(toReceiver) - 1 : i + 1 \in DOMAIN toReceiver /\ Tail(toReceiver)[i] = toReceiver[i + 1]
      BY <1>1, <2>1
    <3> QED BY <1>1, <2>1, <3>1 DEF Tells
  <2> QED BY <2>1, <2>2, NoNewsSame DEF Tidy
<1>3. CASE DigestKnown \/ NextOpened
  <2>1. UNCHANGED <<toReceiver, dataBuf, dataNet, sOpen, rOpen, finishing, toSender>>
    BY <1>3 DEF DigestKnown, NextOpened, transport
  <2> QED BY <1>1, <2>1, NoNewsSame DEF Tidy
<1>4. CASE Closes
  <2> DEFINE q == SendControl(rOpen, toSender, [type |-> "FILE_VERIFIED", file |-> PieceFile])
  <2>1. UNCHANGED <<toReceiver, dataBuf, dataNet, sOpen, rOpen, finishing>>
    BY <1>4 DEF Closes, transport
  <2>2. NoNews(toSender, q) /\ (~rOpen => q = toSender)
    BY FileVerifiedSays DEF SendControl
  <2>3. toSender' = q \/ ChunkDone(q)
    BY <1>4 DEF Closes
  <2> HIDE DEF q
  <2>4. NoNews(q, toSender') /\ (~rOpen => toSender' = q)
    BY <2>1, <2>2, <2>3, ChunkDoneSays, NoNewsSame DEF NoNews
  <2> QED BY <1>1, <2>1, <2>2, <2>4, NoNewsThen DEF Tidy
<1>5. CASE PieceCounts \/ NextReady
  <2>1. UNCHANGED <<toReceiver, dataBuf, dataNet, sOpen, finishing>>
    BY <1>5 DEF PieceCounts, NextReady, transport
  <2>2. \/ UNCHANGED <<rOpen, toSender>>
        \/ UNCHANGED rOpen /\ ChunkDone(toSender)
        \/ \E ps, statuses : Advance(ps, statuses)
    BY <1>5 DEF PieceCounts, NextReady, failing
  <2>3. NoNews(toSender, toSender') /\ (rOpen' => rOpen) /\ (~rOpen => UNCHANGED toSender)
    BY <2>2, NoNewsSame, ChunkDoneSays, AdvanceSays
  <2> QED BY <1>1, <2>1, <2>3 DEF Tidy
<1> QED BY <1>2, <1>3, <1>4, <1>5

LEMMA TwiceIsTidy ==
  ASSUME SenderInv, IsSeq(toSender), ReceiverTwice
  PROVE  Tidy
<1>1. UNCHANGED senderVars /\ (TwiceMicrotask \/ TwiceTask)
  BY DEF ReceiverTwice
<1>2. CASE TwiceMicrotask
  <2>1. ReceiverNext
    BY <1>2 DEF TwiceMicrotask, Consumes, ReceiverNext, ReceiverMicrotask
  <2> QED BY <1>1, <2>1, ReceiverIsTidy
<1>3. CASE AtRest /\ (AsBefore \/ PieceLands)
  <2>1. ReceiverNext
    BY <1>3 DEF AsBefore, PieceLands, ReceiverNext, ReceiverTask, ReceiverQueue, ReceiverControl, ReceiverFaults
  <2> QED BY <1>1, <2>1, ReceiverIsTidy
<1>4. CASE Calls
  BY <1>1, <1>4, CallsAreTidy
<1>5. CASE NextOpened \/ PieceCounts \/ DigestKnown \/ DigestHeard \/ Closes \/ NextReady
  BY <1>1, <1>5, QueueIsTidy
<1> QED BY <1>1, <1>2, <1>3, <1>4, <1>5 DEF TwiceTask, Queue

-----------------------------------------------------------------------------
\* A second loop is never forgotten, and until there is one OneLoopInv holds.
LoopsInv == /\ loops = <<>> \/ DOMAIN loops = Call
            /\ loops = <<>> => OneLoopInv

LEMMA LoopsStay ==
  ASSUME DOMAIN loops = Call, OverlapNext
  PROVE  DOMAIN loops' = Call /\ loops' # <<>>
<1> DEFINE Same == DOMAIN loops' = DOMAIN loops
<1>1. ASSUME NEW ls, NEW l PROVE DOMAIN Killed(ls, l) = DOMAIN ls
  BY DEF Killed
<1>2. ASSUME NEW l, Throws(l) PROVE Same
  <2> DEFINE stopped == [loops EXCEPT ![l].at = "done", ![l].alive = FALSE]
  <2>1. DOMAIN stopped = DOMAIN loops
    OBVIOUS
  <2>2. loops' = stopped \/ \E n : loops' = Killed(stopped, n)
    BY <1>2 DEF Throws
  <2> HIDE DEF stopped
  <2> QED BY <1>1, <2>1, <2>2
<1>3. ASSUME NEW l, NEW r, Runs(l, r) PROVE Same
  <2>1. Throws(l) \/ \E s : loops' = [loops EXCEPT ![l] = s]
    BY <1>3 DEF Runs
  <2> QED BY <1>2, <2>1
<1>4. ASSUME NEW l, LoopGoesOn(l) PROVE Same
  <2>1. \E r : Runs(l, r)
    BY <1>4 DEF LoopGoesOn
  <2> QED BY <1>3, <2>1
<1>5. ASSUME NEW l, LoopSends(l) \/ LoopFlushes(l) \/ LoopBreaks(l) PROVE Same
  <2>1. Throws(l) \/ loops' = [loops EXCEPT ![l].at = "hash"] \/ loops' = [loops EXCEPT ![l].at = "done"]
    BY <1>5 DEF LoopSends, LoopFlushes, LoopBreaks
  <2> QED BY <1>2, <2>1
<1>6. ASSUME NEW l, LoopEndsFile(l) PROVE Same
  <2>1. \/ \E s : loops' = [loops EXCEPT ![l] = s]
        \/ \E at : loops' = [loops EXCEPT ![l].at = at, ![l].alive = FALSE]
    BY <1>6 DEF LoopEndsFile
  <2> QED BY <2>1
<1>7. ASSUME SenderTwice PROVE Same
  <2>1. CASE TwoLoops
    BY <1>4, <1>5, <1>6, <2>1 DEF TwoLoops
  <2>2. CASE UNCHANGED loopVars \/ Cleanup
    <3>1. loops' = loops \/ loops' = Killed(loops, newest)
      BY <2>2 DEF Cleanup, loopVars
    <3> QED BY <1>1, <3>1
  <2>3. ~OnAcceptAgain
    BY DEF OnAcceptAgain, Call
  <2> QED BY <1>7, <2>1, <2>2, <2>3 DEF SenderTwice
<1>8. ASSUME Once \/ AcceptAgain \/ AcceptRefused \/ ReceiverTwice \/ NetworkTwice PROVE Same
  <2>1. UNCHANGED loops
    BY <1>8 DEF Once, AcceptAgain, AcceptRefused, ReceiverTwice, NetworkTwice, overlapVars, loopVars
  <2> QED BY <2>1
<1>9. Same
  BY <1>7, <1>8 DEF OverlapNext
<1> QED BY <1>9 DEF Call

\* What the network does to an outcome: nothing.
LEMMA NetworkKeepsOutcome ==
  ASSUME OneLoopInv, NetworkStep \/ UNCHANGED vars
  PROVE  OneLoopInv' /\ sState' = sState
<1>1. SenderInv'
  BY OthersKeepSenderInv DEF OneLoopInv
<1>2. UNCHANGED <<senderVars, receiverVars, toReceiver, toSender, sOpen, rOpen>>
  BY DEF NetworkStep, Transmit, Corrupt, LinkDown, vars, channelVars
<1> QED BY <1>1, <1>2 DEF OneLoopInv, News, IsSeq, senderVars, receiverVars

LEMMA OverlapKeepsOutcome ==
  ASSUME LoopsInv, OverlapNext \/ UNCHANGED allVars
  PROVE  LoopsInv' /\ (sState \in SDone => sState' = sState \/ loops # <<>>)
<1>1. CASE UNCHANGED allVars
  <2>1. UNCHANGED vars /\ UNCHANGED loops
    BY <1>1 DEF allVars, overlapVars, loopVars
  <2>2. loops = <<>> => OneLoopInv'
    BY <2>1, NetworkKeepsOutcome DEF LoopsInv
  <2> QED BY <2>1, <2>2 DEF LoopsInv, vars, senderVars
<1>2. CASE OverlapNext /\ loops # <<>>
  BY <1>2, LoopsStay DEF LoopsInv
<1>3. CASE OverlapNext /\ loops = <<>>
  <2>0. OneLoopInv /\ SenderInv /\ IsSeq(toSender)
    BY <1>3 DEF LoopsInv, OneLoopInv
  <2>1. CASE Once
    <3>1. Next /\ UNCHANGED loops
      BY <2>1 DEF Once, overlapVars, loopVars
    <3>2. OneLoopInv' /\ (sState \in SDone => sState' = sState)
      <4>1. CASE SenderStep
        BY <2>0, <4>1, SenderKeepsOutcome DEF SenderStep
      <4>2. CASE ReceiverStep
        BY <2>0, <4>2, ReceiverIsTidy, TidyKeepsOutcome DEF ReceiverStep
      <4>3. CASE NetworkStep
        BY <2>0, <4>3, NetworkKeepsOutcome
      <4> QED BY <3>1, <4>1, <4>2, <4>3 DEF Next
    <3> QED BY <1>3, <3>1, <3>2 DEF LoopsInv
  <2>2. CASE AcceptAgain \/ AcceptRefused \/ ReceiverTwice
    <3>1. UNCHANGED senderVars /\ UNCHANGED loops
      BY <2>2 DEF AcceptAgain, AcceptRefused, ReceiverTwice, loopVars
    <3>2. Tidy
      BY <2>0, <2>2, <3>1, CallsAreTidy, TwiceIsTidy
    <3> QED BY <1>3, <2>0, <3>1, <3>2, TidyKeepsOutcome DEF LoopsInv
  <2>3. CASE NetworkTwice
    <3>1. NetworkStep /\ UNCHANGED loops
      BY <2>3 DEF NetworkTwice, overlapVars, loopVars
    <3> QED BY <1>3, <2>0, <3>1, NetworkKeepsOutcome DEF LoopsInv
  <2>4. CASE SenderTwice /\ OnAcceptAgain
    <3>1. sState \notin SDone
      BY <2>0, <2>4, ReadIs DEF OnAcceptAgain
    <3>2. DOMAIN loops' = Call /\ loops' # <<>>
      BY <2>4 DEF OnAcceptAgain, Call
    <3> QED BY <3>1, <3>2 DEF LoopsInv
  <2>5. CASE SenderTwice /\ ~OnAcceptAgain
    <3>1. /\ SenderNext /\ UNCHANGED receiverVars
          /\ UNCHANGED loopVars \/ Cleanup
      BY <1>3, <2>5 DEF SenderTwice, SenderNext
    <3>2. OneLoopInv' /\ (sState \in SDone => sState' = sState)
      BY <2>0, <3>1, SenderKeepsOutcome
    <3>3. loops' = <<>>
      BY <1>3, <3>1 DEF Cleanup, loopVars, Killed
    <3> QED BY <3>2, <3>3 DEF LoopsInv
  <2> QED BY <1>3, <2>1, <2>2, <2>3, <2>4, <2>5 DEF OverlapNext
<1> QED BY <1>1, <1>2, <1>3

LEMMA LoopsInvariant == OverlapSpec => []LoopsInv
<1>1. OverlapInit => LoopsInv
  BY DEF OverlapInit, Init, ChannelsInit, SenderInit, ReceiverInit, LoopsInv, OneLoopInv, SenderInv,
         IsSeq, News, Tells, Loop, Sending
<1>2. LoopsInv /\ [OverlapNext]_allVars => LoopsInv'
  BY OverlapKeepsOutcome
<1> QED BY <1>1, <1>2, PTL DEF OverlapSpec

\* What the sender's screen shows at the end stays, however often the batch is
\* accepted, until a second MANIFEST_ACCEPT has started a second read loop
\* (sender.ts, fail, cleanup, sendBatch and onControl).
THEOREM SenderOutcomeStays == OverlapSpec => OutcomeFinalButForLoops
<1>1. LoopsInv /\ [OverlapNext]_allVars => [(sState \in SDone) => (sState' = sState \/ loops # <<>>)]_allVars
  BY OverlapKeepsOutcome
<1> QED BY <1>1, LoopsInvariant, PTL DEF OverlapSpec, OutcomeFinalButForLoops
=============================================================================
