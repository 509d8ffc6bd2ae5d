------------------------------ MODULE Transfer ------------------------------
(***************************************************************************)
(* One batch between FileSender and FileReceiver over the two channels.    *)
(* Accept is clicked again only after a dismissed dialog; Overlap adds a   *)
(* click on top of a call of accept() that is still running.               *)
(***************************************************************************)
EXTENDS Sender, Receiver

vars == <<channelVars, senderVars, receiverVars>>

Init == ChannelsInit /\ SenderInit /\ ReceiverInit

SenderStep == SenderNext /\ UNCHANGED receiverVars
ReceiverStep == ReceiverNext /\ UNCHANGED senderVars
NetworkStep == (Transmit \/ Corrupt \/ LinkDown) /\ UNCHANGED <<senderVars, receiverVars>>

Next == SenderStep \/ ReceiverStep \/ NetworkStep

Spec == Init /\ [][Next]_vars

\* Both event loops keep running the tasks that are due, the browsers keep
\* delivering while the path is up and report a connection that is gone, and a
\* user who paused resumes.  Accepting, cancelling and failing are nobody's duty.
SenderFairness ==
  /\ WF_vars(SenderLoop /\ UNCHANGED receiverVars)
  /\ WF_vars(SenderControl /\ UNCHANGED receiverVars)
  /\ WF_vars(SenderLoss /\ UNCHANGED receiverVars)
  /\ WF_vars(Resume /\ UNCHANGED receiverVars)
  /\ WF_vars(Transmit /\ UNCHANGED <<senderVars, receiverVars>>)
ReceiverFairness ==
  /\ WF_vars(ReceiverMicrotask /\ UNCHANGED senderVars)
  /\ WF_vars(AtRest /\ ChunkArrives /\ UNCHANGED senderVars)
  /\ WF_vars(AtRest /\ ReceiverControl /\ UNCHANGED senderVars)
  /\ WF_vars(AtRest /\ ReceiverQueue /\ UNCHANGED senderVars)
  /\ WF_vars(AtRest /\ TailArrives /\ UNCHANGED senderVars)
  /\ WF_vars(AtRest /\ (DestinationOpens \/ FirstFileOpens \/ Accepted) /\ UNCHANGED senderVars)
  /\ WF_vars(AtRest /\ ReceiverLoss /\ UNCHANGED senderVars)

FairSpec == Spec /\ SenderFairness /\ ReceiverFairness

-----------------------------------------------------------------------------
TypeOK == ChannelsTypeOK /\ SenderTypeOK /\ ReceiverTypeOK

\* A file is only called verified when the bytes on disk are the sender's, in
\* order, whatever happened to the chunks on the way.
VerifiedIsExact == \A f \in File : rStatus[f] = "verified" => disk[f] = Content(f)

\* "Sent and verified" on the sender's screen means that every file is whole
\* and closed on the receiver's disk, not that the last byte was pushed.
CompleteMeansSaved ==
  sState = "complete" => \A f \in File : fate[f] = "saved" /\ disk[f] = Content(f)

\* A batch that failed never ends as complete: fail() can land while finish()
\* is awaiting the write queue.
NoSuccessAfterFailure == aborted => rState # "complete" /\ ~verified

\* What the sender, having been told now, will believe once it has read the
\* queue: the last PAUSE or RESUME in it decides.
Signal(msg) == msg.type \in {"PAUSE", "RESUME"}
Believes(queue, now) ==
  IF \E i \in DOMAIN queue : Signal(queue[i])
  THEN \E i \in DOMAIN queue : /\ queue[i].type = "PAUSE"
                               /\ \A j \in DOMAIN queue : j > i => ~Signal(queue[j])
  ELSE now
WillBePaused == Believes(toSender, remotePaused)

\* PAUSE and RESUME never get out of step with the receiver's backlog: the
\* sender is neither left paused for good nor let go over a full backlog.
PauseInStep == rOpen /\ sOpen => WillBePaused = backlog.paused

\* The backlog counts exactly the bytes taken off the wire and not yet
\* consumed, although the hashing worker detaches each buffer meanwhile.
BacklogIsQueue == backlog.bytes = Len(FlattenSeq(writes))

\* While nothing failed, the bytes written are exactly the files before index
\* and the beginning of that file.
InStep ==
  ~aborted /\ ~closed /\ accepting = "yes" =>
     received = FirstBytes[index - 1] + (IF sink = 0 THEN 0 ELSE Len(rHashed))

\* Backpressure never wedges a transfer: without a failure, an accepted batch
\* is received whole, whatever the user pauses and however the streams race.
BatchCompletes == (accepting = "yes") ~> (rState = "complete")

\* Where a transfer does hang: a digest that cannot be computed (hasher.final,
\* outside any try) rejects the write queue for good, and before the last file
\* nobody is told: later chunks pile up, the sender is paused and stays so.
QueueLost == broken /\ index < Len(Sizes)
\* And where a screen shows progress that is over: the page was left, or the
\* accept() under way when the batch ended put "receiving" over its outcome.
Left == closed /\ ~aborted
Revived == aborted /\ rState = "receiving"

\* The sender's screen does not stay on "sending" or "verifying" for ever, unless
\* the receiver's write queue is lost.
SenderSettles ==
  (sState \in {"transferring", "verifying"}) ~> (sState \in SDone \/ cancelled \/ QueueLost)

\* Nor does the receiver's, but for the same case and an outcome overwritten.
ReceiverSettles ==
  (rState \in {"receiving", "verifying"}) ~> (rState \in RDone \/ QueueLost \/ Left \/ Revived)

\* drain() lets go of the read loop in the end: a channel that closes meanwhile
\* is said not to leave it hanging.
DrainReturns == (loop = "drain") ~> (loop # "drain")

-----------------------------------------------------------------------------
\* A receiver that was only closed may still find it has everything.
ReceiverOutcome == IF verified THEN "complete" ELSE IF aborted THEN "stopped" ELSE "working"
SenderOutcome == IF sState = "complete" THEN "complete"
                 ELSE IF sState \in SDone \/ cancelled THEN "stopped" ELSE "working"

Promise == INSTANCE Delivery WITH Files <- Len(Sizes),
                                  saved <- Cardinality({f \in File : rStatus[f] = "verified"}),
                                  receiver <- ReceiverOutcome,
                                  sender <- SenderOutcome

\* The two engines implement the contract of Delivery: files are saved one at a
\* time, the receiver completes only with all of them, the sender only after it.
ImplementsDelivery == Promise!DeliverySpec
=============================================================================
