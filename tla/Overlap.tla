------------------------------- MODULE Overlap -------------------------------
(***************************************************************************)
(* The batch of Transfer, accepted twice.  The Accept button is on screen  *)
(* while the state is "offered" (t/[session]/page.tsx), that is until the  *)
(* first call of accept() has opened its file and its hasher; neither      *)
(* accept() nor the sender's MANIFEST_ACCEPT asks whether a transfer is    *)
(* under way.  A second call opens a second destination, replaces          *)
(* this.sink and this.hasher under the write queue, starts the counting    *)
(* again and sends a second MANIFEST_ACCEPT, on which the sender starts a  *)
(* second read loop over the same channel.                                 *)
(*                                                                         *)
(* A third click is left out.  From the second click on copies and kept,   *)
(* which tell the two destinations apart, stand for disk and fate; and the *)
(* labels beside the sender's files are left to its first loop.            *)
(***************************************************************************)
EXTENDS Transfer

VARIABLES again,  \* the second call: "no", then as accepting, "over" at its end;
                  \* "refused" when no second dialog could open, "dismissed" when it was
          place,  \* the call in whose destination this.sink lies
          mine,   \* the call that made this.hasher, 0 if the write queue did
          dead,   \* calls whose hashing worker cleanup() terminated
          holds,  \* what the task of the queue holds: own, this.sink and this.hasher, or a
                  \* sink in place and a hasher fed with fed that are so no longer
          copies, \* the bytes written of each file in the destination of each call
          kept,   \* the files closed there
          loops,  \* the sender's two read loops, <<>> until there are two
          newest  \* the loop whose worker is the sender's this.hasher, 0 if neither's

callVars == <<again, place, mine>>
diskVars == <<holds, copies, kept>>
secondVars == <<callVars, dead, diskVars>>
loopVars == <<loops, newest>>
overlapVars == <<secondVars, loopVars>>
allVars == <<vars, overlapVars>>

Call == {1, 2}
Own == [holds EXCEPT !.own = TRUE]

OverlapInit ==
  /\ Init
  /\ again = "no" /\ place = 1 /\ mine = 1 /\ dead = {}
  /\ holds = [own |-> TRUE, alive |-> TRUE, place |-> 1, fed |-> <<>>]
  /\ copies = [c \in Call |-> [f \in File |-> <<>>]] /\ kept = {}
  /\ loops = <<>> /\ newest = 0

-----------------------------------------------------------------------------
(* the second call of accept() *)

\* The first call has its destination: nothing stops the second.
AcceptAgain ==
  /\ AtRest /\ ~closed /\ rState = "offered" /\ accepting \in {"open", "init"}
  /\ again = "no" /\ Happens("acceptAgain")
  /\ again' = "dest"
  /\ UNCHANGED <<senderVars, receiverVars, transport, toSender, rOpen, place, mine, dead,
                 diskVars, loopVars>>

\* A dialog is open: the browser refuses a second one, and accept() fails the batch.
AcceptRefused ==
  /\ AtRest /\ ~closed /\ rState = "offered" /\ accepting = "dest"
  /\ again = "no" /\ Happens("acceptAgain")
  /\ again' = "refused"
  /\ RFail("failed")
  /\ UNCHANGED <<senderVars, queueing, accepting, index, cursor, received, rHashed, toSender,
                 transport, place, mine, dead, diskVars, loopVars>>

SecondDestination ==
  /\ again = "dest" /\ again' = "open"
  /\ received' = 0 /\ index' = 1 /\ cursor' = AtStart
  /\ UNCHANGED <<failing, queueing, accepting, rHashed, toSender, transport, spent, place, mine,
                 diskVars>>

\* Call c has the first file of its destination open: the sink and the hasher
\* that were there are replaced, also for a task of the queue that awaits them.
Opened(c) ==
  /\ sink' = 1 /\ rHasher' = TRUE /\ rHashed' = <<>> /\ place' = c /\ mine' = c
  /\ holds' = IF task = "idle" \/ ~holds.own THEN holds
              ELSE [own |-> FALSE, alive |-> rHasher, place |-> place, fed |-> rHashed]
  /\ UNCHANGED <<rState, aborted, closed, rStatus, rOpen, fate, queueing, index, cursor, received,
                 toSender, transport, spent, copies, kept>>

FirstOpened == accepting = "open" /\ Opened(1) /\ accepting' = "init" /\ UNCHANGED again
SecondOpened == again = "open" /\ Opened(2) /\ again' = "init" /\ UNCHANGED accepting

\* The hasher of call c is ready.  Neither the state nor a failure is looked at;
\* a batch whose last file was closed meanwhile has no row to mark, and throws.
Ready(c) ==
  /\ c \notin dead
  /\ IF index \in File
     THEN /\ rStatus' = [rStatus EXCEPT ![index] = "receiving"]
          /\ rState' = "receiving"
          /\ toSender' = SendControl(rOpen, toSender, [type |-> "MANIFEST_ACCEPT"])
          /\ UNCHANGED <<aborted, closed, sink, fate, rHasher, rOpen>>
     ELSE RFail("failed") /\ UNCHANGED toSender
  /\ UNCHANGED <<queueing, index, cursor, received, rHashed, transport, spent, place, mine, diskVars>>

FirstReady == accepting = "init" /\ Ready(1) /\ accepting' = "yes" /\ UNCHANGED again
SecondReady == again = "init" /\ Ready(2) /\ again' = "over" /\ UNCHANGED accepting

\* The second dialog is dismissed; or it, its file or its hasher fails.
SecondFails ==
  /\ \/ again = "dest" /\ Happens("dialog") /\ again' = "dismissed" /\ UNCHANGED failing
     \/ again = "dest" /\ Happens("open") /\ again' = "dismissed" /\ RFail("failed")
     \/ again = "open" /\ Happens("open") /\ again' = "over" /\ RFail("failed")
     \/ again = "init" /\ 2 \notin dead /\ Happens("hash") /\ again' = "over" /\ RFail("failed")
  /\ UNCHANGED <<queueing, accepting, index, cursor, received, rHashed, toSender, transport,
                 place, mine, diskVars>>

-----------------------------------------------------------------------------
(* the write queue, under two calls *)

HeldPlace == IF holds.own THEN place ELSE holds.place
HeldHash == IF holds.own THEN rHashed ELSE holds.fed
HeldAlive == IF holds.own THEN rHasher ELSE holds.alive
HeldVerdict(sha) == IF HeldHash = sha THEN "close" ELSE "abort"
\* this.destination
Destination == IF again \in {"open", "init", "over"} THEN 2 ELSE 1
PieceFile == Head(pieces).index

Consumes == ConsumeStart /\ holds' = Own /\ UNCHANGED <<copies, kept>>

\* The bytes went to the sink of before, this.hasher is read only now.
PieceLands ==
  /\ PieceWritten
  /\ copies' = [copies EXCEPT ![HeldPlace][PieceFile] = @ \o PieceBytes]
  /\ holds' = Own /\ UNCHANGED kept

\* A hasher answers in order: its init first.  closeCurrent without a sink or a
\* hasher returns, and the rest of the chunk is dropped.
PieceCounts ==
  /\ task = "hash" /\ HeldAlive
  /\ holds.own => ~(mine = 1 /\ accepting = "init") /\ ~(mine = 2 /\ again = "init")
  /\ rHashed' = IF holds.own THEN rHashed \o PieceBytes ELSE rHashed
  /\ received' = received + Head(pieces).length
  /\ holds' = Own
  /\ IF ~Head(pieces).endsFile THEN Advance(Tail(pieces), rStatus)
     ELSE /\ UNCHANGED failing
          /\ IF rHasher /\ sink # 0
             THEN task' = "final" /\ UNCHANGED <<writes, pieces, backlog, ahead, toSender>>
             ELSE ChunkDone(toSender)
  /\ UNCHANGED <<verified, accepting, finishing, index, cursor, broken, digests, disk, transport,
                 spent, copies, kept>>

\* this.hasher = null, whosever it is.
DigestKnown ==
  /\ task = "final" /\ HeldAlive
  /\ rHasher' = FALSE
  /\ task' = IF digests[PieceFile] = <<>> THEN "digest" ELSE HeldVerdict(digests[PieceFile])
  /\ UNCHANGED <<rState, aborted, verified, closed, accepting, finishing, index, cursor, received,
                 writes, pieces, ahead, broken, sink, rHashed, digests, backlog, rStatus, disk,
                 fate, toSender, rOpen, transport, spent, diskVars>>

DigestHeard ==
  /\ RReceive("FILE_DONE")
  /\ LET msg == Head(toReceiver) IN
       /\ digests' = [digests EXCEPT ![msg.file] = msg.sha]
       /\ task' = IF task = "digest" /\ msg.file = PieceFile THEN HeldVerdict(msg.sha) ELSE task
  /\ UNCHANGED <<failing, finishing, toSender, diskVars>>

Closes ==
  /\ task = "close"
  /\ kept' = kept \cup {<<HeldPlace, PieceFile>>}
  /\ sink' = 0 /\ index' = PieceFile + 1
  /\ rStatus' = [rStatus EXCEPT ![PieceFile] = "verified"]
  /\ holds' = [holds EXCEPT !.own = FALSE, !.place = Destination]
  /\ UNCHANGED <<rState, aborted, verified, closed, accepting, finishing, cursor, received, broken,
                 rHasher, rHashed, digests, disk, fate, rOpen, transport, spent, copies>>
  /\ LET queue == SendControl(rOpen, toSender, [type |-> "FILE_VERIFIED", file |-> PieceFile]) IN
     IF PieceFile < Len(Sizes)
     THEN task' = "open" /\ toSender' = queue /\ UNCHANGED <<writes, pieces, backlog, ahead>>
     ELSE ChunkDone(queue)

NextOpened ==
  /\ task = "open" /\ task' = "init"
  /\ sink' = PieceFile + 1 /\ place' = holds.place
  /\ rHasher' = TRUE /\ rHashed' = <<>> /\ mine' = 0
  /\ holds' = Own
  /\ UNCHANGED <<rState, aborted, verified, closed, accepting, finishing, index, cursor, received,
                 writes, pieces, ahead, broken, digests, backlog, rStatus, disk, fate, toSender,
                 rOpen, transport, spent, again, copies, kept>>

NextReady ==
  /\ task = "init" /\ HeldAlive
  /\ Advance(Tail(pieces), [rStatus EXCEPT ![index] = "receiving"])
  /\ holds' = Own
  /\ UNCHANGED <<verified, accepting, finishing, index, cursor, received, broken, rHashed,
                 digests, disk, transport, spent, copies, kept>>

\* fail(), finish(), decline() and cancel() terminate this.hasher, and only it.
Terminated == rHasher /\ ~rHasher' /\ ~(task = "final" /\ task' # "final")

Calls == FirstOpened \/ SecondOpened \/ FirstReady \/ SecondReady \/ SecondDestination \/ SecondFails
Queue == PieceLands \/ PieceCounts \/ DigestKnown \/ DigestHeard \/ Closes \/ NextReady
\* What does not touch the sink or the hasher goes on as before, and so does every failure.
AsBefore == \/ ChunkArrives \/ TailArrives \/ OnTransferStart \/ OnTransferComplete
            \/ ROnTransferFailed \/ ReceiverLoss \/ Mismatch \/ PieceFails \/ DigestFails
            \/ CloseFails \/ NextFileFails \/ AcceptFails \/ Decline \/ RCancel

TwiceMicrotask == (Consumes \/ (Finish /\ UNCHANGED diskVars)) /\ UNCHANGED callVars
TwiceTask == /\ AtRest
             /\ \/ Calls \/ NextOpened
                \/ Queue /\ UNCHANGED callVars
                \/ AsBefore /\ UNCHANGED <<callVars, diskVars>>

ReceiverTwice ==
  /\ again # "no"
  /\ TwiceMicrotask \/ TwiceTask
  /\ dead' = IF Terminated THEN dead \cup {mine} ELSE dead
  /\ UNCHANGED <<senderVars, loopVars>>

-----------------------------------------------------------------------------
(* two read loops *)

\* The second MANIFEST_ACCEPT: sendBatch() again, from the first file.
OnAcceptAgain ==
  /\ SReceive("MANIFEST_ACCEPT")
  /\ loop # "idle" /\ loops = <<>>
  /\ sState' = "transferring"
  /\ toReceiver' = SendControl(sOpen, toReceiver, [type |-> "TRANSFER_START"])
  /\ loops' = << [at |-> loop, file |-> current, off |-> offset, end |-> end, alive |-> sHasher],
                 [at |-> "init", file |-> 1, off |-> 0, end |-> 0, alive |-> TRUE] >>
  /\ newest' = 2
  /\ loop' = "done"
  /\ UNCHANGED <<current, offset, end, hashed, sHasher, remotePaused, userPaused, cancelled,
                 sStatus, sOpen>>

\* What the steps of either loop leave alone.
loopFrame == <<loop, current, offset, end, hashed, sHasher, remotePaused, userPaused, cancelled,
               sStatus, toSender, dataNet, rOpen, linkUp>>

Killed(ls, l) == IF l = 0 THEN ls ELSE [ls EXCEPT ![l].alive = FALSE]

\* Loop l throws: its own worker goes, and with a failure the other's if it is this.hasher.
Throws(l) ==
  LET stopped == [loops EXCEPT ![l].at = "done", ![l].alive = FALSE]
      others == IF newest = l THEN 0 ELSE newest
  IN  /\ toReceiver' = SendControl(sOpen, toReceiver, [type |-> "TRANSFER_FAILED"])
      /\ IF sState \in SDone
         THEN loops' = stopped /\ newest' = others /\ UNCHANGED <<sState, sOpen>>
         ELSE /\ loops' = Killed(stopped, others) /\ newest' = 0
              /\ sState' = "failed" /\ sOpen' = FALSE

\* Loop l, now as in r, runs to its next await.
Runs(l, r) ==
  LET stop == LoopHead(r.file, r.off, remotePaused \/ userPaused, bufferedAmount) IN
  IF stop = "throw" THEN Throws(l)
  ELSE /\ loops' = [loops EXCEPT ![l] = [r EXCEPT !.at = stop,
                                   !.end = IF stop = "read" THEN ChunkEnd(r.file, r.off) ELSE @]]
       /\ UNCHANGED <<newest, toReceiver, sState, sOpen>>

LoopGoesOn(l) ==
  LET r == loops[l] IN
  /\ \/ r.at = "init" /\ r.alive /\ Runs(l, r)
     \/ r.at = "hash" /\ r.alive /\ Runs(l, [r EXCEPT !.off = r.end])
     \/ r.at = "hold" /\ ~remotePaused /\ ~userPaused /\ Runs(l, r)
     \/ r.at = "drain" /\ bufferedAmount <= BufferLow /\ Runs(l, r)
  /\ UNCHANGED <<dataBuf, bufferedAmount, spent>>

LoopSends(l) ==
  LET r == loops[l] IN
  /\ r.at = "read"
  /\ IF sOpen
     THEN /\ dataBuf' = Append(dataBuf, SubSeq(Content(r.file), r.off + 1, r.end))
          /\ bufferedAmount' = bufferedAmount + (r.end - r.off)
          /\ loops' = [loops EXCEPT ![l].at = "hash"]
          /\ UNCHANGED <<newest, toReceiver, sState, sOpen>>
     ELSE Throws(l) /\ UNCHANGED <<dataBuf, bufferedAmount>>
  /\ UNCHANGED spent

LoopEndsFile(l) ==
  LET r == loops[l] IN
  /\ r.at = "final" /\ r.alive
  /\ toReceiver' = SendControl(sOpen, toReceiver,
                     [type |-> "FILE_DONE", file |-> r.file, sha |-> Content(r.file)])
  /\ IF r.file < Len(Sizes) /\ ~cancelled
     THEN /\ loops' = [loops EXCEPT ![l] = [r EXCEPT !.at = "init", !.file = @ + 1, !.off = 0]]
          /\ newest' = l /\ UNCHANGED sState
     ELSE /\ loops' = [loops EXCEPT ![l].at = IF cancelled THEN "done" ELSE "flush",
                                    ![l].alive = FALSE]
          /\ newest' = IF newest = l THEN 0 ELSE newest
          /\ sState' = IF cancelled THEN sState ELSE "verifying"
  /\ UNCHANGED <<sOpen, dataBuf, bufferedAmount, spent>>

LoopFlushes(l) ==
  /\ loops[l].at = "flush" /\ bufferedAmount = 0
  /\ toReceiver' = SendControl(sOpen, toReceiver, [type |-> "TRANSFER_COMPLETE"])
  /\ loops' = [loops EXCEPT ![l].at = "done"]
  /\ UNCHANGED <<newest, sState, sOpen, dataBuf, bufferedAmount, spent>>

LoopBreaks(l) ==
  LET r == loops[l] IN
  /\ \/ r.at = "flush" /\ bufferedAmount # 0 /\ ~sOpen /\ UNCHANGED spent
     \/ r.at = "read" /\ Happens("read")
     \/ r.at \in {"init", "hash", "final"} /\ r.alive /\ Happens("hash")
  /\ Throws(l)
  /\ UNCHANGED <<dataBuf, bufferedAmount>>

TwoLoops == \E l \in Call :
  \/ LoopGoesOn(l) \/ LoopSends(l) \/ LoopEndsFile(l) \/ LoopFlushes(l) \/ LoopBreaks(l)

\* cleanup() terminates the newest worker, and only it.
Cleanup ==
  IF sState' \in {sState, "complete", "transferring"} /\ cancelled' = cancelled
  THEN UNCHANGED loopVars
  ELSE loops' = Killed(loops, newest) /\ newest' = 0

SenderTwice ==
  /\ again # "no"
  /\ \/ SenderLoop /\ UNCHANGED loopVars
     \/ loops # <<>> /\ TwoLoops /\ UNCHANGED loopFrame
     \/ OnAcceptAgain
     \/ (SenderControl \/ SenderLoss \/ SenderChoices) /\ Cleanup
  /\ UNCHANGED <<receiverVars, secondVars>>

-----------------------------------------------------------------------------
Once == again = "no" /\ Next /\ UNCHANGED overlapVars
NetworkTwice == again # "no" /\ NetworkStep /\ UNCHANGED overlapVars

OverlapNext == Once \/ AcceptAgain \/ AcceptRefused \/ SenderTwice \/ ReceiverTwice \/ NetworkTwice
OverlapSpec == OverlapInit /\ [][OverlapNext]_allVars

-----------------------------------------------------------------------------
\* What the sender's screen shows at the end stays, whichever of a closing
\* connection, a message and an exception of its loop comes later, and however
\* often the batch was accepted: a second read loop, and nothing else, puts
\* "transferring" or "verifying" over an outcome.
OutcomeFinalButForLoops ==
  [][(sState \in SDone) => (sState' = sState \/ loops # <<>>)]_allVars

\* "Sent and verified" on the sender's screen: every file of the batch is whole
\* and closed in one of the places the receiver chose.
CompleteMeansKept ==
  sState = "complete" =>
    IF again = "no" THEN CompleteMeansSaved
    ELSE \A f \in File : \E c \in Call : <<c, f>> \in kept /\ copies[c][f] = Content(f)
=============================================================================
