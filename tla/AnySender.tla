------------------------------ MODULE AnySender ------------------------------
(***************************************************************************)
(* FileReceiver against any peer that speaks protocol v2.  The web sender  *)
(* starts a new chunk at every file; the protocol lets a chunk straddle a  *)
(* boundary and several small files share one (protocol/README.md,         *)
(* Batching), and that is what BatchCursor is for.  The peer here cuts the *)
(* batch into chunks of any length, and may also send more than it         *)
(* declared, or announce completion early.                                 *)
(***************************************************************************)
EXTENDS Receiver

CONSTANTS MaxChunk,   \* bound: longest chunk
          MaxInFlight \* bound: chunks in flight at a time

ASSUME MaxChunkAssumption == MaxChunk \in Nat

VARIABLES started,   \* the peer has read MANIFEST_ACCEPT
          pos,       \* bytes of the batch sent
          announced, \* files whose digest has been announced
          ended      \* TRANSFER_COMPLETE has been sent

peerVars == <<started, pos, announced, ended>>
vars == <<channelVars, receiverVars, peerVars>>

Stream == FlattenSeq([f \in File |-> Content(f)])

Init == /\ ChannelsInit /\ ReceiverInit
        /\ started = FALSE /\ pos = 0 /\ announced = 0 /\ ended = FALSE

PeerReads ==
  /\ linkUp /\ toSender # <<>>
  /\ toSender' = Tail(toSender)
  /\ started' = (started \/ Head(toSender).type = "MANIFEST_ACCEPT")
  /\ UNCHANGED <<pos, announced, ended, toReceiver, dataBuf, bufferedAmount, dataNet,
                 sOpen, rOpen, linkUp, spent>>

\* Chunks of any length, also across files; past the declared end only if "overrun" happens.
PeerSends ==
  /\ started /\ ~ended /\ Len(dataNet) < MaxInFlight
  /\ \E n \in 1 .. MaxChunk :
       /\ IF pos + n <= Len(Stream) THEN UNCHANGED spent ELSE Happens("overrun")
       /\ dataNet' = Append(dataNet, SubSeq(Stream \o [i \in 1 .. n |-> Corrupted], pos + 1, pos + n))
       /\ pos' = IF pos + n <= Len(Stream) THEN pos + n ELSE Len(Stream)
  /\ UNCHANGED <<started, announced, ended, toReceiver, toSender, dataBuf, bufferedAmount,
                 sOpen, rOpen, linkUp>>

PeerAnnounces ==
  /\ announced < Len(Sizes) /\ pos >= FirstBytes[announced + 1]
  /\ announced' = announced + 1
  /\ toReceiver' = Append(toReceiver, [type |-> "FILE_DONE", file |-> announced + 1,
                                       sha |-> Content(announced + 1)])
  /\ UNCHANGED <<started, pos, ended, toSender, dataBuf, bufferedAmount, dataNet,
                 sOpen, rOpen, linkUp, spent>>

PeerEnds ==
  /\ started /\ ~ended
  /\ IF announced = Len(Sizes) THEN UNCHANGED spent ELSE Happens("short")
  /\ ended' = TRUE
  /\ toReceiver' = Append(toReceiver, [type |-> "TRANSFER_COMPLETE"])
  /\ UNCHANGED <<started, pos, announced, toSender, dataBuf, bufferedAmount, dataNet,
                 sOpen, rOpen, linkUp>>

PeerStep == PeerReads \/ PeerSends \/ PeerAnnounces \/ PeerEnds

Next == \/ PeerStep /\ UNCHANGED receiverVars
        \/ ReceiverNext /\ UNCHANGED peerVars

Spec == Init /\ [][Next]_vars

-----------------------------------------------------------------------------
\* No byte lands in the wrong file, at the wrong place or past the declared end
\* of a file, however the batch was cut into chunks and whatever fails.
BytesInPlace == \A f \in File : IsPrefix(disk[f], Content(f))

\* A batch that came short, or with more than it declared, is never called complete.
CompleteIsWhole == verified => \A f \in File : disk[f] = Content(f) /\ rStatus[f] = "verified"

\* An honest batch never fails, however its chunks fall on the files: the piece
\* being written always belongs to the file whose sink is open, and the cursor
\* never counts declared bytes as an overflow.
NeverOutOfStep == rState = "failed" => spent > 0
=============================================================================
