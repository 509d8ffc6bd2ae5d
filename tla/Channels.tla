------------------------------ MODULE Channels ------------------------------
(***************************************************************************)
(* The batch being sent and the two data channels that carry it.           *)
(*                                                                         *)
(* "control" and "data" (connection.ts, createChannels) are two ordered,   *)
(* reliable SCTP streams of one peer connection.  Each is a FIFO of its    *)
(* own; nothing orders a message of one against a message of the other.    *)
(* The browser's side of them (delivery, bufferedAmount, closing) is not   *)
(* part of the repository and is modelled from how the engine uses it.     *)
(*                                                                         *)
(* A byte is the pair <<file, position>>, so that a byte in the wrong file *)
(* or at the wrong place is visible; the perfect hash of a file is the     *)
(* sequence of bytes fed to the hasher.                                    *)
(***************************************************************************)
EXTENDS Naturals, Sequences

CONSTANTS Sizes,      \* size of each file of the batch, in manifest order
          Events,     \* kinds of user choices and failures that may happen
          MaxEvents   \* bound: how many of them one behaviour contains

ASSUME BatchAssumption == /\ Sizes \in Seq(Nat \ {0})
                          /\ Len(Sizes) > 0
ASSUME EventsAssumption == MaxEvents \in Nat

VARIABLES toReceiver,     \* control messages on their way to the receiver
          toSender,       \* control messages on their way to the sender
          dataBuf,        \* chunks in the sender's send buffer
          bufferedAmount, \* their bytes, as RTCDataChannel reports them
          dataNet,        \* chunks that left the buffer and are in flight
          sOpen, rOpen,   \* readyState = "open", as each side sees it
          linkUp,         \* the network path still carries packets
          spent           \* user choices and failures so far

channelVars == <<toReceiver, toSender, dataBuf, bufferedAmount, dataNet,
                 sOpen, rOpen, linkUp, spent>>

File == 1 .. Len(Sizes)
Content(f) == [k \in 1 .. Sizes[f] |-> <<f, k>>]
Corrupted == <<0, 0>>
Byte == (File \X Nat) \cup {Corrupted}
Chunk == Seq(Byte)

ToReceiverMsg == [type : {"TRANSFER_START", "TRANSFER_COMPLETE", "TRANSFER_FAILED"}]
                 \cup [type : {"FILE_DONE"}, file : File, sha : Chunk]
ToSenderMsg == [type : {"MANIFEST_ACCEPT", "MANIFEST_REJECT", "PAUSE", "RESUME",
                        "TRANSFER_VERIFIED", "TRANSFER_FAILED"}]
               \cup [type : {"FILE_VERIFIED"}, file : File]

ChannelsTypeOK ==
  /\ toReceiver \in Seq(ToReceiverMsg)
  /\ toSender \in Seq(ToSenderMsg)
  /\ dataBuf \in Seq(Chunk)
  /\ bufferedAmount \in Nat
  /\ dataNet \in Seq(Chunk)
  /\ sOpen \in BOOLEAN /\ rOpen \in BOOLEAN /\ linkUp \in BOOLEAN
  /\ spent \in Nat

ChannelsInit ==
  /\ toReceiver = <<>> /\ toSender = <<>>
  /\ dataBuf = <<>> /\ bufferedAmount = 0 /\ dataNet = <<>>
  /\ sOpen = TRUE /\ rOpen = TRUE /\ linkUp = TRUE
  /\ spent = 0

\* sendControl: a message for a channel that is not open is dropped.
SendControl(open, queue, msg) == IF open THEN Append(queue, msg) ELSE queue

\* A user choice or a failure of kind k happens now.
Happens(k) == k \in Events /\ spent < MaxEvents /\ spent' = spent + 1

\* The other end closed, or the network path is gone.
SenderAlone == ~linkUp \/ ~rOpen
ReceiverAlone == ~linkUp \/ ~sOpen

-----------------------------------------------------------------------------
\* SCTP takes the oldest chunk out of the send buffer.
Transmit ==
  /\ sOpen /\ linkUp /\ dataBuf # <<>>
  /\ dataNet' = Append(dataNet, Head(dataBuf))
  /\ dataBuf' = Tail(dataBuf)
  /\ bufferedAmount' = bufferedAmount - Len(Head(dataBuf))
  /\ UNCHANGED <<toReceiver, toSender, sOpen, rOpen, linkUp, spent>>

\* A chunk in flight is damaged: what the digest of each file is there for.
Corrupt ==
  /\ Happens("corrupt")
  /\ \E i \in DOMAIN dataNet : \E k \in DOMAIN dataNet[i] :
        dataNet' = [dataNet EXCEPT ![i][k] = Corrupted]
  /\ UNCHANGED <<toReceiver, toSender, dataBuf, bufferedAmount, sOpen, rOpen, linkUp>>

\* The path dies: nothing is delivered any more, in either direction.
LinkDown ==
  /\ linkUp /\ Happens("link")
  /\ linkUp' = FALSE
  /\ UNCHANGED <<toReceiver, toSender, dataBuf, bufferedAmount, dataNet, sOpen, rOpen>>
=============================================================================
