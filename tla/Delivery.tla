------------------------------ MODULE Delivery ------------------------------
(***************************************************************************)
(* What a batch transfer promises, without channels, chunks or awaits: the *)
(* receiver saves the files in order, says "complete" only when it has all *)
(* of them, and the sender says "complete" only after the receiver did.    *)
(* Either side may stop at any time before that.                           *)
(* The contract is the one protocol/README.md gives for FILE_VERIFIED and  *)
(* TRANSFER_VERIFIED.                                                      *)
(***************************************************************************)
EXTENDS Naturals

CONSTANT Files \* number of files in the batch

VARIABLES saved, receiver, sender

outcomes == {"working", "complete", "stopped"}

DeliveryInit == saved = 0 /\ receiver = "working" /\ sender = "working"

\* The last file of a stopped receiver may still have been on its way to disk.
Save == /\ saved < Files /\ receiver # "complete"
        /\ saved' = saved + 1
        /\ UNCHANGED <<receiver, sender>>

ReceiverEnds == /\ receiver = "working"
                /\ \/ receiver' = "stopped"
                   \/ receiver' = "complete" /\ saved = Files
                /\ UNCHANGED <<saved, sender>>

SenderEnds == /\ sender = "working"
              /\ \/ sender' = "stopped"
                 \/ sender' = "complete" /\ receiver = "complete"
              /\ UNCHANGED <<saved, receiver>>

DeliveryNext == Save \/ ReceiverEnds \/ SenderEnds

DeliverySpec == DeliveryInit /\ [][DeliveryNext]_<<saved, receiver, sender>>
=============================================================================
