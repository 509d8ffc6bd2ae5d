----------------------------- MODULE MCTransfer -----------------------------
(* Small batches, and the failures each run allows, for TLC. *)
EXTENDS Transfer

UnevenFiles == <<3, 1>>
FlowFiles == <<3, 2>>
GrowingFiles == <<1, 3>>

UserChoices == {"dialog", "decline", "userPause", "senderCancel", "receiverCancel"}
Failures == {"link", "corrupt", "read", "hash", "write", "open", "close"}
AnyEvent == UserChoices \cup Failures \cup {"silence"}
PauseAndDialog == {"userPause", "dialog"}
AnyFault == AnyEvent \cup {"digest"}
LinkOnly == {"link"}
=============================================================================
