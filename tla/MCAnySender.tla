----------------------------- MODULE MCAnySender -----------------------------
(* Three files small enough to share one chunk. *)
EXTENDS AnySender
ThreeFiles == <<2, 1, 2>>
Misbehaviour == {"overrun", "short", "write", "close", "silence"}
=============================================================================
