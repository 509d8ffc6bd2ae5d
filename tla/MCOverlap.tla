------------------------------ MODULE MCOverlap ------------------------------
(* A batch accepted twice, for TLC. *)
EXTENDS MCTransfer, Overlap

SmallFile == <<2>>
ClickTwice == {"acceptAgain"}
=============================================================================
