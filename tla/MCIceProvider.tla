---------------------------- MODULE MCIceProvider ----------------------------
(* Instances of IceProvider for TLC. *)
EXTENDS IceProvider

CONSTANTS p1, p2, p3
=============================================================================
