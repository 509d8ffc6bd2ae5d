------------------------------- MODULE MCRelay -------------------------------
(* Instances of Relay for TLC: a sender that reconnects, and a receiver. *)
EXTENDS Relay

CONSTANTS s1, s2, r1

Reconnecting == [c \in {s1, s2, r1} |-> IF c = r1 THEN "receiver" ELSE "sender"]
Silent == [c \in {s1, s2, r1} |-> 0]
OneAnswer == [c \in {s1, s2, r1} |-> IF c = r1 THEN 1 ELSE 0]
=============================================================================
