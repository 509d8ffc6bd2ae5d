----------------------------- MODULE Rendezvous -----------------------------
(***************************************************************************)
(* What signaling and negotiation promise two people with a link: a        *)
(* connection is only ever formed between two who are both there, each     *)
(* side links at most once and only after that, and who is gone stays gone.*)
(* It promises nothing once the sender was told twice of its peer before   *)
(* its first connection existed: both negotiate twice (sender.ts:293).     *)
(***************************************************************************)
VARIABLES side,     \* where each of the two is
          formed    \* their connection has come into being

Role == {"sender", "receiver"}

Init == side = [p \in Role |-> "out"] /\ formed = FALSE

Look(p) == side[p] = "out" /\ side' = [side EXCEPT ![p] = "looking"] /\ UNCHANGED formed
Form == ~formed /\ (\A p \in Role : side[p] = "looking") /\ formed' = TRUE /\ UNCHANGED side
Link(p) == formed /\ side[p] = "looking" /\ side' = [side EXCEPT ![p] = "linked"] /\ UNCHANGED formed
Leave(p) == side[p] \in {"looking", "linked"} /\ side' = [side EXCEPT ![p] = "gone"] /\ UNCHANGED formed
Spoil == ~formed /\ side' = [p \in Role |-> "spoiled"] /\ UNCHANGED formed

Next == Form \/ Spoil \/ \E p \in Role : Look(p) \/ Link(p) \/ Leave(p)

Spec == Init /\ [][Next]_<<side, formed>>
=============================================================================
