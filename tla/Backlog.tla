------------------------------- MODULE Backlog -------------------------------
(***************************************************************************)
(* apps/web/src/lib/transfer/backlog.ts: bytes taken off the wire and not  *)
(* yet written, and when to ask the sender to pause or to resume.          *)
(***************************************************************************)
EXTENDS Naturals

CONSTANTS High, Low

ASSUME BacklogAssumption == High \in Nat /\ Low \in Nat /\ Low < High

Backlog == [bytes : Nat, paused : BOOLEAN]
EmptyBacklog == [bytes |-> 0, paused |-> FALSE]

\* Mutants: the chunk that fills the backlog is not counted; the pause is not remembered.
ArrivedUncounted(b, size) ==
  [bytes |-> IF b.bytes + size >= High THEN b.bytes ELSE b.bytes + size, paused |-> b.paused]
ArrivedForgotten(b, size) == [bytes |-> b.bytes + size, paused |-> b.paused]

\* arrived(size) returns true, and the sender is paused, when MustPause holds.
MustPause(b, size) == ~b.paused /\ b.bytes + size >= High
Arrived(b, size) == [bytes |-> b.bytes + size, paused |-> b.paused \/ MustPause(b, size)]

\* Mutants: resume only below the low-water mark; the size is read off a detached buffer.
MayResumeBelow(b, size) == b.paused /\ b.bytes - size < Low
WrittenDetached(b, size) == [bytes |-> b.bytes, paused |-> b.paused /\ b.bytes - size > Low]

\* written(size), with the size measured on arrival.
MayResume(b, size) == b.paused /\ b.bytes - size <= Low
Written(b, size) == [bytes |-> b.bytes - size, paused |-> b.paused /\ ~MayResume(b, size)]
=============================================================================
