-------------------------------- MODULE Names --------------------------------
(***************************************************************************)
(* What protocol.ts makes of a file name and of a folder path, at both     *)
(* ends: describeFiles cleans what the user picked, manifestFromMessage    *)
(* cleans it again.  A name is a sequence of characters, a path the        *)
(* sequence of its segments.                                               *)
(***************************************************************************)
EXTENDS Integers, SequencesExt

CONSTANTS MaxName,       \* 200 characters
          MaxSegments    \* 16 segments

ASSUME NamesAssumption == MaxName \in Nat \ {0} /\ MaxSegments \in Nat

Blank == " "
Dot == "."
Control == "DEL"
Fallback == <<"received-file">>

\* What is left of s without the members of S, as SelectSeq would have it.
Without(s, S) == FoldLeft(LAMBDA kept, e : IF e \in S THEN kept ELSE Append(kept, e), <<>>, s)

\* The part of s between its first and its last position in ps.
Span(s, ps) == IF ps = {} THEN <<>> ELSE SubSeq(s, Min(ps), Max(ps))

Printable(s) == Without(s, {Control})

\* replace(/^\.+/, "")
Undotted(s) ==
  LET ps == {k \in DOMAIN s : s[k] # Dot}
  IN IF ps = {} THEN <<>> ELSE SubSeq(s, Min(ps), Len(s))

\* trim()
Trimmed(s) == Span(s, {k \in DOMAIN s : s[k] # Blank})

Upto(s, n) == SubSeq(s, 1, Min({n, Len(s)}))

\* What sanitizeFilename and sanitizePath make of one segment, in this order.
Clean(s) == Upto(Trimmed(Undotted(Printable(s))), MaxName)

\* sanitizeFilename
Filename(s) == IF Clean(s) = <<>> THEN Fallback ELSE Clean(s)

\* sanitizePath
Pathname(segments) ==
  Upto(Without([k \in DOMAIN segments |-> Clean(segments[k])], {<<>>}), MaxSegments)

\* A name that is read as it was sent: cleaning it again takes nothing off.
\* The dots go before the blanks around them do, and the cut comes last.
Settled(s) == s # <<>> => s[1] # Dot /\ s[Len(s)] # Blank
=============================================================================
