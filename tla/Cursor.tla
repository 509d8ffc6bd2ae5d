------------------------------- MODULE Cursor -------------------------------
(***************************************************************************)
(* BatchCursor of apps/web/src/lib/transfer/cursor.ts: which file the next *)
(* bytes off the wire belong to.  The files of a batch follow each other   *)
(* on the data channel with nothing between them, so a chunk may end one   *)
(* file and begin the next.  Files are numbered from 1 here.               *)
(***************************************************************************)
EXTENDS Naturals, Sequences

\* A cursor into a batch of files: the file being received, the bytes
\* accepted into it and into the whole batch.
AtStart == [index |-> 1, inFile |-> 0, total |-> 0]

\* Mutant: the whole chunk goes to one file.
TakeAll(sizes, length, s) ==
  [cur |-> [index |-> s.cur.index + 1, inFile |-> 0, total |-> s.cur.total + length],
   offset |-> length,
   pieces |-> Append(s.pieces, [index |-> s.cur.index, offset |-> s.offset,
                                length |-> length, endsFile |-> TRUE])]

\* One round of split's loop: the piece of the chunk that goes to the current
\* file.  s is [cur, offset, pieces], offset counting the bytes placed so far.
Take(sizes, length, s) ==
  LET cur == s.cur
      remaining == sizes[cur.index] - cur.inFile
      take == IF remaining < length - s.offset THEN remaining ELSE length - s.offset
      endsFile == cur.inFile + take >= sizes[cur.index]
  IN  [cur |-> [index |-> IF endsFile THEN cur.index + 1 ELSE cur.index,
                inFile |-> IF endsFile THEN 0 ELSE cur.inFile + take,
                total |-> cur.total + take],
       offset |-> s.offset + take,
       pieces |-> Append(s.pieces, [index |-> cur.index, offset |-> s.offset,
                                    length |-> take, endsFile |-> endsFile])]

\* Mutant: the last file gets no bytes.
MoreButLast(sizes, length, s) == s.offset < length /\ s.cur.index < Len(sizes)

More(sizes, length, s) == s.offset < length /\ s.cur.index <= Len(sizes)

\* split(length): each round but the last ends a file, so Len(sizes) are enough.
Split(sizes, cur, length) ==
  LET rounds[n \in 0 .. Len(sizes)] ==
        IF n = 0 THEN [cur |-> cur, offset |-> 0, pieces |-> <<>>]
        ELSE LET s == rounds[n - 1]
             IN  IF More(sizes, length, s) THEN Take(sizes, length, s) ELSE s
      last == rounds[Len(sizes)]
  IN  [pieces |-> last.pieces, cur |-> last.cur, overflow |-> length - last.offset]
=============================================================================
