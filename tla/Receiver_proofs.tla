-------------------------- MODULE Receiver_proofs --------------------------
(***************************************************************************)
(* What the receiver does by itself, whoever sends: what its queue holds,  *)
(* how a chunk falls on the files of a batch, and that the cursor, the     *)
(* hasher, the sink and the counted bytes stay in step.                    *)
(***************************************************************************)
EXTENDS Receiver, WellFoundedInduction, TLAPS

LEMMA TailOK ==
  ASSUME NEW S, NEW q \in Seq(S), q # <<>>
  PROVE  Head(q) \in S /\ Tail(q) \in Seq(S)
OBVIOUS

-----------------------------------------------------------------------------
(* the bytes in the queue *)

LEMMA Induction ==
  ASSUME NEW T, 0 \in T, \A k \in Nat : k \in T => k + 1 \in T
  PROVE  \A k \in Nat : k \in T
<1> SUFFICES ASSUME NEW k \in Nat, k \notin T PROVE FALSE
  OBVIOUS
<1> DEFINE Below == OpToRel(<, Nat)
           U == Nat \ T
<1>1. \A x, y \in Nat : <<x, y>> \in Below <=> x < y
  BY DEF OpToRel
<1>2. IsWellFoundedOn(Below, Nat)
  BY NatLessThanWellFounded
<1>3. U \subseteq Nat /\ U # {}
  OBVIOUS
<1>4. PICK x \in U : \A y \in U : ~(<<y, x>> \in Below)
  <2> HIDE DEF Below, U
  <2> QED BY <1>2, <1>3, WFMin
<1>5. x \in Nat /\ x \notin T /\ x # 0
  OBVIOUS
<1>6. x - 1 \in Nat /\ x - 1 < x /\ (x - 1) + 1 = x
  BY <1>5
<1>7. x - 1 \notin U
  <2> HIDE DEF Below, U
  <2> QED BY <1>1, <1>4, <1>5, <1>6
<1> QED BY <1>5, <1>6, <1>7

\* What FlattenSeq computes, one chunk after another: g[i] is the first i joined.
Joined(queue, n, g) ==
  g = [i \in 1 .. n |-> IF i = 1 THEN queue[i] ELSE g[i - 1] \o queue[i]]

LEMMA JoinedExists ==
  ASSUME NEW queue, NEW n \in Nat
  PROVE  \E g : Joined(queue, n, g)
<1> DEFINE T == {k \in Nat : \E g : Joined(queue, k, g)}
<1>1. 0 \in T
  <2>1. 1 .. 0 = {}
    OBVIOUS
  <2>2. Joined(queue, 0, [i \in 1 .. 0 |-> 0])
    BY <2>1 DEF Joined
  <2> QED BY <2>2
<1>2. ASSUME NEW k \in Nat, k \in T PROVE k + 1 \in T
  <2>1. PICK g : Joined(queue, k, g)
    BY <1>2
  <2> DEFINE m == k + 1
             next == [i \in 1 .. m |-> IF i = m THEN IF i = 1 THEN queue[i] ELSE g[k] \o queue[i]
                                       ELSE g[i]]
  <2>2. ASSUME NEW i \in 1 .. m
        PROVE  next[i] = IF i = 1 THEN queue[i] ELSE next[i - 1] \o queue[i]
    <3>1. CASE i = m
      <4>1. i # 1 => i - 1 = k /\ k \in 1 .. m /\ k # m
        BY <3>1
      <4>2. i # 1 => next[i - 1] = g[k]
        BY <4>1
      <4>3. next[i] = IF i = 1 THEN queue[i] ELSE g[k] \o queue[i]
        BY <3>1
      <4> HIDE DEF next
      <4> QED BY <4>2, <4>3
    <3>2. CASE i # m
      <4>1. i \in 1 .. k
        BY <3>2
      <4>2. next[i] = g[i]
        BY <3>2
      <4>3. i # 1 => i - 1 \in 1 .. m /\ i - 1 # m
        BY <4>1
      <4>4. i # 1 => next[i - 1] = g[i - 1]
        BY <4>3
      <4>5. g[i] = IF i = 1 THEN queue[i] ELSE g[i - 1] \o queue[i]
        BY <2>1, <4>1 DEF Joined
      <4> HIDE DEF next
      <4> QED BY <4>2, <4>4, <4>5
    <3> QED BY <3>1, <3>2
  <2>3. next = [i \in 1 .. m |-> next[i]]
    OBVIOUS
  <2>4. Joined(queue, m, next)
    <3> HIDE DEF next, m
    <3> QED BY <2>2, <2>3 DEF Joined
  <2> QED BY <2>4
<1> HIDE DEF T
<1>3. n \in T
  BY <1>1, <1>2, Induction
<1> QED BY <1>3 DEF T

\* h[k] is how many bytes the first k chunks are.
Bytes(queue, h) ==
  /\ h \in [0 .. Len(queue) -> Nat]
  /\ h[0] = 0 /\ \A k \in 1 .. Len(queue) : h[k] = h[k - 1] + Len(queue[k])

LEMMA FlatBytes ==
  ASSUME NEW queue \in Seq(Chunk)
  PROVE  \E h : Bytes(queue, h) /\ Len(FlattenSeq(queue)) = h[Len(queue)]
<1> DEFINE n == Len(queue)
           g == CHOOSE f : Joined(queue, n, f)
<1>0. n \in Nat /\ DOMAIN queue = 1 .. n /\ (\A i \in 1 .. n : queue[i] \in Seq(Byte))
  BY DEF Chunk
<1>1. Joined(queue, n, g)
  <2> HIDE DEF n
  <2> QED BY <1>0, JoinedExists
<1>2. FlattenSeq(queue) = IF n = 0 THEN queue ELSE g[n]
  BY DEF FlattenSeq, Joined
<1> HIDE DEF n, g
<1>3. \A i \in 1 .. n : g[i] = IF i = 1 THEN queue[i] ELSE g[i - 1] \o queue[i]
  BY <1>1 DEF Joined
<1> DEFINE T == {k \in Nat : k \in 1 .. n => g[k] \in Seq(Byte)}
<1>4. \A k \in Nat : k \in T
  <2>1. 0 \in T
    OBVIOUS
  <2>2. ASSUME NEW k \in Nat, k \in T PROVE k + 1 \in T
    <3>1. CASE k + 1 \in 1 .. n
      <4> DEFINE m == k + 1
      <4>1. m - 1 = k /\ (m # 1 => k \in 1 .. n)
        BY <1>0, <3>1
      <4>2. m # 1 => g[k] \in Seq(Byte)
        BY <2>2, <4>1
      <4>3. queue[m] \in Seq(Byte)
        BY <1>0, <3>1
      <4>4. g[m] = IF m = 1 THEN queue[m] ELSE g[k] \o queue[m]
        BY <1>3, <3>1, <4>1
      <4> HIDE DEF m
      <4>5. g[m] \in Seq(Byte)
        BY <4>2, <4>3, <4>4
      <4> QED BY <4>5 DEF m
    <3> QED BY <3>1
  <2> HIDE DEF T
  <2> QED BY <2>1, <2>2, Induction
<1> DEFINE h == [k \in 0 .. n |-> IF k = 0 THEN 0 ELSE Len(g[k])]
<1>5. h \in [0 .. n -> Nat] /\ h[0] = 0
  BY <1>0, <1>4
<1>6. ASSUME NEW k \in 1 .. n PROVE h[k] = h[k - 1] + Len(queue[k])
  <2>1. g[k] \in Seq(Byte) /\ queue[k] \in Seq(Byte) /\ k - 1 \in 0 .. n
    BY <1>0, <1>4
  <2>2. CASE k = 1
    <3>1. h[1] = Len(g[1]) /\ h[0] = 0 /\ g[1] = queue[1]
      BY <1>0, <1>3, <2>2
    <3>2. Len(queue[1]) \in Nat
      BY <2>1, <2>2
    <3> HIDE DEF h
    <3> QED BY <2>2, <3>1, <3>2
  <2>3. CASE k # 1
    <3>1. k - 1 \in 1 .. n /\ k - 1 # 0 /\ k # 0
      BY <1>0, <2>3
    <3>2. g[k - 1] \in Seq(Byte)
      <4>1. k - 1 \in T
        BY <1>4, <3>1
      <4> QED BY <3>1, <4>1
    <3>5. g[k] = g[k - 1] \o queue[k]
      BY <1>3, <2>3
    <3>3. Len(g[k]) = Len(g[k - 1]) + Len(queue[k])
      BY <2>1, <3>2, <3>5
    <3>4. h[k] = Len(g[k]) /\ h[k - 1] = Len(g[k - 1])
      BY <2>1, <3>1
    <3> HIDE DEF h
    <3> QED BY <3>3, <3>4
  <2> QED BY <2>2, <2>3
<1>7. Len(FlattenSeq(queue)) = h[n]
  <2>1. CASE n = 0
    BY <1>2, <2>1 DEF n
  <2>2. CASE n # 0
    BY <1>0, <1>2, <2>2
  <2> QED BY <2>1, <2>2
<1> HIDE DEF h
<1>8. Bytes(queue, h)
  BY <1>5, <1>6 DEF Bytes, n
<1> QED BY <1>7, <1>8 DEF n

\* The n chunks of q stand in r, d places on.
Within(q, n, r, d) ==
  /\ n \in Nat /\ Len(q) = n /\ d \in Nat /\ Len(r) \in Nat /\ n + d <= Len(r)
  /\ \A k \in 1 .. n : r[k + d] = q[k]

\* The same chunks come to the same there.
LEMMA BytesShift ==
  ASSUME NEW q, NEW r, NEW h, NEW j, NEW n, NEW d, Bytes(q, h), Bytes(r, j), Within(q, n, r, d)
  PROVE  j[n + d] = j[d] + h[n]
<1> USE DEF Within
<1>0. /\ h \in [0 .. n -> Nat] /\ j \in [0 .. Len(r) -> Nat] /\ h[0] = 0
      /\ \A k \in 1 .. n : h[k] = h[k - 1] + Len(q[k])
      /\ \A k \in 1 .. Len(r) : j[k] = j[k - 1] + Len(r[k])
  BY DEF Bytes
<1> DEFINE T == {k \in Nat : k > n \/ j[k + d] = j[d] + h[k]}
<1>1. 0 \in T
  <2>1. 0 + d = d /\ d \in 0 .. Len(r)
    OBVIOUS
  <2>2. j[d] \in Nat
    BY <1>0, <2>1
  <2>3. j[d] + h[0] = j[d]
    BY <1>0, <2>2
  <2> QED BY <2>1, <2>3
<1>2. ASSUME NEW k \in Nat, k \in T PROVE k + 1 \in T
  <2>1. CASE k + 1 > n
    BY <2>1
  <2>2. CASE ~(k + 1 > n)
    <3> DEFINE m == k + 1
    <3>1. /\ m \in 1 .. n /\ m - 1 = k /\ m + d \in 1 .. Len(r) /\ (m + d) - 1 = k + d
          /\ k \in 0 .. n /\ k + d \in 0 .. Len(r) /\ d \in 0 .. Len(r)
          /\ m \in 0 .. n /\ m + d \in 0 .. Len(r)
      BY <2>2
    <3> HIDE DEF m
    <3>2. h[m] = h[k] + Len(q[m]) /\ j[m + d] = j[k + d] + Len(r[m + d]) /\ r[m + d] = q[m]
      BY <1>0, <3>1
    <3>3. j[k + d] = j[d] + h[k]
      BY <1>2, <3>1
    <3>4. h[m] \in Nat /\ h[k] \in Nat /\ j[d] \in Nat /\ j[m + d] \in Nat
      BY <1>0, <3>1
    <3> DEFINE l == Len(q[m])
    <3>5. h[m] = h[k] + l /\ j[m + d] = (j[d] + h[k]) + l
      BY <3>2, <3>3
    <3> DEFINE hm == h[m]  hk == h[k]  jd == j[d]
    <3>7. hm = hk + l /\ j[m + d] = (jd + hk) + l /\ hm \in Nat /\ hk \in Nat /\ jd \in Nat
      BY <3>4, <3>5
    <3>8. l \in Int
      BY <3>2, <1>0, <3>1
    <3> HIDE DEF l, hm, hk, jd
    <3>9. j[m + d] = jd + hm
      BY <3>7, <3>8
    <3>6. j[m + d] = j[d] + h[m]
      BY <3>9 DEF jd, hm
    <3> QED BY <3>6 DEF m
  <2> QED BY <2>1, <2>2
<1> HIDE DEF T
<1>3. n \in T
  BY <1>1, <1>2, Induction
<1> QED BY <1>3 DEF T

LEMMA FlatAppend ==
  ASSUME NEW q \in Seq(Chunk), NEW c \in Chunk
  PROVE  Len(FlattenSeq(Append(q, c))) = Len(FlattenSeq(q)) + Len(c)
<1> DEFINE n == Len(q)  r == Append(q, c)
<1>1. /\ n \in Nat /\ r \in Seq(Chunk) /\ Len(r) = n + 1
      /\ (\A k \in 1 .. n : r[k] = q[k]) /\ r[n + 1] = c
  OBVIOUS
<1> HIDE DEF r
<1>2. PICK h : Bytes(q, h) /\ Len(FlattenSeq(q)) = h[n]
  BY FlatBytes
<1>3. PICK j : Bytes(r, j) /\ Len(FlattenSeq(r)) = j[Len(r)]
  BY <1>1, FlatBytes
<1> HIDE DEF n
<1>4. j[n + 0] = j[0] + h[n]
  <2>1. Within(q, n, r, 0)
    BY <1>1 DEF Within, n
  <2> QED BY <1>2, <1>3, <2>1, BytesShift
<1>5. j[0] = 0 /\ j[n + 1] = j[n] + Len(c) /\ j[n] \in Nat /\ h[n] \in Nat
  <2>1. n + 1 \in 1 .. Len(r) /\ (n + 1) - 1 = n /\ n \in 0 .. Len(r) /\ n \in 0 .. Len(q)
    BY <1>1 DEF n
  <2> QED BY <1>1, <1>2, <1>3, <2>1 DEF Bytes
<1>6. n + 0 = n /\ 0 + h[n] = h[n]
  BY <1>1, <1>5
<1>7. j[n + 1] = h[n] + Len(c)
  BY <1>4, <1>5, <1>6
<1> QED BY <1>1, <1>2, <1>3, <1>7 DEF r

LEMMA FlatTail ==
  ASSUME NEW r \in Seq(Chunk), r # <<>>
  PROVE  Len(FlattenSeq(Tail(r))) = Len(FlattenSeq(r)) - Len(Head(r))
<1> DEFINE q == Tail(r)  n == Len(q)
<1>1. /\ n \in Nat /\ q \in Seq(Chunk) /\ Len(r) = n + 1
      /\ (\A k \in 1 .. n : r[k + 1] = q[k]) /\ Head(r) = r[1] /\ r[1] \in Chunk
  OBVIOUS
<1> HIDE DEF q
<1>2. PICK h : Bytes(q, h) /\ Len(FlattenSeq(q)) = h[n]
  BY <1>1, FlatBytes
<1>3. PICK j : Bytes(r, j) /\ Len(FlattenSeq(r)) = j[Len(r)]
  BY FlatBytes
<1>9. Len(q) = n
  OBVIOUS
<1> HIDE DEF n
<1>4. j[n + 1] = j[1] + h[n]
  <2>1. Within(q, n, r, 1)
    BY <1>1, <1>9 DEF Within
  <2> QED BY <1>2, <1>3, <2>1, BytesShift
<1>5. j[1] = Len(r[1]) /\ h[n] \in Nat /\ Len(r[1]) \in Nat
  <2>1. 1 \in 1 .. Len(r) /\ 1 - 1 = 0 /\ n \in 0 .. Len(q) /\ Len(r[1]) \in Nat
    BY <1>1, <1>9 DEF Chunk
  <2>2. j[1] = j[0] + Len(r[1]) /\ j[0] = 0
    BY <1>3, <2>1 DEF Bytes
  <2> QED BY <1>2, <2>1, <2>2 DEF Bytes
<1>6. h[n] = j[n + 1] - Len(r[1])
  BY <1>4, <1>5
<1> QED BY <1>1, <1>2, <1>3, <1>6 DEF q

-----------------------------------------------------------------------------
(* how a chunk falls on the files *)

CursorOK(c) ==
  /\ c \in [index : 1 .. Len(Sizes) + 1, inFile : Nat, total : Nat]
  /\ c.inFile < IF c.index \in File THEN Sizes[c.index] ELSE 1

\* Where the k-th piece begins in its file, the first beginning at p.
Start(p, k) == IF k = 1 THEN p ELSE 0

\* Piece q, the k-th of n, of a chunk of l bytes that falls on the batch at byte p
\* of file i: only the last may leave its file unfinished.
PieceOK(q, k, n, i, p, l) ==
  /\ q \in Piece /\ q.index = i + k - 1 /\ q.index \in File
  /\ q.length > 0 /\ q.offset + q.length <= l
  /\ Start(p, k) + q.length <= Sizes[q.index]
  /\ q.endsFile <=> Start(p, k) + q.length = Sizes[q.index]
  /\ k < n => q.endsFile

\* Where pieces ps, from byte p of file i on, leave the cursor.
Leaves(ps, i, p, c) ==
  IF ps = <<>> THEN c.index = i /\ c.inFile = p
  ELSE LET q == ps[Len(ps)] IN
       IF q.endsFile THEN c.index = q.index + 1 /\ c.inFile = 0
       ELSE c.index = q.index /\ c.inFile = Start(p, Len(ps)) + q.length

Cuts(ps, i, p, l, c) ==
  /\ ps \in Seq(Piece) /\ Leaves(ps, i, p, c)
  /\ \A k \in 1 .. Len(ps) : PieceOK(ps[k], k, Len(ps), i, p, l)

\* The rounds of split() so far: only a chunk that is used up leaves a file unfinished.
RoundOK(c, l, s) ==
  /\ CursorOK(s.cur) /\ s.offset \in 0 .. l /\ Cuts(s.pieces, c.index, c.inFile, l, s.cur)
  /\ s.offset = l \/ s.pieces = <<>> \/ s.pieces[Len(s.pieces)].endsFile

LEMMA SizesOK ==
  /\ Len(Sizes) \in Nat /\ Len(Sizes) > 0 /\ File = 1 .. Len(Sizes)
  /\ \A f \in File : Sizes[f] \in Nat /\ Sizes[f] > 0
BY BatchAssumption DEF File

\* Where the next piece begins: at the start of the file that follows, but for the first.
LEMMA NextPlace ==
  ASSUME NEW c, CursorOK(c), NEW l \in Nat, NEW s, RoundOK(c, l, s), More(Sizes, l, s)
  PROVE  LET n == Len(s.pieces) IN
         s.cur.index = c.index + n /\ s.cur.inFile = Start(c.inFile, n + 1)
<1> DEFINE ps == s.pieces
           n == Len(ps)
           cur == s.cur
<1>1. ps \in Seq(Piece) /\ n \in Nat /\ (ps = <<>> <=> n = 0)
  BY DEF RoundOK, Cuts
<1>2. n # 0 => ps[n].endsFile
  BY <1>1 DEF RoundOK, More
<1>3. CASE n = 0
  <2>1. cur.index = c.index /\ cur.inFile = c.inFile /\ c.index \in Nat
    BY <1>1, <1>3 DEF RoundOK, Cuts, Leaves, CursorOK
  <2> QED BY <1>3, <2>1 DEF Start
<1>4. CASE n # 0
  <2>1. cur.index = ps[n].index + 1 /\ cur.inFile = 0
    BY <1>1, <1>2, <1>4 DEF RoundOK, Cuts, Leaves
  <2>2. n \in 1 .. n
    BY <1>1, <1>4
  <2>3. ps[n].index = c.index + n - 1
    BY <2>2 DEF RoundOK, Cuts, PieceOK
  <2>4. c.index \in Nat
    BY DEF CursorOK
  <2> QED BY <1>1, <1>4, <2>1, <2>3, <2>4 DEF Start
<1> QED BY <1>3, <1>4

LEMMA TakeOK ==
  ASSUME NEW c, CursorOK(c), NEW l \in Nat, NEW s, RoundOK(c, l, s), More(Sizes, l, s)
  PROVE  RoundOK(c, l, Take(Sizes, l, s))
<1> DEFINE cur == s.cur
           size == Sizes[cur.index]
           left == size - cur.inFile
           take == IF left < l - s.offset THEN left ELSE l - s.offset
           ends == cur.inFile + take >= size
           next == [index |-> IF ends THEN cur.index + 1 ELSE cur.index,
                    inFile |-> IF ends THEN 0 ELSE cur.inFile + take,
                    total |-> cur.total + take]
           q == [index |-> cur.index, offset |-> s.offset, length |-> take, endsFile |-> ends]
           ps == s.pieces
           n == Len(ps)
           t == Take(Sizes, l, s)
<1>1. t.cur = next /\ t.offset = s.offset + take /\ t.pieces = Append(ps, q)
  BY DEF Take
<1>2. /\ cur \in [index : 1 .. Len(Sizes) + 1, inFile : Nat, total : Nat]
      /\ s.offset \in Nat /\ s.offset < l /\ cur.index <= Len(Sizes)
  BY DEF RoundOK, CursorOK, More
<1>3. /\ cur.index \in File /\ cur.index \in Nat /\ cur.inFile \in Nat /\ cur.total \in Nat
      /\ size \in Nat /\ cur.inFile < size
  BY <1>2, SizesOK DEF RoundOK, CursorOK
<1>4. /\ take \in Nat /\ take > 0 /\ s.offset + take <= l /\ cur.inFile + take <= size
      /\ ends \in BOOLEAN /\ (ends <=> cur.inFile + take = size)
      /\ ~ends => s.offset + take = l
  <2> HIDE DEF size, cur
  <2> QED BY <1>2, <1>3
<1> HIDE DEF take, ends
<1>5. ps \in Seq(Piece) /\ n \in Nat
  BY DEF RoundOK, Cuts
<1>6. /\ ps = <<>> <=> n = 0
      /\ Append(ps, q) # <<>> /\ Len(Append(ps, q)) = n + 1 /\ Append(ps, q)[n + 1] = q
      /\ \A k \in 1 .. n : Append(ps, q)[k] = ps[k]
  BY <1>5
<1>7. q \in Piece
  BY <1>2, <1>3, <1>4 DEF Piece
<1>8. Append(ps, q) \in Seq(Piece)
  BY <1>5, <1>7
<1>9. n # 0 => ps[n].endsFile
  BY <1>2, <1>6 DEF RoundOK
<1>10. cur.index = c.index + n /\ cur.inFile = Start(c.inFile, n + 1)
  BY NextPlace
<1> HIDE DEF ps, n, t
<1>11. CursorOK(t.cur)
  <2>1. CASE ends
    <3>1. next.index = cur.index + 1 /\ next.inFile = 0 /\ next.total = cur.total + take
      BY <2>1
    <3>2. next \in [index : 1 .. Len(Sizes) + 1, inFile : Nat, total : Nat]
      BY <1>2, <1>3, <1>4, <2>1, SizesOK
    <3> HIDE DEF next
    <3> QED BY <1>1, <3>1, <3>2, SizesOK DEF CursorOK
  <2>2. CASE ~ends
    <3>1. next.index = cur.index /\ next.inFile = cur.inFile + take
      BY <2>2
    <3>2. next \in [index : 1 .. Len(Sizes) + 1, inFile : Nat, total : Nat]
      BY <1>2, <1>3, <1>4, <2>2
    <3>3. cur.inFile + take < size
      BY <1>3, <1>4, <2>2
    <3> HIDE DEF next, take
    <3> QED BY <1>1, <1>3, <3>1, <3>2, <3>3 DEF CursorOK
  <2> QED BY <2>1, <2>2
<1>12. t.offset \in 0 .. l
  BY <1>1, <1>2, <1>4
<1>13. ends \/ t.offset = l
  BY <1>1, <1>4
<1>14. q.index = cur.index /\ q.offset = s.offset /\ q.length = take /\ q.endsFile = ends
  OBVIOUS
<1>15. next.index = (IF ends THEN cur.index + 1 ELSE cur.index) /\ next.inFile = IF ends THEN 0 ELSE cur.inFile + take
  OBVIOUS
<1> HIDE DEF next, q
<1>16. Leaves(t.pieces, c.index, c.inFile, t.cur)
  BY <1>1, <1>6, <1>10, <1>14, <1>15 DEF Leaves
<1>17. ASSUME NEW k \in 1 .. n + 1 PROVE PieceOK(t.pieces[k], k, n + 1, c.index, c.inFile, l)
  <2>1. CASE k = n + 1
    <3>1. t.pieces[k] = q /\ ~(k < n + 1)
      BY <1>1, <1>5, <1>6, <2>1 DEF n
    <3>2. q.index = c.index + k - 1
      <4>1. c.index \in Nat /\ n \in Nat
        BY <1>5 DEF CursorOK, n
      <4> QED BY <1>10, <1>14, <2>1, <4>1
    <3>3. Start(c.inFile, k) = cur.inFile
      BY <1>10, <2>1
    <3> QED BY <1>3, <1>4, <1>7, <1>14, <3>1, <3>2, <3>3 DEF PieceOK
  <2>2. CASE k # n + 1
    <3>1. k \in 1 .. n
      BY <1>5, <2>2 DEF n
    <3>2. t.pieces[k] = ps[k] /\ PieceOK(ps[k], k, n, c.index, c.inFile, l)
      BY <1>1, <1>6, <3>1 DEF RoundOK, Cuts, ps, n
    <3>3. ps[k].endsFile
      <4>1. CASE k = n
        BY <1>9, <3>1, <4>1
      <4>2. CASE k # n
        BY <1>5, <3>1, <3>2, <4>2 DEF PieceOK, n
      <4> QED BY <4>1, <4>2
    <3> QED BY <3>2, <3>3 DEF PieceOK
  <2> QED BY <2>1, <2>2
<1>18. Cuts(t.pieces, c.index, c.inFile, l, t.cur)
  BY <1>1, <1>6, <1>8, <1>16, <1>17 DEF Cuts
<1> QED BY <1>1, <1>6, <1>11, <1>12, <1>13, <1>14, <1>18 DEF RoundOK, t

\* split()'s loop: round k of a chunk of l bytes from cursor c on.
Rounds(c, l, m, g) ==
  g = [n \in 0 .. m |-> IF n = 0 THEN [cur |-> c, offset |-> 0, pieces |-> <<>>]
                        ELSE LET s == g[n - 1]
                             IN  IF More(Sizes, l, s) THEN Take(Sizes, l, s) ELSE s]

LEMMA RoundsExist ==
  ASSUME NEW c, NEW l, NEW m \in Nat
  PROVE  \E g : Rounds(c, l, m, g)
<1> DEFINE first == [cur |-> c, offset |-> 0, pieces |-> <<>>]
           Step(s) == IF More(Sizes, l, s) THEN Take(Sizes, l, s) ELSE s
           T == {k \in Nat : \E g : g = [n \in 0 .. k |-> IF n = 0 THEN first ELSE Step(g[n - 1])]}
<1> HIDE DEF first, Step
<1>1. 0 \in T
  <2> DEFINE g == [n \in 0 .. 0 |-> first]
  <2>1. g = [n \in 0 .. 0 |-> IF n = 0 THEN first ELSE Step(g[n - 1])]
    OBVIOUS
  <2> HIDE DEF g
  <2> QED BY <2>1
<1>2. ASSUME NEW k \in Nat, k \in T PROVE k + 1 \in T
  <2>1. PICK g : g = [n \in 0 .. k |-> IF n = 0 THEN first ELSE Step(g[n - 1])]
    BY <1>2
  <2> DEFINE j == k + 1
             next == [n \in 0 .. j |-> IF n = j THEN Step(g[k]) ELSE g[n]]
  <2>2. ASSUME NEW n \in 0 .. j
        PROVE  next[n] = IF n = 0 THEN first ELSE Step(next[n - 1])
    <3>1. CASE n = j
      <4>1. n # 0 /\ n - 1 = k /\ k \in 0 .. j /\ k # j
        BY <3>1
      <4>2. next[n] = Step(g[k]) /\ next[k] = g[k]
        BY <3>1, <4>1
      <4> HIDE DEF next
      <4> QED BY <4>1, <4>2
    <3>2. CASE n # j
      <4>1. n \in 0 .. k /\ next[n] = g[n]
        BY <3>2
      <4>2. n # 0 => n - 1 \in 0 .. j /\ n - 1 # j
        BY <4>1
      <4>3. n # 0 => next[n - 1] = g[n - 1]
        BY <4>2
      <4>4. g[n] = IF n = 0 THEN first ELSE Step(g[n - 1])
        BY <2>1, <4>1
      <4> HIDE DEF next
      <4> QED BY <4>1, <4>3, <4>4
    <3> QED BY <3>1, <3>2
  <2>3. next = [n \in 0 .. j |-> next[n]]
    OBVIOUS
  <2>4. next = [n \in 0 .. j |-> IF n = 0 THEN first ELSE Step(next[n - 1])]
    <3> HIDE DEF next, j
    <3> QED BY <2>2, <2>3
  <2> HIDE DEF next
  <2> QED BY <2>4
<1>3. m \in T
  <2> HIDE DEF T
  <2> QED BY <1>1, <1>2, Induction
<1>4. \E g : g = [n \in 0 .. m |-> IF n = 0 THEN first ELSE Step(g[n - 1])]
  BY <1>3
<1> QED BY <1>4 DEF Rounds, first, Step

\* What split() returns, unless it reports an overflow: pieces that follow each
\* other from the cursor it was given to the one it leaves.
LEMMA SplitOK ==
  ASSUME NEW c, CursorOK(c), NEW l \in Nat
  PROVE  LET s == Split(Sizes, c, l) IN
         /\ CursorOK(s.cur) /\ Cuts(s.pieces, c.index, c.inFile, l, s.cur)
         /\ s.overflow \in 0 .. l
<1> DEFINE m == Len(Sizes)
           g == CHOOSE f : Rounds(c, l, m, f)
           s == Split(Sizes, c, l)
<1>1. m \in Nat
  BY SizesOK
<1>2. Rounds(c, l, m, g)
  <2> HIDE DEF m
  <2> QED BY <1>1, RoundsExist
<1>3. s = [pieces |-> g[m].pieces, cur |-> g[m].cur, overflow |-> l - g[m].offset]
  BY DEF Split, Rounds
<1> HIDE DEF g, m, s
<1> DEFINE T == {k \in Nat : k > m \/ RoundOK(c, l, g[k])}
<1>4. 0 \in T
  <2>1. g[0] = [cur |-> c, offset |-> 0, pieces |-> <<>>]
    BY <1>1, <1>2 DEF Rounds
  <2>2. <<>> \in Seq(Piece) /\ Len(<<>>) = 0
    OBVIOUS
  <2>3. Cuts(<<>>, c.index, c.inFile, l, c)
    BY <2>2 DEF Cuts, Leaves
  <2>4. RoundOK(c, l, g[0])
    BY <2>1, <2>3 DEF RoundOK
  <2> QED BY <2>4
<1>5. ASSUME NEW k \in Nat, k \in T PROVE k + 1 \in T
  <2>1. CASE k + 1 > m
    BY <2>1
  <2>2. CASE ~(k + 1 > m)
    <3>1. k + 1 \in 0 .. m /\ k + 1 # 0 /\ (k + 1) - 1 = k
      BY <1>1, <2>2
    <3>2. g[k + 1] = IF More(Sizes, l, g[k]) THEN Take(Sizes, l, g[k]) ELSE g[k]
      BY <1>2, <3>1 DEF Rounds
    <3>3. RoundOK(c, l, g[k])
      BY <1>1, <1>5, <2>2
    <3>4. RoundOK(c, l, g[k + 1])
      BY <3>2, <3>3, TakeOK
    <3> QED BY <3>4
  <2> QED BY <2>1, <2>2
<1> HIDE DEF T
<1>6. m \in T
  BY <1>1, <1>4, <1>5, Induction
<1>7. RoundOK(c, l, g[m])
  BY <1>1, <1>6 DEF T
<1>8. l - g[m].offset \in 0 .. l
  BY <1>7 DEF RoundOK
<1>9. /\ CursorOK(s.cur) /\ Cuts(s.pieces, c.index, c.inFile, l, s.cur)
      /\ s.overflow \in 0 .. l
  BY <1>3, <1>7, <1>8 DEF RoundOK
<1> QED BY <1>9 DEF s

\* The pieces that are left when the first is done with.
LEMMA CutsTail ==
  ASSUME NEW ps, NEW i \in Nat, NEW p \in Nat, NEW l, NEW c, Cuts(ps, i, p, l, c), ps # <<>>
  PROVE  LET q == Head(ps) IN
         /\ q \in Piece /\ q.index = i /\ i \in File /\ q.length > 0 /\ q.offset + q.length <= l
         /\ p + q.length <= Sizes[i] /\ (q.endsFile <=> p + q.length = Sizes[i])
         /\ q.endsFile => Cuts(Tail(ps), i + 1, 0, l, c)
         /\ ~q.endsFile => Tail(ps) = <<>> /\ c.index = i /\ c.inFile = p + q.length
<1> DEFINE q == Head(ps)
           n == Len(ps)
           rest == Tail(ps)
<1>1. ps \in Seq(Piece)
  BY DEF Cuts
<1>2. /\ n \in Nat /\ n >= 1 /\ q = ps[1] /\ 1 \in 1 .. n
      /\ rest \in Seq(Piece) /\ Len(rest) = n - 1 /\ (rest = <<>> <=> n = 1)
      /\ \A k \in 1 .. n - 1 : rest[k] = ps[k + 1]
  <2>1. n \in Nat /\ n >= 1 /\ q = ps[1]
    BY <1>1
  <2>2. rest \in Seq(Piece) /\ Len(rest) = n - 1
    BY <1>1
  <2>3. \A k \in 1 .. n - 1 : rest[k] = ps[k + 1]
    BY <1>1
  <2>4. rest = <<>> <=> Len(rest) = 0
    BY <2>2
  <2> HIDE DEF n, q, rest
  <2> QED BY <2>1, <2>2, <2>3, <2>4
<1>3. PieceOK(ps[1], 1, n, i, p, l)
  BY <1>2 DEF Cuts
<1> HIDE DEF q, n, rest
<1>4. /\ q \in Piece /\ q.index = i /\ i \in File /\ q.length > 0 /\ q.offset + q.length <= l
      /\ p + q.length <= Sizes[i] /\ (q.endsFile <=> p + q.length = Sizes[i])
      /\ 1 < n => q.endsFile
  BY <1>2, <1>3 DEF PieceOK, Start
<1>5. Leaves(ps, i, p, c)
  BY DEF Cuts
<1>6. ASSUME ~q.endsFile PROVE rest = <<>> /\ c.index = i /\ c.inFile = p + q.length
  <2>1. n = 1
    BY <1>2, <1>4, <1>6
  <2> QED BY <1>2, <1>4, <1>5, <1>6, <2>1 DEF Leaves, Start, n
<1>7. ASSUME q.endsFile PROVE Cuts(rest, i + 1, 0, l, c)
  <2>1. Leaves(rest, i + 1, 0, c)
    <3>1. CASE n = 1
      <4>1. ps[Len(ps)] = q
        BY <1>2, <3>1 DEF n
      <4>2. c.index = q.index + 1 /\ c.inFile = 0
        BY <1>5, <1>7, <4>1 DEF Leaves
      <4> QED BY <1>2, <1>4, <3>1, <4>2 DEF Leaves
    <3>2. CASE n # 1
      <4>1. rest # <<>> /\ Len(rest) \in 1 .. n - 1 /\ rest[Len(rest)] = ps[n]
        <5>1. n - 1 \in 1 .. n - 1 /\ (n - 1) + 1 = n
          BY <1>2, <3>2
        <5> QED BY <1>2, <3>2, <5>1
      <4>2. Start(p, n) = 0 /\ Start(0, Len(rest)) = 0
        BY <3>2 DEF Start
      <4> QED BY <1>5, <4>1, <4>2 DEF Leaves, n
    <3> QED BY <3>1, <3>2
  <2>2. ASSUME NEW k \in 1 .. Len(rest) PROVE PieceOK(rest[k], k, Len(rest), i + 1, 0, l)
    <3>1. /\ k + 1 \in 1 .. n /\ k + 1 # 1 /\ rest[k] = ps[k + 1]
          /\ i + (k + 1) - 1 = (i + 1) + k - 1 /\ (k < Len(rest) => k + 1 < n)
      BY <1>2
    <3>2. PieceOK(ps[k + 1], k + 1, n, i, p, l)
      BY <3>1 DEF Cuts, n
    <3>3. Start(p, k + 1) = 0 /\ Start(0, k) = 0
      BY <3>1 DEF Start
    <3> QED BY <3>1, <3>2, <3>3 DEF PieceOK
  <2> QED BY <1>2, <2>1, <2>2 DEF Cuts
<1> QED BY <1>4, <1>6, <1>7 DEF q, rest

LEMMA CutsNone ==
  ASSUME NEW i, NEW p, NEW l, NEW c, Leaves(<<>>, i, p, c)
  PROVE  Cuts(<<>>, i, p, l, c)
<1>1. <<>> \in Seq(Piece) /\ Len(<<>>) = 0 /\ 1 .. 0 = {}
  OBVIOUS
<1> QED BY <1>1 DEF Cuts

LEMMA SubSeqOK ==
  ASSUME NEW S, NEW c \in Seq(S), NEW a \in Nat, NEW n \in Nat, a + n <= Len(c)
  PROVE  SubSeq(c, a + 1, a + n) \in Seq(S) /\ Len(SubSeq(c, a + 1, a + n)) = n
OBVIOUS

\* No piece falls past the last file.
LEMMA CutsEnd ==
  ASSUME NEW ps, NEW i \in Nat, NEW p \in Nat, NEW l, NEW c, Cuts(ps, i, p, l, c), i \notin File
  PROVE  ps = <<>>
BY CutsTail

-----------------------------------------------------------------------------
(* how many bytes there are *)

LEMMA FirstBytesOK ==
  /\ FirstBytes \in [0 .. Len(Sizes) -> Nat] /\ FirstBytes[0] = 0
  /\ \A f \in File : FirstBytes[f] = FirstBytes[f - 1] + Sizes[f]
<1> DEFINE Sum(m, g) == g = [n \in 0 .. m |-> IF n = 0 THEN 0 ELSE g[n - 1] + Sizes[n]]
           T == {k \in Nat : \E g : Sum(k, g)}
           m == Len(Sizes)
<1>1. 0 \in T
  <2>1. Sum(0, [n \in 0 .. 0 |-> 0])
    OBVIOUS
  <2> HIDE DEF Sum
  <2> QED BY <2>1
<1>2. ASSUME NEW k \in Nat, k \in T PROVE k + 1 \in T
  <2>1. PICK g : Sum(k, g)
    BY <1>2
  <2> DEFINE j == k + 1
             next == [n \in 0 .. j |-> IF n = j THEN g[k] + Sizes[j] ELSE g[n]]
  <2>2. ASSUME NEW n \in 0 .. j PROVE next[n] = IF n = 0 THEN 0 ELSE next[n - 1] + Sizes[n]
    <3>1. CASE n = j
      <4>1. n # 0 /\ n - 1 = k /\ k \in 0 .. j /\ k # j
        BY <3>1
      <4>2. next[n] = g[k] + Sizes[j] /\ next[k] = g[k]
        BY <3>1, <4>1
      <4> HIDE DEF next
      <4> QED BY <3>1, <4>1, <4>2
    <3>2. CASE n # j
      <4>1. n \in 0 .. k /\ next[n] = g[n]
        BY <3>2
      <4>2. n # 0 => n - 1 \in 0 .. j /\ n - 1 # j
        BY <4>1
      <4>3. n # 0 => next[n - 1] = g[n - 1]
        BY <4>2
      <4>4. g[n] = IF n = 0 THEN 0 ELSE g[n - 1] + Sizes[n]
        BY <2>1, <4>1
      <4> HIDE DEF next
      <4> QED BY <4>1, <4>3, <4>4
    <3> QED BY <3>1, <3>2
  <2>3. next = [n \in 0 .. j |-> next[n]]
    OBVIOUS
  <2>4. Sum(j, next)
    <3> HIDE DEF next, j
    <3> QED BY <2>2, <2>3
  <2> HIDE DEF next, Sum
  <2> QED BY <2>4
<1>3. m \in T
  <2> HIDE DEF T
  <2> QED BY <1>1, <1>2, SizesOK, Induction
<1>4. Sum(m, FirstBytes)
  <2>1. \E g : Sum(m, g)
    BY <1>3
  <2>2. FirstBytes = CHOOSE g : Sum(m, g)
    BY DEF FirstBytes
  <2> HIDE DEF Sum
  <2> QED BY <2>1, <2>2
<1>0. m \in Nat /\ File = 1 .. m
  BY SizesOK
<1> HIDE DEF m
<1>5. /\ DOMAIN FirstBytes = 0 .. m /\ FirstBytes = [n \in 0 .. m |-> FirstBytes[n]]
      /\ \A n \in 0 .. m : FirstBytes[n] = IF n = 0 THEN 0 ELSE FirstBytes[n - 1] + Sizes[n]
  BY <1>4
<1>11. FirstBytes[0] = 0
  <2>1. 0 \in 0 .. m
    BY <1>0
  <2> QED BY <1>5, <2>1
<1>6. ASSUME NEW f \in File PROVE FirstBytes[f] = FirstBytes[f - 1] + Sizes[f]
  <2>1. f \in 0 .. m /\ f # 0
    BY <1>0
  <2> QED BY <1>5, <2>1
<1> DEFINE U == {k \in Nat : k > m \/ FirstBytes[k] \in Nat}
<1>7. 0 \in U
  BY <1>11
<1>8. ASSUME NEW k \in Nat, k \in U PROVE k + 1 \in U
  <2>1. CASE k + 1 > m
    BY <2>1
  <2>2. CASE ~(k + 1 > m)
    <3>1. k + 1 \in 0 .. m /\ k + 1 # 0 /\ (k + 1) - 1 = k /\ k + 1 \in File /\ ~(k > m)
      BY <2>2, SizesOK DEF m
    <3>2. FirstBytes[k + 1] = FirstBytes[k] + Sizes[k + 1] /\ Sizes[k + 1] \in Nat
      BY <1>6, <3>1, SizesOK
    <3>3. FirstBytes[k] \in Nat
      BY <1>8, <3>1
    <3>4. FirstBytes[k + 1] \in Nat
      BY <3>2, <3>3
    <3> QED BY <3>4
  <2> QED BY <2>1, <2>2
<1>9. \A k \in Nat : k \in U
  <2> HIDE DEF U
  <2> QED BY <1>7, <1>8, Induction
<1>10. \A k \in 0 .. m : FirstBytes[k] \in Nat
  BY <1>9, SizesOK DEF m
<1> QED BY <1>5, <1>6, <1>10, <1>11 DEF m

\* A batch is more than its first files.
LEMMA FirstBytesGrow ==
  ASSUME NEW a \in 0 .. Len(Sizes)
  PROVE  FirstBytes[a] <= TotalBytes
<1> DEFINE n == Len(Sizes)
           T == {d \in Nat : a + d > n \/ FirstBytes[a] <= FirstBytes[a + d]}
<1>0. n \in Nat /\ FirstBytes \in [0 .. n -> Nat] /\ a \in 0 .. n
  BY SizesOK, FirstBytesOK
<1>1. 0 \in T
  <2>1. FirstBytes[a] \in Nat /\ a + 0 = a
    BY <1>0
  <2> QED BY <2>1
<1>2. ASSUME NEW d \in Nat, d \in T PROVE d + 1 \in T
  <2>1. CASE a + (d + 1) > n
    BY <2>1
  <2>2. CASE ~(a + (d + 1) > n)
    <3> DEFINE b == a + d
    <3>1. b \in 0 .. n /\ b + 1 \in File /\ (b + 1) - 1 = b /\ a + (d + 1) = b + 1 /\ ~(b > n) /\ b + 1 \in 0 .. n
      BY <1>0, <2>2, SizesOK
    <3>2. FirstBytes[a] <= FirstBytes[b]
      BY <1>2, <3>1
    <3> HIDE DEF b, n
    <3>3. FirstBytes[b + 1] = FirstBytes[b] + Sizes[b + 1] /\ Sizes[b + 1] \in Nat
      BY <3>1, FirstBytesOK, SizesOK
    <3>4. FirstBytes[a] \in Nat /\ FirstBytes[b] \in Nat
      BY <1>0, <3>1
    <3>5. FirstBytes[a] <= FirstBytes[b + 1]
      BY <3>2, <3>3, <3>4
    <3> QED BY <3>1, <3>5
  <2> QED BY <2>1, <2>2
<1>3. n - a \in Nat /\ a + (n - a) = n
  BY <1>0
<1>4. n - a \in T
  <2> HIDE DEF T, n
  <2> QED BY <1>1, <1>2, <1>3, Induction
<1> QED BY <1>3, <1>4 DEF TotalBytes
-----------------------------------------------------------------------------
(* where a chunk falls in the batch *)

\* The first n bytes of a file.
Prefix(f, n) == [k \in 1 .. n |-> <<f, k>>]

LEMMA PrefixGrows ==
  ASSUME NEW f \in File, NEW m \in Nat, NEW n \in Nat, m <= n, n <= Sizes[f]
  PROVE  Prefix(f, m) \o SubSeq(Content(f), m + 1, n) = Prefix(f, n)
<1>0. Sizes[f] \in Nat
  BY SizesOK
<1>1. Prefix(f, m) \in Seq({f} \X Nat) /\ Len(Prefix(f, m)) = m
  BY DEF Prefix
<1>2. Content(f) \in Seq({f} \X Nat) /\ Len(Content(f)) = Sizes[f]
  BY <1>0 DEF Content
<1>3. SubSeq(Content(f), m + 1, n) = [k \in 1 .. (n - m) |-> <<f, m + k>>]
  BY <1>0, <1>2 DEF Content
<1> DEFINE rest == [k \in 1 .. (n - m) |-> <<f, m + k>>]
           both == Prefix(f, m) \o rest
<1>4. rest \in Seq({f} \X Nat) /\ Len(rest) = n - m
  OBVIOUS
<1>5. both \in Seq({f} \X Nat) /\ Len(both) = n
  BY <1>1, <1>4
<1>6. ASSUME NEW k \in 1 .. n PROVE both[k] = <<f, k>>
  <2>1. CASE k <= m
    <3>1. both[k] = Prefix(f, m)[k]
      BY <1>1, <1>4, <2>1
    <3> QED BY <2>1, <3>1 DEF Prefix
  <2>2. CASE k > m
    <3>1. k \in Nat /\ k - m \in 1 .. (n - m) /\ m + (k - m) = k
      BY <2>2
    <3>2. both[k] = rest[k - m]
      <4> HIDE DEF rest
      <4> QED BY <1>1, <1>4, <2>2, <3>1
    <3> QED BY <3>1, <3>2
  <2>3. k <= m \/ k > m
    OBVIOUS
  <2> HIDE DEF both
  <2> QED BY <2>1, <2>2, <2>3
<1>7. both = [k \in 1 .. n |-> both[k]]
  BY <1>5
<1> QED BY <1>3, <1>6, <1>7 DEF Prefix

LEMMA PrefixWhole == \A f \in File : Prefix(f, Sizes[f]) = Content(f) /\ Prefix(f, 0) = <<>>
BY SizesOK DEF Prefix, Content

\* The cursor counts the files before its own, and what it accepted into that one.
Counted(c) == c.total = FirstBytes[c.index - 1] + c.inFile

\* Pieces ps of a chunk that begins at byte base of the batch, the first of them at
\* byte p of its file, fall where their files are.
Fits(ps, p, base) ==
  \A k \in 1 .. Len(ps) : base + ps[k].offset = FirstBytes[ps[k].index - 1] + Start(p, k)

LEMMA TakeFits ==
  ASSUME NEW c, CursorOK(c), NEW l \in Nat, NEW s, RoundOK(c, l, s), More(Sizes, l, s),
         Counted(s.cur), s.cur.total = c.total + s.offset, Fits(s.pieces, c.inFile, c.total)
  PROVE  LET t == Take(Sizes, l, s) IN
         /\ Counted(t.cur) /\ t.cur.total = c.total + t.offset /\ Fits(t.pieces, c.inFile, c.total)
         /\ t.offset = l \/ t.cur.index = s.cur.index + 1
<1> DEFINE cur == s.cur
           size == Sizes[cur.index]
           left == size - cur.inFile
           take == IF left < l - s.offset THEN left ELSE l - s.offset
           ends == cur.inFile + take >= size
           next == [index |-> IF ends THEN cur.index + 1 ELSE cur.index,
                    inFile |-> IF ends THEN 0 ELSE cur.inFile + take,
                    total |-> cur.total + take]
           q == [index |-> cur.index, offset |-> s.offset, length |-> take, endsFile |-> ends]
           ps == s.pieces
           n == Len(ps)
           t == Take(Sizes, l, s)
<1>1. t.cur = next /\ t.offset = s.offset + take /\ t.pieces = Append(ps, q)
  BY DEF Take
<1>2. /\ cur \in [index : 1 .. Len(Sizes) + 1, inFile : Nat, total : Nat]
      /\ s.offset \in Nat /\ s.offset < l /\ cur.index <= Len(Sizes)
  BY DEF RoundOK, CursorOK, More
<1>3. /\ cur.index \in File /\ cur.index \in Nat /\ cur.inFile \in Nat /\ cur.total \in Nat
      /\ size \in Nat /\ cur.inFile < size
  BY <1>2, SizesOK DEF RoundOK, CursorOK
<1>4. /\ take \in Nat /\ take > 0 /\ s.offset + take <= l /\ cur.inFile + take <= size
      /\ ends \in BOOLEAN /\ (ends <=> cur.inFile + take = size)
      /\ ~ends => s.offset + take = l
  <2> DEFINE at == s.offset
             in == cur.inFile
  <2>1. at \in Nat /\ at < l /\ in \in Nat /\ size \in Nat /\ in < size
    BY <1>2, <1>3
  <2>2. take = IF size - in < l - at THEN size - in ELSE l - at
    OBVIOUS
  <2>3. ends <=> in + take >= size
    OBVIOUS
  <2> HIDE DEF size, at, in, take, ends
  <2>4. take \in Nat /\ take > 0 /\ at + take <= l /\ in + take <= size
    BY <2>1, <2>2
  <2>5. (ends <=> in + take = size) /\ (~ends => at + take = l)
    BY <2>1, <2>2, <2>3, <2>4
  <2>6. ends \in BOOLEAN
    BY DEF ends
  <2> QED BY <2>4, <2>5, <2>6 DEF at, in
<1>5. ps \in Seq(Piece) /\ n \in Nat
  BY DEF RoundOK, Cuts
<1>6. /\ Len(Append(ps, q)) = n + 1 /\ Append(ps, q)[n + 1] = q
      /\ \A k \in 1 .. n : Append(ps, q)[k] = ps[k]
  BY <1>5
<1>7. cur.inFile = Start(c.inFile, n + 1)
  BY NextPlace
<1>8. FirstBytes[cur.index] = FirstBytes[cur.index - 1] + size /\ FirstBytes[cur.index - 1] \in Nat
  <2>1. cur.index - 1 \in 0 .. Len(Sizes)
    BY <1>2, <1>3
  <2> QED BY <1>3, <2>1, FirstBytesOK
<1>9. cur.total = FirstBytes[cur.index - 1] + cur.inFile
  BY DEF Counted
<1>10. next.index = (IF ends THEN cur.index + 1 ELSE cur.index) /\ next.total = cur.total + take
       /\ next.inFile = IF ends THEN 0 ELSE cur.inFile + take
  OBVIOUS
<1>11. q.index = cur.index /\ q.offset = s.offset
  OBVIOUS
<1> HIDE DEF take, ends, size, cur, next, q, t, n, ps
<1>12. Counted(next)
  <2>1. CASE ends
    <3>1. next.index - 1 = cur.index
      BY <1>3, <1>10, <2>1
    <3> QED BY <1>3, <1>4, <1>8, <1>9, <1>10, <2>1, <3>1 DEF Counted
  <2>2. CASE ~ends
    BY <1>3, <1>4, <1>8, <1>9, <1>10, <2>2 DEF Counted
  <2> QED BY <2>1, <2>2
<1>13. next.total = c.total + (s.offset + take)
  BY <1>2, <1>4, <1>10 DEF cur, CursorOK
<1>14. Fits(t.pieces, c.inFile, c.total)
  <2> SUFFICES ASSUME NEW k \in 1 .. n + 1
               PROVE  c.total + t.pieces[k].offset = FirstBytes[t.pieces[k].index - 1] + Start(c.inFile, k)
    BY <1>1, <1>6 DEF Fits
  <2>1. CASE k = n + 1
    <3>1. t.pieces[k] = q
      BY <1>1, <1>6, <2>1
    <3>2. c.total + s.offset = FirstBytes[cur.index - 1] + Start(c.inFile, k)
      BY <1>7, <1>9, <2>1 DEF cur
    <3> QED BY <1>11, <3>1, <3>2
  <2>2. CASE k # n + 1
    <3>1. k \in 1 .. n
      BY <1>5, <2>2
    <3> QED BY <1>1, <1>6, <3>1 DEF Fits, ps, n
  <2> QED BY <2>1, <2>2
<1>15. s.offset + take = l \/ next.index = cur.index + 1
  BY <1>4, <1>10
<1> QED BY <1>1, <1>12, <1>13, <1>14, <1>15 DEF t, cur

\* A chunk overflows only what is declared.
LEMMA SplitFits ==
  ASSUME NEW c, CursorOK(c), Counted(c), NEW l \in Nat
  PROVE  LET s == Split(Sizes, c, l) IN
         /\ Counted(s.cur) /\ Fits(s.pieces, c.inFile, c.total)
         /\ s.overflow = 0 => s.cur.total = c.total + l
         /\ s.overflow > 0 => c.total + l > TotalBytes
<1> DEFINE m == Len(Sizes)
           g == CHOOSE f : Rounds(c, l, m, f)
           s == Split(Sizes, c, l)
           Fine(r) == /\ Counted(r.cur) /\ r.cur.total = c.total + r.offset
                      /\ Fits(r.pieces, c.inFile, c.total) /\ RoundOK(c, l, r)
<1>1. m \in Nat /\ c.total \in Nat /\ c.index \in Nat /\ c.index >= 1
  BY SizesOK DEF CursorOK
<1>2. Rounds(c, l, m, g)
  <2> HIDE DEF m
  <2> QED BY <1>1, RoundsExist
<1>3. s = [pieces |-> g[m].pieces, cur |-> g[m].cur, overflow |-> l - g[m].offset]
  BY DEF Split, Rounds
<1> HIDE DEF g, m, s
<1> DEFINE T == {k \in Nat : k > m \/ (Fine(g[k]) /\ (g[k].offset = l \/ g[k].cur.index > k))}
<1>4. 0 \in T
  <2>1. g[0] = [cur |-> c, offset |-> 0, pieces |-> <<>>]
    BY <1>1, <1>2 DEF Rounds
  <2>2. <<>> \in Seq(Piece) /\ Len(<<>>) = 0
    OBVIOUS
  <2>3. Cuts(<<>>, c.index, c.inFile, l, c) /\ Fits(<<>>, c.inFile, c.total)
    BY <2>2 DEF Cuts, Leaves, Fits
  <2>4. Fine(g[0])
    BY <1>1, <2>1, <2>3 DEF RoundOK
  <2> QED BY <1>1, <2>1, <2>4
<1>5. ASSUME NEW k \in Nat, k \in T PROVE k + 1 \in T
  <2>1. CASE k + 1 > m
    BY <2>1
  <2>2. CASE ~(k + 1 > m)
    <3>1. k + 1 \in 0 .. m /\ k + 1 # 0 /\ (k + 1) - 1 = k
      BY <1>1, <2>2
    <3>2. g[k + 1] = IF More(Sizes, l, g[k]) THEN Take(Sizes, l, g[k]) ELSE g[k]
      BY <1>2, <3>1 DEF Rounds
    <3>3. Fine(g[k]) /\ (g[k].offset = l \/ g[k].cur.index > k)
      BY <1>1, <1>5, <2>2
    <3>4. g[k].offset \in 0 .. l /\ g[k].cur.index \in Nat
      BY <3>3 DEF RoundOK, CursorOK
    <3>5. CASE More(Sizes, l, g[k])
      <4>1. Fine(g[k + 1]) /\ (g[k + 1].offset = l \/ g[k + 1].cur.index = g[k].cur.index + 1)
        BY <3>2, <3>3, <3>5, TakeOK, TakeFits
      <4>2. g[k].offset # l
        BY <3>4, <3>5 DEF More
      <4> HIDE DEF Fine
      <4>3. g[k + 1].offset = l \/ g[k + 1].cur.index > k + 1
        BY <3>3, <3>4, <4>1, <4>2
      <4> QED BY <4>1, <4>3
    <3>6. CASE ~More(Sizes, l, g[k])
      <4>1. g[k].offset = l \/ g[k].cur.index > k + 1
        BY <1>1, <2>2, <3>4, <3>6 DEF More, m
      <4> QED BY <3>2, <3>3, <3>6, <4>1
    <3> QED BY <3>5, <3>6
  <2> QED BY <2>1, <2>2
<1> HIDE DEF T, Fine
<1>6. m \in T
  BY <1>1, <1>4, <1>5, Induction
<1>7. Fine(g[m]) /\ (g[m].offset = l \/ g[m].cur.index > m)
  BY <1>1, <1>6 DEF T
<1>8. s.cur = g[m].cur /\ s.pieces = g[m].pieces /\ s.overflow = l - g[m].offset
  BY <1>3
<1>9. /\ Counted(g[m].cur) /\ g[m].cur.total = c.total + g[m].offset /\ Fits(g[m].pieces, c.inFile, c.total)
      /\ g[m].offset \in 0 .. l /\ CursorOK(g[m].cur)
  BY <1>7 DEF Fine, RoundOK
<1>10. ASSUME s.overflow > 0 PROVE c.total + l > TotalBytes
  <2>1. g[m].offset < l /\ g[m].cur.index = m + 1
    <3>1. g[m].offset \in 0 .. l /\ g[m].cur.index \in 1 .. Len(Sizes) + 1
      BY <1>9 DEF CursorOK
    <3>2. g[m].offset # l /\ g[m].cur.index > m
      <4>1. l - g[m].offset > 0
        BY <1>8, <1>10
      <4> QED BY <1>7, <3>1, <4>1
    <3>3. Len(Sizes) \in Nat /\ m = Len(Sizes)
      BY SizesOK DEF m
    <3> HIDE DEF m
    <3> QED BY <3>1, <3>2, <3>3
  <2>2. m + 1 \notin File /\ (m + 1) - 1 = m
    BY <1>1, SizesOK DEF m
  <2>3. g[m].cur.inFile = 0
    BY <1>9, <2>1, <2>2 DEF CursorOK
  <2>4. g[m].cur.total = TotalBytes /\ TotalBytes \in Nat
    <3>1. TotalBytes = FirstBytes[m] /\ m \in 0 .. m
      BY <1>1 DEF TotalBytes, m
    <3>2. FirstBytes[m] \in Nat
      BY <3>1, FirstBytesOK DEF m
    <3> QED BY <1>9, <2>1, <2>2, <2>3, <3>1, <3>2 DEF Counted
  <2> QED BY <1>1, <1>9, <2>1, <2>4
<1>11. s.overflow = 0 => s.cur.total = c.total + l
  BY <1>8, <1>9
<1> QED BY <1>8, <1>9, <1>10, <1>11 DEF s

LEMMA FitsTail ==
  ASSUME NEW ps \in Seq(Piece), ps # <<>>, NEW p \in Nat, NEW base, Fits(ps, p, base)
  PROVE  /\ base + Head(ps).offset = FirstBytes[Head(ps).index - 1] + p
         /\ Fits(Tail(ps), 0, base)
<1> DEFINE n == Len(ps)
           rest == Tail(ps)
<1>1. n \in Nat /\ n >= 1 /\ Head(ps) = ps[1] /\ 1 \in 1 .. n
  OBVIOUS
<1>2. Len(rest) = n - 1 /\ \A k \in 1 .. n - 1 : rest[k] = ps[k + 1]
  OBVIOUS
<1> HIDE DEF rest
<1>3. ASSUME NEW k \in 1 .. Len(rest)
      PROVE  base + rest[k].offset = FirstBytes[rest[k].index - 1] + Start(0, k)
  <2>1. k + 1 \in 1 .. n /\ k + 1 # 1 /\ rest[k] = ps[k + 1]
    BY <1>1, <1>2, <1>3
  <2>2. Start(p, k + 1) = 0 /\ Start(0, k) = 0
    BY <2>1 DEF Start
  <2> QED BY <2>1, <2>2 DEF Fits
<1> QED BY <1>1, <1>3 DEF Fits, Start, rest

-----------------------------------------------------------------------------
(* What was agreed, and what came of the batch *)

SenderMsg == [type : {"MANIFEST_ACCEPT", "MANIFEST_REJECT", "PAUSE", "RESUME",
                      "TRANSFER_VERIFIED", "TRANSFER_FAILED"}]
             \cup [type : {"FILE_VERIFIED"}, file : File]

\* A message of this type is on its way to the sender.
Sent(t) == \E i \in DOMAIN toSender : toSender[i].type = t

\* Until the batch is accepted nothing is worked on; a chunk is only worked on
\* while there is a file for it.
HandshakeInv ==
  /\ toSender \in Seq(SenderMsg)
  /\ index \in 1 .. Len(Sizes) + 1
  /\ task # "idle" => index \in File
  /\ sink \in {0, index} /\ (sink # 0 => index \in File)
  /\ accepting # "yes" =>
       /\ ~Sent("MANIFEST_ACCEPT") /\ writes = <<>> /\ task = "idle" /\ finishing = "no" /\ index = 1

\* What came of the batch.
OutcomeInv ==
  /\ verified \in BOOLEAN /\ aborted \in BOOLEAN
  /\ rState = "complete" <=> verified
  /\ aborted => ~verified
  /\ verified => finishing # "no"
  /\ Sent("TRANSFER_VERIFIED") => verified

LEMMA SenderMsgOK ==
  /\ \A t \in {"MANIFEST_ACCEPT", "MANIFEST_REJECT", "PAUSE", "RESUME",
               "TRANSFER_VERIFIED", "TRANSFER_FAILED"} : [type |-> t] \in SenderMsg
  /\ \A f \in File : [type |-> "FILE_VERIFIED", file |-> f] \in SenderMsg
BY DEF SenderMsg

\* Types of messages in a queue that a message was appended to, or taken from.
LEMMA QueueGrows ==
  ASSUME NEW q \in Seq(SenderMsg), NEW m \in SenderMsg
  PROVE  /\ Append(q, m) \in Seq(SenderMsg)
         /\ \A t : (\E i \in DOMAIN Append(q, m) : Append(q, m)[i].type = t)
                  => m.type = t \/ \E i \in DOMAIN q : q[i].type = t
OBVIOUS

LEMMA SendControlIs ==
  ASSUME NEW open, NEW q, NEW m
  PROVE  SendControl(open, q, m) = q \/ SendControl(open, q, m) = Append(q, m)
BY DEF SendControl

LEMMA QueueShrinks ==
  ASSUME NEW q \in Seq(SenderMsg), q # <<>>
  PROVE  /\ Tail(q) \in Seq(SenderMsg) /\ Head(q) \in SenderMsg /\ 1 \in DOMAIN q /\ Head(q) = q[1]
         /\ \A t : (\E i \in DOMAIN Tail(q) : Tail(q)[i].type = t) => \E i \in DOMAIN q : q[i].type = t
<1>1. Len(q) \in Nat /\ Len(q) >= 1
  OBVIOUS
<1>2. /\ Tail(q) \in Seq(SenderMsg) /\ DOMAIN Tail(q) = 1 .. Len(q) - 1
      /\ \A i \in 1 .. Len(q) - 1 : Tail(q)[i] = q[i + 1]
  OBVIOUS
<1>3. DOMAIN q = 1 .. Len(q) /\ \A i \in 1 .. Len(q) - 1 : i + 1 \in 1 .. Len(q)
  BY <1>1
<1>4. Head(q) = q[1] /\ Head(q) \in SenderMsg
  OBVIOUS
<1> QED BY <1>1, <1>2, <1>3, <1>4
\* A step that sends neither MANIFEST_ACCEPT nor TRANSFER_VERIFIED.
Quiet == /\ toSender' \in Seq(SenderMsg)
         /\ \A t \in {"MANIFEST_ACCEPT", "TRANSFER_VERIFIED"} : Sent(t)' => Sent(t)

\* A step that leaves the outcome alone, or is the first failure of the batch.
MayFail == \/ rState' = rState /\ aborted' = aborted
           \/ /\ ~aborted /\ rState # "complete"
              /\ aborted' = TRUE /\ rState' \in {"failed", "senderGone"}

LEMMA QuietSame == toSender \in Seq(SenderMsg) /\ UNCHANGED toSender => Quiet
BY DEF Quiet, Sent

LEMMA QuietTail ==
  toSender \in Seq(SenderMsg) /\ toSender # <<>> /\ toSender' = Tail(toSender) => Quiet
BY QueueShrinks DEF Quiet, Sent

LEMMA QuietSend ==
  ASSUME toSender \in Seq(SenderMsg), NEW t \in {"MANIFEST_REJECT", "PAUSE", "RESUME", "TRANSFER_FAILED"},
         NEW open, toSender' \in {SendControl(open, toSender, [type |-> t]),
                                 Append(toSender, [type |-> t])}
  PROVE  Quiet
<1> DEFINE m == [type |-> t]
<1>1. m \in SenderMsg /\ m.type = t
  BY SenderMsgOK
<1> HIDE DEF m
<1>2. toSender' = toSender \/ toSender' = Append(toSender, m)
  BY SendControlIs DEF m
<1>3. CASE toSender' = Append(toSender, m)
  BY <1>1, <1>3, QueueGrows DEF Quiet, Sent
<1> QED BY <1>2, <1>3, QuietSame

LEMMA QuietChunkDone ==
  ASSUME toSender \in Seq(SenderMsg), ChunkDone(toSender)
  PROVE  Quiet /\ task' = "idle"
<1>1. \/ toSender' = toSender
      \/ toSender' = SendControl(rOpen', toSender, [type |-> "RESUME"])
  BY DEF ChunkDone
<1>2. Quiet
  BY <1>1, QuietSame, QuietSend
<1> QED BY <1>2 DEF ChunkDone

LEMMA FailFromOK ==
  ASSUME NEW state \in {"failed", "senderGone"}, NEW s, NEW fates, NEW statuses,
         RFailFrom(state, s, fates, statuses)
  PROVE  MayFail /\ sink' \in {0, s}
BY DEF RFailFrom, MayFail

LEMMA FailChunkOK ==
  ASSUME toSender \in Seq(SenderMsg), FailChunk
  PROVE  Quiet /\ task' = "idle" /\ MayFail /\ sink' \in {0, sink}
<1>1. RFailFrom("failed", sink, fate, rStatus) /\ ChunkDone(toSender)
  BY DEF FailChunk, RFail
<1> QED BY <1>1, QuietChunkDone, FailFromOK

LEMMA AdvanceOK ==
  ASSUME toSender \in Seq(SenderMsg), sink # 0 => index \in File, NEW ps, NEW statuses,
         Advance(ps, statuses)
  PROVE  /\ Quiet /\ MayFail /\ sink' \in {0, sink}
         /\ task' \in {"idle", "write"} /\ (task' # "idle" => index \in File)
<1>1. CASE ps = <<>>
  BY <1>1, QuietChunkDone DEF Advance, MayFail
<1>2. CASE ps # <<>> /\ sink # 0 /\ rHasher /\ Head(ps).index = index
  BY <1>2, QuietSame DEF Advance, MayFail
<1>3. CASE ps # <<>> /\ ~(sink # 0 /\ rHasher /\ Head(ps).index = index)
  <2>1. RFailFrom("failed", sink, fate, statuses) /\ ChunkDone(toSender)
    BY <1>3 DEF Advance
  <2> QED BY <2>1, QuietChunkDone, FailFromOK
<1> QED BY <1>1, <1>2, <1>3

ReceiverInv == HandshakeInv /\ OutcomeInv

\* A step of an accepted batch that neither accepts nor completes it.
LEMMA OrdinaryStep ==
  ASSUME ReceiverInv, UNCHANGED <<accepting, verified, index>>,
         accepting = "yes", Quiet, MayFail, task' # "idle" => index \in File,
         sink' \in {0, sink}, finishing # "no" => finishing' # "no"
  PROVE  ReceiverInv'
<1>1. HandshakeInv'
  BY DEF ReceiverInv, HandshakeInv, Quiet
<1>2. OutcomeInv'
  <2>1. CASE rState' = rState /\ aborted' = aborted
    BY <2>1 DEF ReceiverInv, OutcomeInv, Quiet
  <2>2. CASE /\ ~aborted /\ rState # "complete"
             /\ aborted' = TRUE /\ rState' \in {"failed", "senderGone"}
    <3>1. ~verified /\ verified' = FALSE
      BY <2>2 DEF ReceiverInv, OutcomeInv
    <3> QED BY <2>2, <3>1 DEF ReceiverInv, OutcomeInv, Quiet
  <2> QED BY <2>1, <2>2 DEF MayFail
<1> QED BY <1>1, <1>2 DEF ReceiverInv

LEMMA QueueKeepsReceiver ==
  ASSUME ReceiverInv, ConsumeStart \/ ReceiverQueue
  PROVE  ReceiverInv'
<1>0. /\ toSender \in Seq(SenderMsg) /\ sink \in {0, index}
      /\ (sink # 0 => index \in File) /\ (task # "idle" => index \in File)
      /\ (writes # <<>> \/ task # "idle") => accepting = "yes"
  BY DEF ReceiverInv, HandshakeInv
<1>1. CASE ConsumeStart
  <2>1. accepting = "yes" /\ UNCHANGED <<accepting, verified, index, finishing>>
    BY <1>0, <1>1 DEF ConsumeStart, MustConsume
  <2>2. CASE aborted
    <3>1. ChunkDone(toSender) /\ UNCHANGED failing
      BY <1>1, <2>2 DEF ConsumeStart
    <3>2. MayFail /\ sink' = sink
      BY <3>1 DEF failing, MayFail
    <3> QED BY <1>0, <2>1, <3>1, <3>2, QuietChunkDone, OrdinaryStep
  <2>3. CASE ~aborted
    <3> DEFINE split == Split(Sizes, cursor, Len(Head(writes)))
    <3>1. FailChunk \/ Advance(split.pieces, rStatus)
      BY <1>1, <2>1, <2>3 DEF ConsumeStart
    <3> HIDE DEF split
    <3> QED BY <1>0, <2>1, <3>1, FailChunkOK, AdvanceOK, OrdinaryStep
  <2> QED BY <2>2, <2>3
<1>2. CASE PieceWritten
  <2>1. accepting = "yes" /\ UNCHANGED <<accepting, verified, index, finishing>>
    BY <1>0, <1>2 DEF PieceWritten
  <2>2. CASE rHasher
    <3>1. UNCHANGED <<failing, toSender>> /\ index \in File
      BY <1>0, <1>2, <2>2 DEF PieceWritten
    <3>2. MayFail /\ sink' = sink /\ Quiet
      BY <1>0, <3>1, QuietSame DEF failing, MayFail
    <3> QED BY <2>1, <3>1, <3>2, OrdinaryStep
  <2>3. CASE ~rHasher
    <3>1. FailChunk
      BY <1>2, <2>3 DEF PieceWritten
    <3> QED BY <1>0, <2>1, <3>1, FailChunkOK, OrdinaryStep
  <2> QED BY <2>2, <2>3
<1>3. CASE PieceHashed
  <2>1. accepting = "yes" /\ UNCHANGED <<accepting, verified, index, finishing>> /\ index \in File
    BY <1>0, <1>3 DEF PieceHashed
  <2>2. CASE Head(pieces).endsFile
    <3>1. UNCHANGED <<failing, toSender>>
      BY <1>3, <2>2 DEF PieceHashed
    <3>2. MayFail /\ sink' = sink /\ Quiet
      BY <1>0, <3>1, QuietSame DEF failing, MayFail
    <3> QED BY <2>1, <3>2, OrdinaryStep
  <2>3. CASE ~Head(pieces).endsFile
    <3>1. Advance(Tail(pieces), rStatus)
      BY <1>3, <2>3 DEF PieceHashed
    <3> QED BY <1>0, <2>1, <3>1, AdvanceOK, OrdinaryStep
  <2> QED BY <2>2, <2>3
<1>4. CASE DigestComputed
  <2>1. /\ accepting = "yes" /\ index \in File
        /\ UNCHANGED <<accepting, verified, index, finishing, toSender, sink, rState, aborted>>
    BY <1>0, <1>4 DEF DigestComputed
  <2>2. Quiet /\ MayFail
    BY <1>0, <2>1, QuietSame DEF MayFail
  <2> QED BY <2>1, <2>2, OrdinaryStep
<1>5. CASE Mismatch
  <2>1. /\ accepting = "yes" /\ UNCHANGED <<accepting, verified, index, finishing>>
        /\ RFailFrom("failed", 0, Discard(index, fate), rStatus) /\ ChunkDone(toSender)
    BY <1>0, <1>5 DEF Mismatch
  <2>2. MayFail /\ sink' = 0
    BY <2>1, FailFromOK
  <2> QED BY <1>0, <2>1, <2>2, QuietChunkDone, OrdinaryStep
<1>6. CASE FileCloses
  <2> DEFINE queue == SendControl(rOpen, toSender, [type |-> "FILE_VERIFIED", file |-> index])
  <2>1. /\ accepting = "yes" /\ index \in File /\ index' = index + 1 /\ sink' = 0
        /\ UNCHANGED <<accepting, verified, finishing, rState, aborted>>
    BY <1>0, <1>6 DEF FileCloses
  <2>2. /\ queue \in Seq(SenderMsg)
        /\ \A t \in {"MANIFEST_ACCEPT", "TRANSFER_VERIFIED"} :
             (\E i \in DOMAIN queue : queue[i].type = t) => Sent(t)
    <3> DEFINE m == [type |-> "FILE_VERIFIED", file |-> index]
    <3>1. m \in SenderMsg /\ m.type = "FILE_VERIFIED"
      BY <2>1, SenderMsgOK
    <3>2. queue = toSender \/ queue = Append(toSender, m)
      BY SendControlIs
    <3> HIDE DEF m, queue
    <3> QED BY <1>0, <3>1, <3>2, QueueGrows DEF Sent
  <2> HIDE DEF queue
  <2>3. Quiet /\ (task' # "idle" => index < Len(Sizes))
    <3>1. CASE index < Len(Sizes)
      <4>1. toSender' = queue
        BY <1>6, <3>1 DEF FileCloses, queue
      <4> QED BY <2>2, <3>1, <4>1 DEF Quiet, Sent
    <3>2. CASE ~(index < Len(Sizes))
      <4>1. ChunkDone(queue)
        BY <1>6, <3>2 DEF FileCloses, queue
      <4>2. /\ task' = "idle"
            /\ toSender' = queue \/ toSender' = Append(queue, [type |-> "RESUME"])
        BY <4>1, SendControlIs DEF ChunkDone
      <4> DEFINE m == [type |-> "RESUME"]
      <4>3. m \in SenderMsg /\ m.type = "RESUME"
        BY SenderMsgOK
      <4> HIDE DEF m
      <4>4. CASE toSender' = queue
        BY <2>2, <4>2, <4>4 DEF Quiet, Sent
      <4>5. CASE toSender' = Append(queue, m)
        BY <2>2, <4>2, <4>3, <4>5, QueueGrows DEF Quiet, Sent
      <4> QED BY <4>2, <4>4, <4>5 DEF m
    <3> QED BY <3>1, <3>2
  <2>4. index + 1 \in 1 .. Len(Sizes) + 1 /\ (task' # "idle" => index + 1 \in File)
    BY <2>1, <2>3, SizesOK DEF File
  <2>5. HandshakeInv'
    BY <2>1, <2>3, <2>4 DEF HandshakeInv, Quiet
  <2>6. OutcomeInv'
    BY <2>1, <2>3 DEF ReceiverInv, OutcomeInv, Quiet
  <2> QED BY <2>5, <2>6 DEF ReceiverInv
<1>7. CASE NextFileOpens
  <2>1. /\ accepting = "yes" /\ index \in File /\ sink' = index
        /\ UNCHANGED <<accepting, verified, index, finishing, toSender, rState, aborted>>
    BY <1>0, <1>7 DEF NextFileOpens, OpenCurrent
  <2>2. Quiet
    BY <1>0, <2>1, QuietSame
  <2>3. HandshakeInv'
    BY <2>1, <2>2 DEF ReceiverInv, HandshakeInv, Quiet
  <2>4. OutcomeInv'
    BY <2>1, <2>2 DEF ReceiverInv, OutcomeInv, Quiet
  <2> QED BY <2>3, <2>4 DEF ReceiverInv
<1>8. CASE NextFileReady
  <2>1. /\ accepting = "yes" /\ UNCHANGED <<accepting, verified, index, finishing>>
        /\ Advance(Tail(pieces), [rStatus EXCEPT ![index] = "receiving"])
    BY <1>0, <1>8 DEF NextFileReady
  <2> QED BY <1>0, <2>1, AdvanceOK, OrdinaryStep
<1> QED BY <1>1, <1>2, <1>3, <1>4, <1>5, <1>6, <1>7, <1>8 DEF ReceiverQueue

\* Nothing is sent to a receiver that has not accepted.
QuietBefore == accepting # "yes" => toReceiver = <<>> /\ dataNet = <<>>

\* Messages and chunks only arrive in an accepted batch.
LEMMA ArrivalsKeepReceiver ==
  ASSUME QuietBefore, ReceiverInv,
         ReceiverControl \/ ChunkArrives \/ TailArrives
  PROVE  ReceiverInv'
<1>0. /\ toSender \in Seq(SenderMsg) /\ sink \in {0, index}
      /\ (sink # 0 => index \in File) /\ (task # "idle" => index \in File)
      /\ (toReceiver # <<>> \/ dataNet # <<>> \/ finishing # "no") => accepting = "yes"
  BY DEF ReceiverInv, HandshakeInv, QuietBefore
<1>1. CASE OnTransferStart
  <2>1. /\ accepting = "yes"
        /\ UNCHANGED <<accepting, verified, index, finishing, toSender, sink, task, rState, aborted>>
    BY <1>0, <1>1 DEF OnTransferStart, RReceive, failing
  <2> QED BY <1>0, <2>1, QuietSame, OrdinaryStep DEF MayFail
<1>2. CASE OnFileDone
  <2>1. /\ accepting = "yes"
        /\ UNCHANGED <<accepting, verified, index, finishing, toSender, sink, rState, aborted>>
        /\ task' # "idle" => task # "idle"
    BY <1>0, <1>2 DEF OnFileDone, RReceive, failing
  <2> QED BY <1>0, <2>1, QuietSame, OrdinaryStep DEF MayFail
<1>3. CASE OnTransferComplete
  <2>1. /\ accepting = "yes"
        /\ UNCHANGED <<accepting, verified, index, toSender, sink, task, aborted>>
    BY <1>0, <1>3 DEF OnTransferComplete, RReceive
  <2>2. CASE aborted \/ verified \/ finishing # "no"
    <3>1. UNCHANGED <<rState, finishing>>
      BY <1>3, <2>2 DEF OnTransferComplete
    <3> QED BY <1>0, <2>1, <3>1, QuietSame, OrdinaryStep DEF MayFail
  <2>3. CASE ~(aborted \/ verified \/ finishing # "no")
    <3>1. rState' = "verifying" /\ finishing' = "tail"
      BY <1>3, <2>3 DEF OnTransferComplete
    <3>2. HandshakeInv'
      BY <2>1 DEF ReceiverInv, HandshakeInv
    <3>3. OutcomeInv'
      BY <2>1, <2>3, <3>1 DEF ReceiverInv, OutcomeInv, Sent
    <3> QED BY <3>2, <3>3 DEF ReceiverInv
  <2> QED BY <2>2, <2>3
<1>4. CASE ROnTransferFailed
  <2>1. /\ accepting = "yes" /\ RFailFrom("failed", sink, fate, rStatus)
        /\ UNCHANGED <<accepting, verified, index, finishing, toSender, task>>
    BY <1>0, <1>4 DEF ROnTransferFailed, RReceive, RFail
  <2> QED BY <1>0, <2>1, QuietSame, FailFromOK, OrdinaryStep
<1>5. CASE ChunkArrives
  <2>1. /\ accepting = "yes"
        /\ UNCHANGED <<accepting, verified, index, finishing, sink, task, rState, aborted>>
        /\ toSender' = toSender \/ toSender' = Append(toSender, [type |-> "PAUSE"])
    BY <1>0, <1>5 DEF ChunkArrives
  <2>2. Quiet
    BY <1>0, <2>1, QuietSame, QuietSend
  <2> QED BY <1>0, <2>1, <2>2, OrdinaryStep DEF MayFail
<1>6. CASE TailArrives
  <2>1. /\ accepting = "yes" /\ finishing' = "writes"
        /\ UNCHANGED <<accepting, verified, index, toSender, sink, task, rState, aborted>>
    BY <1>0, <1>6 DEF TailArrives, failing
  <2> QED BY <1>0, <2>1, QuietSame, OrdinaryStep DEF MayFail
<1> QED BY <1>1, <1>2, <1>3, <1>4, <1>5, <1>6 DEF ReceiverControl

\* A step before the batch is accepted, after which it still is not.
LEMMA EarlyStep ==
  ASSUME ReceiverInv, UNCHANGED <<verified, index, finishing, task, writes, toSender>>,
         accepting # "yes", MayFail, sink' \in {0, index}
  PROVE  ReceiverInv'
<1>0. index = 1 /\ 1 \in File
  BY SizesOK DEF ReceiverInv, HandshakeInv
<1>1. HandshakeInv'
  BY <1>0 DEF ReceiverInv, HandshakeInv, Sent
<1>2. OutcomeInv'
  <2>1. ~verified /\ verified' = FALSE
    BY DEF ReceiverInv, HandshakeInv, OutcomeInv
  <2> QED BY <2>1 DEF ReceiverInv, OutcomeInv, MayFail, Sent
<1> QED BY <1>1, <1>2 DEF ReceiverInv

LEMMA AcceptsKeepReceiver ==
  ASSUME ReceiverInv, ReceiverAccepts \/ DialogDismissed \/ AcceptFails
  PROVE  ReceiverInv'
<1>0. sink \in {0, index} /\ (accepting # "yes" => index = 1) /\ toSender \in Seq(SenderMsg)
  BY DEF ReceiverInv, HandshakeInv
<1>1. CASE Accept \/ DialogDismissed
  <2>1. /\ accepting # "yes"
        /\ UNCHANGED <<verified, index, finishing, task, writes, toSender, rState, aborted, sink>>
    BY <1>1 DEF Accept, DialogDismissed, failing, queueing
  <2> QED BY <1>0, <2>1, EarlyStep DEF MayFail
<1>2. CASE DestinationOpens
  <2>1. /\ accepting # "yes" /\ index' = 1
        /\ UNCHANGED <<verified, finishing, task, writes, toSender, rState, aborted, sink>>
    BY <1>2 DEF DestinationOpens, failing, queueing
  <2> QED BY <1>0, <2>1, EarlyStep DEF MayFail
<1>3. CASE AcceptFails
  <2>1. /\ accepting # "yes" /\ RFailFrom("failed", sink, fate, rStatus)
        /\ UNCHANGED <<verified, index, finishing, task, writes, toSender>>
    BY <1>3 DEF AcceptFails, RFail, queueing
  <2> QED BY <1>0, <2>1, FailFromOK, EarlyStep
<1>4. CASE FirstFileOpens
  <2>1. /\ accepting # "yes" /\ sink' = index
        /\ UNCHANGED <<verified, index, finishing, task, writes, toSender, rState, aborted>>
    BY <1>4 DEF FirstFileOpens, OpenCurrent, queueing
  <2> QED BY <1>0, <2>1, EarlyStep DEF MayFail
<1>5. CASE Accepted
  <2>1. /\ accepting = "init" /\ accepting' = "yes" /\ rState' = "receiving"
        /\ toSender' = SendControl(rOpen, toSender, [type |-> "MANIFEST_ACCEPT"])
        /\ UNCHANGED <<verified, index, finishing, task, writes, aborted, sink>>
    BY <1>5 DEF Accepted, queueing
  <2> DEFINE m == [type |-> "MANIFEST_ACCEPT"]
  <2>2. m \in SenderMsg /\ m.type = "MANIFEST_ACCEPT"
    BY SenderMsgOK
  <2>3. toSender' = toSender \/ toSender' = Append(toSender, m)
    BY <2>1, SendControlIs
  <2> HIDE DEF m
  <2>4. toSender' \in Seq(SenderMsg) /\ (Sent("TRANSFER_VERIFIED")' => Sent("TRANSFER_VERIFIED"))
    BY <1>0, <2>2, <2>3, QueueGrows DEF Sent
  <2>5. ~verified
    BY <2>1 DEF ReceiverInv, HandshakeInv, OutcomeInv
  <2>6. HandshakeInv'
    BY <2>1, <2>4 DEF ReceiverInv, HandshakeInv
  <2>7. OutcomeInv'
    BY <2>1, <2>4, <2>5 DEF ReceiverInv, OutcomeInv
  <2> QED BY <2>6, <2>7 DEF ReceiverInv
<1> QED BY <1>1, <1>2, <1>3, <1>4, <1>5 DEF ReceiverAccepts

\* A failure, whether the batch was accepted or not.
LEMMA FailingStep ==
  ASSUME ReceiverInv, UNCHANGED <<verified, index, finishing, accepting>>, Quiet, MayFail,
         task' \in {"idle", task}, accepting # "yes" => UNCHANGED writes, sink' \in {0, sink}
  PROVE  ReceiverInv'
<1>1. CASE accepting = "yes"
  BY <1>1, OrdinaryStep DEF ReceiverInv, HandshakeInv
<1>2. CASE accepting # "yes"
  <2>1. HandshakeInv'
    BY <1>2 DEF ReceiverInv, HandshakeInv, Quiet
  <2>2. OutcomeInv'
    <3>1. ~verified /\ verified' = FALSE
      BY <1>2 DEF ReceiverInv, HandshakeInv, OutcomeInv
    <3> QED BY <3>1 DEF ReceiverInv, OutcomeInv, MayFail, Quiet
  <2> QED BY <2>1, <2>2 DEF ReceiverInv
<1> QED BY <1>1, <1>2

LEMMA FailuresKeepReceiver ==
  ASSUME ReceiverInv,
         ReceiverLoss \/ PieceFails \/ DigestFails \/ CloseFails \/ NextFileFails \/ Decline \/ RCancel
  PROVE  ReceiverInv'
<1>0. toSender \in Seq(SenderMsg) /\ (task # "idle" => accepting = "yes")
  BY DEF ReceiverInv, HandshakeInv
<1>1. CASE PieceFails \/ NextFileFails
  <2>1. FailChunk /\ accepting = "yes" /\ UNCHANGED <<verified, index, finishing, accepting>>
    BY <1>0, <1>1 DEF PieceFails, NextFileFails
  <2> QED BY <1>0, <2>1, FailChunkOK, FailingStep
<1>2. CASE DigestFails
  <2>1. /\ accepting = "yes" /\ task' = "idle"
        /\ UNCHANGED <<verified, index, finishing, accepting, toSender, rState, aborted, sink>>
    BY <1>0, <1>2 DEF DigestFails
  <2> QED BY <1>0, <2>1, QuietSame, FailingStep DEF MayFail
<1>3. CASE CloseFails
  <2>1. /\ accepting = "yes" /\ RFailFrom("failed", 0, fate, rStatus) /\ ChunkDone(toSender)
        /\ UNCHANGED <<verified, index, finishing, accepting>>
    BY <1>0, <1>3 DEF CloseFails
  <2>2. MayFail /\ sink' = 0 /\ Quiet /\ task' = "idle"
    BY <1>0, <2>1, FailFromOK, QuietChunkDone
  <2> QED BY <2>1, <2>2, FailingStep
<1>4. CASE ReceiverLoss
  <2>1. UNCHANGED <<verified, index, finishing, accepting, toSender, task, writes>>
    BY <1>4 DEF ReceiverLoss, RChannelsClose, RConnectionFails, losing
  <2>2. MayFail /\ sink' \in {0, sink}
    <3>1. \/ \E state \in {"failed", "senderGone"} : RFailFrom(state, sink, fate, rStatus)
          \/ UNCHANGED <<rState, aborted, sink>>
      BY <1>4 DEF ReceiverLoss, RChannelsClose, RConnectionFails, RFail
    <3> QED BY <3>1, FailFromOK DEF MayFail
  <2> QED BY <1>0, <2>1, <2>2, QuietSame, FailingStep
<1>5. CASE Decline
  <2>1. /\ rState = "offered" /\ rState' = "declined"
        /\ toSender' = SendControl(rOpen, toSender, [type |-> "MANIFEST_REJECT"])
        /\ UNCHANGED <<verified, index, finishing, accepting, task, writes, aborted, sink>>
    BY <1>5 DEF Decline, queueing
  <2>2. Quiet
    BY <1>0, <2>1, QuietSend
  <2>3. HandshakeInv'
    BY <2>1, <2>2 DEF ReceiverInv, HandshakeInv, Quiet
  <2>4. OutcomeInv'
    BY <2>1, <2>2 DEF ReceiverInv, OutcomeInv, Quiet
  <2> QED BY <2>3, <2>4 DEF ReceiverInv
<1>6. CASE RCancel
  <2>1. /\ UNCHANGED <<verified, index, finishing, accepting, toSender, task, writes, rState, aborted>>
        /\ sink' = 0
    BY <1>6 DEF RCancel, queueing
  <2> QED BY <1>0, <2>1, QuietSame, FailingStep DEF MayFail
<1> QED BY <1>1, <1>2, <1>3, <1>4, <1>5, <1>6
LEMMA FinishKeepsReceiver ==
  ASSUME ReceiverInv, Finish
  PROVE  ReceiverInv'
<1>0. /\ toSender \in Seq(SenderMsg) /\ finishing = "writes" /\ finishing' = "done"
      /\ accepting = "yes" /\ UNCHANGED <<index, accepting, task, writes>>
  BY DEF ReceiverInv, HandshakeInv, Finish, MustFinish
<1>1. CASE aborted
  <2>1. UNCHANGED <<verified, rState, aborted, sink, toSender>>
    BY <1>1 DEF Finish, failing
  <2> QED BY <1>0, <2>1, QuietSame, OrdinaryStep DEF MayFail, ReceiverInv, HandshakeInv
<1>2. CASE ~aborted /\ received # TotalBytes
  <2>1. /\ toSender' = SendControl(rOpen, toSender, [type |-> "TRANSFER_FAILED"])
        /\ RFailFrom("failed", sink, fate, rStatus) /\ UNCHANGED verified
    BY <1>2 DEF Finish, RFail
  <2>2. Quiet
    BY <1>0, <2>1, QuietSend
  <2> QED BY <1>0, <2>1, <2>2, FailFromOK, OrdinaryStep DEF ReceiverInv, HandshakeInv
<1>3. CASE ~aborted /\ received = TotalBytes
  <2>1. /\ verified' = TRUE /\ rState' = "complete" /\ UNCHANGED <<aborted, sink>>
        /\ toSender' = SendControl(rOpen, toSender, [type |-> "TRANSFER_VERIFIED"])
    BY <1>3 DEF Finish
  <2> DEFINE m == [type |-> "TRANSFER_VERIFIED"]
  <2>2. m \in SenderMsg
    BY SenderMsgOK
  <2>3. toSender' = toSender \/ toSender' = Append(toSender, m)
    BY <2>1, SendControlIs
  <2> HIDE DEF m
  <2>4. toSender' \in Seq(SenderMsg)
    BY <1>0, <2>2, <2>3, QueueGrows
  <2>5. HandshakeInv'
    BY <1>0, <2>1, <2>4 DEF ReceiverInv, HandshakeInv
  <2>6. OutcomeInv'
    BY <1>0, <1>3, <2>1 DEF ReceiverInv, OutcomeInv
  <2> QED BY <2>5, <2>6 DEF ReceiverInv
<1> QED BY <1>1, <1>2, <1>3

\* The receiver's part of the handshake and of the outcome, whoever sends.
LEMMA ReceiverKeepsInv ==
  ASSUME QuietBefore, ReceiverInv, ReceiverNext
  PROVE  ReceiverInv'
BY QueueKeepsReceiver, ArrivalsKeepReceiver, AcceptsKeepReceiver, FailuresKeepReceiver,
   FinishKeepsReceiver DEF ReceiverNext, ReceiverMicrotask, ReceiverTask, ReceiverFaults

\* Nothing takes an acceptance back, or the verdict.
LEMMA AcceptedStays ==
  ASSUME ReceiverNext
  PROVE  /\ accepting = "yes" => accepting' = "yes"
         /\ verified => verified'
BY DEF ReceiverNext, ReceiverMicrotask, ReceiverTask, ReceiverQueue, ReceiverFaults, ReceiverControl,
       ReceiverAccepts, ReceiverLoss, ConsumeStart, Finish, ChunkArrives, TailArrives,
       PieceWritten, PieceHashed, DigestComputed, Mismatch, FileCloses, NextFileOpens, NextFileReady,
       OnTransferStart, OnFileDone, OnTransferComplete, ROnTransferFailed, RReceive, Accept,
       DestinationOpens, FirstFileOpens, Accepted, RChannelsClose, RConnectionFails, losing, queueing,
       PieceFails, DigestFails, CloseFails, NextFileFails, AcceptFails, DialogDismissed, Decline, RCancel

-----------------------------------------------------------------------------
(* The write queue *)

\* How far the chunk at the head of the queue has come, and when finish() may go
\* on: a step that settles the promise finish() waits for leaves the queue
\* between two chunks, and the microtasks that follow start at most a write.
QueueInv ==
  /\ dataBuf \in Seq(Chunk) /\ dataNet \in Seq(Chunk) /\ writes \in Seq(Chunk)
  /\ ahead \in Nat /\ task \in Task
  /\ task # "idle" => writes # <<>>
  /\ broken => task = "idle"
  /\ finishing = "writes" /\ ahead = 0 => task \in {"idle", "write"}
  /\ verified => ~rHasher /\ task \in {"idle", "write"}
  /\ accepting = "yes" => rState \notin {"offered", "declined"}

\* What the queue shows of fail(), and of the end of a chunk.
Failed == /\ rState' = rState \/ rState' \in {"failed", "senderGone"}
          /\ rHasher' => rHasher

ChunkEnds == /\ task' = "idle" /\ writes' = Tail(writes)
             /\ ahead' = IF finishing = "writes" /\ ahead > 0 THEN ahead - 1 ELSE ahead

LEMMA FailIs ==
  ASSUME NEW state \in {"failed", "senderGone"}, NEW s, NEW fates, NEW statuses,
         RFailFrom(state, s, fates, statuses)
  PROVE  Failed
BY DEF RFailFrom, Failed

LEMMA ChunkDoneIs == ASSUME NEW q, ChunkDone(q) PROVE ChunkEnds
BY DEF ChunkDone, ChunkEnds

LEMMA FailChunkIs == FailChunk => Failed /\ ChunkEnds
BY FailIs, ChunkDoneIs DEF FailChunk, RFail

LEMMA AdvanceIs ==
  ASSUME NEW ps, NEW statuses, Advance(ps, statuses)
  PROVE  /\ Failed
         /\ \/ ChunkEnds
            \/ task' = "write" /\ rHasher /\ UNCHANGED <<writes, ahead>>
<1>1. CASE ps = <<>>
  BY <1>1, ChunkDoneIs DEF Advance, Failed
<1>2. CASE ps # <<>> /\ sink # 0 /\ rHasher /\ Head(ps).index = index
  BY <1>2 DEF Advance, Failed
<1>3. CASE ps # <<>> /\ ~(sink # 0 /\ rHasher /\ Head(ps).index = index)
  <2>1. RFailFrom("failed", sink, fate, statuses) /\ ChunkDone(toSender)
    BY <1>3 DEF Advance
  <2> QED BY <2>1, FailIs, ChunkDoneIs
<1> QED BY <1>1, <1>2, <1>3

\* Steps of the queue: the chunk is done with, or goes on to its next stage.
LEMMA ChunkEndsKeeps ==
  ASSUME QueueInv, task # "idle" \/ writes # <<>>, ChunkEnds, Failed,
         UNCHANGED <<dataBuf, dataNet, finishing, verified, accepting, broken>>
  PROVE  QueueInv'
<1>1. writes' \in Seq(Chunk)
  BY TailOK DEF QueueInv, ChunkEnds
<1>2. ahead' \in Nat /\ "idle" \in Task
  BY DEF QueueInv, ChunkEnds, Task
<1> QED BY <1>1, <1>2 DEF QueueInv, ChunkEnds, Failed

LEMMA StageKeeps ==
  ASSUME QueueInv, task # "idle", AtRest, ~verified, task' \in Task \ {"idle"},
         rState' = rState \/ rState' \in {"failed", "senderGone"},
         UNCHANGED <<dataBuf, dataNet, writes, ahead, finishing, verified, accepting, broken>>
  PROVE  QueueInv'
BY DEF QueueInv, AtRest, MustFinish

LEMMA QueueStepKeeps ==
  ASSUME QueueInv, AtRest, ReceiverQueue \/ PieceFails \/ DigestFails \/ CloseFails \/ NextFileFails
  PROVE  QueueInv'
<1> USE DEF transport
<1>0. verified => ~rHasher /\ task \in {"idle", "write"}
  BY DEF QueueInv
<1>1. CASE PieceWritten
  <2>1. task = "write" /\ UNCHANGED <<dataBuf, dataNet, finishing, verified, accepting, broken>>
    BY <1>1 DEF PieceWritten
  <2>2. CASE rHasher
    <3>1. task' = "hash" /\ UNCHANGED <<rState, writes, ahead>>
      BY <1>1, <2>2 DEF PieceWritten, failing
    <3> QED BY <1>0, <2>1, <2>2, <3>1, StageKeeps DEF Task
  <2>3. CASE ~rHasher
    <3>1. FailChunk
      BY <1>1, <2>3 DEF PieceWritten
    <3> QED BY <2>1, <3>1, FailChunkIs, ChunkEndsKeeps
  <2> QED BY <2>2, <2>3
<1>2. CASE PieceHashed
  <2>1. task = "hash" /\ UNCHANGED <<dataBuf, dataNet, finishing, verified, accepting, broken>>
    BY <1>2 DEF PieceHashed
  <2>2. CASE Head(pieces).endsFile
    <3>1. task' = "final" /\ UNCHANGED <<rState, writes, ahead>>
      BY <1>2, <2>2 DEF PieceHashed, failing
    <3> QED BY <1>0, <2>1, <3>1, StageKeeps DEF Task
  <2>3. CASE ~Head(pieces).endsFile
    <3>1. Advance(Tail(pieces), rStatus)
      BY <1>2, <2>3 DEF PieceHashed
    <3>2. Failed /\ (ChunkEnds \/ (task' = "write" /\ UNCHANGED <<writes, ahead>>))
      BY <3>1, AdvanceIs
    <3> QED BY <1>0, <2>1, <3>2, ChunkEndsKeeps, StageKeeps DEF Task, Failed
  <2> QED BY <2>2, <2>3
<1>3. CASE DigestComputed
  <2>1. /\ task = "final" /\ task' \in {"digest", "close", "abort"}
        /\ UNCHANGED <<dataBuf, dataNet, writes, ahead, finishing, verified, accepting, broken, rState>>
    BY <1>3 DEF DigestComputed, Verdict
  <2> QED BY <1>0, <2>1, StageKeeps DEF Task
<1>4. CASE Mismatch
  <2>1. /\ task = "abort" /\ RFailFrom("failed", 0, Discard(index, fate), rStatus)
        /\ ChunkDone(toSender)
        /\ UNCHANGED <<dataBuf, dataNet, finishing, verified, accepting, broken>>
    BY <1>4 DEF Mismatch
  <2> QED BY <2>1, FailIs, ChunkDoneIs, ChunkEndsKeeps
<1>5. CASE FileCloses
  <2>1. /\ task = "close"
        /\ UNCHANGED <<dataBuf, dataNet, finishing, verified, accepting, broken, rState, rHasher>>
    BY <1>5 DEF FileCloses
  <2>2. \/ task' = "open" /\ UNCHANGED <<writes, ahead>>
        \/ \E q : ChunkDone(q)
    BY <1>5 DEF FileCloses
  <2>3. Failed
    BY <2>1 DEF Failed
  <2> QED BY <1>0, <2>1, <2>2, <2>3, ChunkDoneIs, ChunkEndsKeeps, StageKeeps DEF Task
<1>6. CASE NextFileOpens
  <2>1. /\ task = "open" /\ task' = "init"
        /\ UNCHANGED <<dataBuf, dataNet, writes, ahead, finishing, verified, accepting, broken, rState>>
    BY <1>6 DEF NextFileOpens
  <2> QED BY <1>0, <2>1, StageKeeps DEF Task
<1>7. CASE NextFileReady
  <2>1. /\ task = "init" /\ Advance(Tail(pieces), [rStatus EXCEPT ![index] = "receiving"])
        /\ UNCHANGED <<dataBuf, dataNet, finishing, verified, accepting, broken>>
    BY <1>7 DEF NextFileReady
  <2>2. Failed /\ (ChunkEnds \/ (task' = "write" /\ UNCHANGED <<writes, ahead>>))
    BY <2>1, AdvanceIs
  <2> QED BY <1>0, <2>1, <2>2, ChunkEndsKeeps, StageKeeps DEF Task, Failed
<1>8. CASE PieceFails \/ NextFileFails
  <2>1. /\ task # "idle" /\ FailChunk
        /\ UNCHANGED <<dataBuf, dataNet, finishing, verified, accepting, broken>>
    BY <1>8 DEF PieceFails, NextFileFails
  <2> QED BY <2>1, FailChunkIs, ChunkEndsKeeps
<1>9. CASE DigestFails
  <2>1. /\ task' = "idle" /\ task = "final"
        /\ UNCHANGED <<dataBuf, dataNet, writes, ahead, finishing, verified, accepting, rState, rHasher>>
    BY <1>9 DEF DigestFails
  <2> QED BY <2>1 DEF QueueInv, Task
<1>10. CASE CloseFails
  <2>1. /\ task = "close" /\ RFailFrom("failed", 0, fate, rStatus) /\ ChunkDone(toSender)
        /\ UNCHANGED <<dataBuf, dataNet, finishing, verified, accepting, broken>>
    BY <1>10 DEF CloseFails
  <2> QED BY <2>1, FailIs, ChunkDoneIs, ChunkEndsKeeps
<1> QED BY <1>1, <1>2, <1>3, <1>4, <1>5, <1>6, <1>7, <1>8, <1>9, <1>10 DEF ReceiverQueue

LEMMA MicrotasksKeepQueue ==
  ASSUME QueueInv, ConsumeStart \/ Finish
  PROVE  QueueInv'
<1> USE DEF transport
<1>1. CASE ConsumeStart
  <2>1. /\ task = "idle" /\ writes # <<>> /\ ~broken
        /\ UNCHANGED <<dataBuf, dataNet, finishing, verified, accepting, broken>>
    BY <1>1 DEF ConsumeStart, MustConsume
  <2>2. CASE aborted \/ accepting \in {"no", "dest"}
    <3>1. ChunkDone(toSender) /\ UNCHANGED failing
      BY <1>1, <2>2 DEF ConsumeStart
    <3>2. Failed
      BY <3>1 DEF failing, Failed
    <3> QED BY <2>1, <3>1, <3>2, ChunkDoneIs, ChunkEndsKeeps
  <2>3. CASE ~(aborted \/ accepting \in {"no", "dest"})
    <3>1. FailChunk \/ \E ps : Advance(ps, rStatus)
      BY <1>1, <2>3 DEF ConsumeStart
    <3>2. Failed /\ (ChunkEnds \/ (task' = "write" /\ rHasher /\ UNCHANGED <<writes, ahead>>))
      BY <3>1, FailChunkIs, AdvanceIs
    <3>3. CASE ChunkEnds
      BY <2>1, <3>2, <3>3, ChunkEndsKeeps
    <3>4. CASE task' = "write" /\ rHasher /\ UNCHANGED <<writes, ahead>>
      BY <2>1, <3>2, <3>4 DEF QueueInv, Failed, Task
    <3> QED BY <3>2, <3>3, <3>4
  <2> QED BY <2>2, <2>3
<1>2. CASE Finish
  <2>1. /\ finishing = "writes" /\ finishing' = "done" /\ (ahead = 0 \/ broken)
        /\ UNCHANGED <<dataBuf, dataNet, writes, ahead, accepting, broken, task>>
    BY <1>2 DEF Finish, MustFinish
  <2>2. task \in {"idle", "write"}
    BY <2>1 DEF QueueInv
  <2>3. \/ Failed /\ UNCHANGED verified
        \/ verified' /\ ~rHasher' /\ rState' = "complete"
    <3>1. \/ UNCHANGED <<failing, verified>>
          \/ RFailFrom("failed", sink, fate, rStatus) /\ UNCHANGED verified
          \/ verified' /\ ~rHasher' /\ rState' = "complete"
      BY <1>2 DEF Finish, RFail
    <3> QED BY <3>1, FailIs DEF Failed, failing
  <2> QED BY <2>1, <2>2, <2>3 DEF QueueInv, Failed
<1> QED BY <1>1, <1>2

LEMMA OtherTasksKeepQueue ==
  ASSUME QueueInv, ReceiverInv, AtRest,
         \/ ChunkArrives \/ TailArrives \/ ReceiverControl \/ ReceiverAccepts \/ ReceiverLoss
         \/ AcceptFails \/ DialogDismissed \/ Decline \/ RCancel
  PROVE  QueueInv'
<1> USE DEF transport, failing, queueing, losing
<1>1. CASE ChunkArrives
  <2>1. /\ dataNet # <<>> /\ dataNet' = Tail(dataNet) /\ writes' = Append(writes, Head(dataNet))
        /\ UNCHANGED <<dataBuf, ahead, task, finishing, verified, accepting, broken, rState, rHasher>>
    BY <1>1 DEF ChunkArrives
  <2>2. dataNet' \in Seq(Chunk) /\ Head(dataNet) \in Chunk
    BY <2>1, TailOK DEF QueueInv
  <2>3. writes' \in Seq(Chunk) /\ writes' # <<>>
    BY <2>1, <2>2 DEF QueueInv
  <2> QED BY <2>1, <2>2, <2>3 DEF QueueInv
<1>2. CASE TailArrives
  <2>1. /\ ahead' = Len(writes) /\ finishing = "tail"
        /\ UNCHANGED <<dataBuf, dataNet, writes, task, verified, accepting, broken, rState, rHasher>>
    BY <1>2 DEF TailArrives
  <2>2. Len(writes) \in Nat /\ (Len(writes) = 0 => writes = <<>>)
    BY DEF QueueInv
  <2> QED BY <2>1, <2>2 DEF QueueInv
<1>3. CASE OnFileDone
  <2>1. /\ task' = task \/ (task = "digest" /\ task' \in {"close", "abort"})
        /\ UNCHANGED <<dataBuf, dataNet, writes, ahead, finishing, verified, accepting, broken, rState, rHasher>>
    BY <1>3 DEF OnFileDone, RReceive, Verdict
  <2> QED BY <2>1 DEF QueueInv, Task
<1>4. CASE OnTransferStart \/ OnTransferComplete \/ ROnTransferFailed
  <2>1. /\ finishing' \in {finishing, "tail"}
        /\ UNCHANGED <<dataBuf, dataNet, writes, ahead, task, verified, accepting, broken>>
    BY <1>4 DEF OnTransferStart, OnTransferComplete, ROnTransferFailed, RReceive
  <2>2. rState' \notin {"offered", "declined"} \/ rState' = rState
    BY <1>4, FailIs DEF OnTransferStart, OnTransferComplete, ROnTransferFailed, RFail, Failed
  <2>3. rHasher' => rHasher
    BY <1>4, FailIs DEF OnTransferStart, OnTransferComplete, ROnTransferFailed, RFail, Failed
  <2> QED BY <2>1, <2>2, <2>3 DEF QueueInv
<1>5. CASE ReceiverAccepts
  <2>1. /\ accepting # "yes" /\ (accepting' = "yes" => rState' = "receiving")
        /\ UNCHANGED <<dataBuf, dataNet, writes, ahead, task, finishing, verified, broken>>
    BY <1>5 DEF ReceiverAccepts, Accept, DestinationOpens, FirstFileOpens, Accepted
  <2>2. verified => FALSE
    BY <2>1 DEF ReceiverInv, HandshakeInv, OutcomeInv
  <2> QED BY <2>1, <2>2 DEF QueueInv
<1>6. CASE ReceiverLoss \/ AcceptFails \/ DialogDismissed \/ RCancel
  <2>1. /\ accepting' \in {accepting, "no"}
        /\ UNCHANGED <<dataBuf, dataNet, writes, ahead, task, finishing, verified, broken>>
    BY <1>6 DEF ReceiverLoss, RChannelsClose, RConnectionFails, AcceptFails, DialogDismissed, RCancel
  <2>2. Failed
    BY <1>6, FailIs DEF ReceiverLoss, RChannelsClose, RConnectionFails, AcceptFails,
                        DialogDismissed, RCancel, RFail, Failed
  <2> QED BY <2>1, <2>2 DEF QueueInv, Failed
<1>7. CASE Decline
  <2>1. /\ rState = "offered" /\ ~rHasher'
        /\ UNCHANGED <<dataBuf, dataNet, writes, ahead, task, finishing, verified, broken, accepting>>
    BY <1>7 DEF Decline
  <2> QED BY <2>1 DEF QueueInv
<1> QED BY <1>1, <1>2, <1>3, <1>4, <1>5, <1>6, <1>7 DEF ReceiverControl

LEMMA ReceiverKeepsQueue ==
  ASSUME QueueInv, ReceiverInv, ReceiverNext
  PROVE  QueueInv'
BY MicrotasksKeepQueue, QueueStepKeeps, OtherTasksKeepQueue
   DEF ReceiverNext, ReceiverMicrotask, ReceiverTask, ReceiverFaults

-----------------------------------------------------------------------------
(* The cursor, the hasher, the sink and the counted bytes *)

\* The bytes of the file being received that were hashed.
Placed == IF index \in File /\ task # "open" THEN Len(rHashed) ELSE 0

\* The file being received has a sink and a live hasher, unless the connection
\* was closed over it.
Held == closed \/ (sink # 0 /\ rHasher)

\* Where an accepted batch stands: received counts the files before index and
\* what is hashed of that one, and the pieces that are left of the chunk lead
\* from there to the cursor, which ran ahead to the end of the chunk.
Stage ==
  LET size == Len(Head(writes)) IN
  /\ received = FirstBytes[index - 1] + Placed
  /\ task = "idle" /\ ~broken => Leaves(<<>>, index, Placed, cursor)
  /\ task = "idle" /\ index \in File => Held
  /\ task \in {"write", "hash", "final", "init"} => Held
  /\ task \in {"write", "hash"} => pieces # <<>> /\ Cuts(pieces, index, Len(rHashed), size, cursor)
  /\ task \in {"digest", "close", "abort"} => closed \/ sink # 0
  /\ task \in {"final", "digest", "close", "abort"} =>
       Len(rHashed) = Sizes[index] /\ Cuts(Tail(pieces), index + 1, 0, size, cursor)
  /\ task \in {"open", "init"} => Cuts(Tail(pieces), index, 0, size, cursor)
  /\ task = "open" => sink = 0
  /\ task = "init" => rHashed = <<>>

\* A batch that was not aborted: every file before index is saved and none is
\* lost, until the connection is closed.
Sound ==
  /\ rHashed \in Chunk
  /\ ~closed => \A f \in File : (f < index => fate[f] = "saved") /\ fate[f] # "discarded"
  /\ accepting \in {"open", "init"} => received = 0 /\ cursor = AtStart
  /\ accepting = "init" => Held /\ rHashed = <<>>
  /\ accepting = "yes" => Stage

\* Where fail() does nothing, there is nothing left to fail.
Closing ==
  /\ rState \in {"complete", "declined"} => closed
  /\ rState = "complete" => accepting = "yes" /\ (broken \/ index \notin File)
  /\ rState \in {"offered", "declined"} => accepting # "yes"
  /\ rOpen => ~closed

\* The first n - 1 files are verified, and no other.
Ticked(statuses, n) ==
  /\ statuses = [f \in File |-> statuses[f]]
  /\ \A f \in File : statuses[f] = "verified" <=> f < n

Rows == fate = [f \in File |-> fate[f]] /\ Ticked(rStatus, index)

SyncInv == CursorOK(cursor) /\ Closing /\ Rows /\ (~aborted => Sound)

\* What the receiver knows of its own queue, whoever sends.
QueueFacts ==
  /\ index \in 1 .. Len(Sizes) + 1 /\ writes \in Seq(Chunk) /\ task \in Task
  /\ task # "idle" => index \in File /\ writes # <<>> /\ ~broken
  /\ sink \in {0, index} /\ (sink # 0 => index \in File)
  /\ accepting # "yes" => writes = <<>> /\ task = "idle" /\ finishing = "no" /\ index = 1
  /\ finishing = "writes" /\ ahead = 0 => task \in {"idle", "write"}

LEMMA QueueFactsHold == ReceiverInv /\ QueueInv => QueueFacts
BY SizesOK DEF ReceiverInv, HandshakeInv, QueueInv, QueueFacts

\* Rows other than those before n may say anything but verified.
LEMMA TickedExcept ==
  ASSUME NEW statuses, NEW n \in Nat, Ticked(statuses, n), NEW status, status # "verified"
  PROVE  Ticked([statuses EXCEPT ![n] = status], n)
<1> DEFINE st == [statuses EXCEPT ![n] = status]
<1>1. \A f \in File : f < n => f # n
  BY SizesOK
<1>2. statuses = [f \in File |-> statuses[f]] /\ \A f \in File : statuses[f] = "verified" <=> f < n
  BY DEF Ticked
<1>3. st = [f \in File |-> st[f]]
  BY <1>2
<1>4. ASSUME NEW f \in File PROVE st[f] = "verified" <=> f < n
  <2>1. CASE f = n
    BY <1>1, <1>2, <2>1
  <2>2. CASE f # n
    BY <1>2, <2>2
  <2> QED BY <2>1, <2>2
<1> QED BY <1>3, <1>4 DEF Ticked

\* While a chunk is consumed the batch is neither complete nor declined.
LEMMA StillFails ==
  ASSUME SyncInv, QueueFacts, task # "idle"
  PROVE  rState \notin {"complete", "declined"}
BY DEF SyncInv, Closing, QueueFacts

LEMMA FailSync ==
  ASSUME SyncInv, QueueFacts, aborted \/ rState \notin {"complete", "declined"},
         NEW state \in {"failed", "senderGone"}, NEW s, NEW fates, NEW statuses,
         fates = [f \in File |-> fates[f]], Ticked(statuses, index), CursorOK(cursor'),
         RFailFrom(state, s, fates, statuses), UNCHANGED <<index, broken>>,
         accepting' = accepting \/ (accepting # "yes" /\ accepting' = "no")
  PROVE  SyncInv' /\ aborted'
<1>0. index \in Nat
  BY SizesOK DEF QueueFacts
<1>1. CASE aborted
  <2>1. fate' = fates /\ rStatus' = statuses /\ UNCHANGED <<rState, aborted, closed, rOpen>>
    BY <1>1 DEF RFailFrom
  <2>2. Closing'
    BY <2>1 DEF SyncInv, Closing
  <2>3. Rows'
    BY <2>1 DEF Rows
  <2> QED BY <1>1, <2>1, <2>2, <2>3 DEF SyncInv
<1>2. CASE ~aborted
  <2>1. /\ fate' = Discard(s, fates) /\ aborted' = TRUE /\ rState' = state /\ closed' = TRUE
        /\ rOpen' = FALSE
        /\ rStatus' = IF index \in File THEN [statuses EXCEPT ![index] = "failed"] ELSE statuses
    BY <1>2 DEF RFailFrom
  <2>2. fate' = [f \in File |-> fate'[f]]
    BY <2>1 DEF Discard
  <2>3. Ticked(rStatus', index)
    BY <1>0, <2>1, TickedExcept
  <2>4. Rows'
    BY <2>2, <2>3 DEF Rows
  <2>5. Closing'
    BY <2>1 DEF Closing
  <2> QED BY <2>1, <2>4, <2>5 DEF SyncInv
<1> QED BY <1>1, <1>2

\* A chunk that fails while it is consumed.
LEMMA FailChunkSync ==
  ASSUME SyncInv, QueueFacts, task # "idle", FailChunk, UNCHANGED <<cursor, index, broken, accepting>>
  PROVE  SyncInv'
<1>1. RFailFrom("failed", sink, fate, rStatus)
  BY DEF FailChunk, RFail
<1>2. CursorOK(cursor') /\ fate = [f \in File |-> fate[f]] /\ Ticked(rStatus, index)
  BY DEF SyncInv, Rows
<1> QED BY <1>1, <1>2, StillFails, FailSync

\* Going on with pieces that lead from where the batch stands to the cursor.
LEMMA AdvanceSync ==
  ASSUME SyncInv, QueueFacts, NEW ps, NEW statuses, Advance(ps, statuses), accepting = "yes", ~broken,
         UNCHANGED <<index, accepting, broken>>, CursorOK(cursor'), Ticked(statuses, index),
         ~aborted => /\ rHashed' \in Chunk
                     /\ received' = FirstBytes[index - 1] + IF index \in File THEN Len(rHashed') ELSE 0
                     /\ Cuts(ps, index, IF index \in File THEN Len(rHashed') ELSE 0,
                             Len(Head(writes)), cursor')
                     /\ index \in File => Held
  PROVE  SyncInv'
<1> DEFINE fits == sink # 0 /\ rHasher /\ Head(ps).index = index
<1>0. fate = [f \in File |-> fate[f]] /\ index \in Nat
  BY SizesOK DEF SyncInv, Rows, QueueFacts
<1>1. CASE ps = <<>> \/ fits
  <2>1. UNCHANGED <<rState, aborted, closed, sink, fate, rHasher, rOpen>> /\ rStatus' = statuses
    BY <1>1 DEF Advance
  <2>2. Closing' /\ Rows'
    BY <1>0, <2>1 DEF SyncInv, Closing, Rows
  <2>3. ASSUME ~aborted PROVE Sound'
    <3>1. Sound
      BY <2>3 DEF SyncInv
    <3>2. CASE ps = <<>>
      <4>1. task' = "idle"
        BY <3>2 DEF Advance, ChunkDone
      <4>2. Leaves(<<>>, index, IF index \in File THEN Len(rHashed') ELSE 0, cursor')
        BY <2>3, <3>2 DEF Cuts
      <4>3. Stage'
        BY <2>1, <2>3, <4>1, <4>2 DEF Stage, Placed, Held
      <4> QED BY <2>1, <2>3, <3>1, <4>3 DEF Sound
    <3>3. CASE ps # <<>>
      <4>1. task' = "write" /\ pieces' = ps /\ writes' = writes /\ sink # 0 /\ rHasher
        BY <1>1, <3>3 DEF Advance
      <4>2. index \in File
        BY <4>1 DEF QueueFacts
      <4>3. Stage'
        BY <2>1, <2>3, <3>3, <4>1, <4>2 DEF Stage, Placed, Held
      <4> QED BY <2>1, <2>3, <3>1, <4>3 DEF Sound
    <3> QED BY <3>2, <3>3
  <2> QED BY <2>1, <2>2, <2>3 DEF SyncInv
<1>2. CASE ps # <<>> /\ ~fits
  <2>1. RFailFrom("failed", sink, fate, statuses)
    BY <1>2 DEF Advance
  <2>2. aborted \/ index \in File
    <3>1. 0 \in Nat
      OBVIOUS
    <3> QED BY <1>0, <1>2, <3>1, CutsEnd
  <2>3. aborted \/ rState \notin {"complete", "declined"}
    BY <2>2 DEF SyncInv, Closing
  <2> QED BY <1>0, <2>1, <2>3, FailSync
<1> HIDE DEF fits
<1> QED BY <1>1, <1>2

LEMMA ConsumeSync == ASSUME SyncInv, QueueFacts, ConsumeStart PROVE SyncInv'
<1>1. /\ task = "idle" /\ writes # <<>> /\ ~broken /\ accepting = "yes"
      /\ UNCHANGED <<accepting, index, received, broken, rHashed>>
  BY DEF ConsumeStart, MustConsume, QueueFacts
<1>2. CASE aborted
  <2>1. UNCHANGED <<cursor, failing>>
    BY <1>2 DEF ConsumeStart
  <2> QED BY <1>1, <1>2, <2>1 DEF SyncInv, Closing, Rows, failing
<1>3. CASE ~aborted
  <2> DEFINE l == Len(Head(writes))
             split == Split(Sizes, cursor, l)
  <2>1. cursor' = split.cur /\ IF split.overflow > 0 THEN FailChunk ELSE Advance(split.pieces, rStatus)
    BY <1>1, <1>3 DEF ConsumeStart
  <2>2. CursorOK(cursor) /\ l \in Nat
    BY <1>1, TailOK DEF SyncInv, QueueFacts, Chunk
  <2>3. CursorOK(split.cur) /\ Cuts(split.pieces, cursor.index, cursor.inFile, l, split.cur)
    BY <2>2, SplitOK
  <2>4. /\ rHashed \in Chunk /\ received = FirstBytes[index - 1] + Placed
        /\ cursor.index = index /\ cursor.inFile = Placed
        /\ index \in File => Held
    BY <1>1, <1>3 DEF SyncInv, Sound, Stage, Leaves
  <2>5. Placed = IF index \in File THEN Len(rHashed) ELSE 0
    BY <1>1 DEF Placed
  <2>6. fate = [f \in File |-> fate[f]] /\ Ticked(rStatus, index)
    BY DEF SyncInv, Rows
  <2> HIDE DEF split
  <2>7. CASE split.overflow > 0
    <3>1. RFailFrom("failed", sink, fate, rStatus) /\ task' = "idle"
      BY <2>1, <2>7 DEF FailChunk, RFail, ChunkDone
    <3>2. CASE rState \notin {"complete", "declined"}
      BY <1>1, <2>1, <2>3, <2>6, <3>1, <3>2, FailSync
    <3>3. CASE rState \in {"complete", "declined"}
      <4>1. index \notin File /\ index \in Nat /\ 0 \in Nat
        BY <1>1, <3>3, SizesOK DEF SyncInv, Closing, QueueFacts
      <4>2. UNCHANGED <<rState, aborted, closed, sink, fate, rHasher, rOpen, rStatus>>
        BY <1>3, <3>1, <3>3 DEF RFailFrom
      <4>3. Leaves(<<>>, index, 0, split.cur)
        <5>1. split.pieces = <<>>
          BY <2>3, <2>4, <2>5, <4>1, CutsEnd
        <5> QED BY <2>3, <2>4, <2>5, <4>1, <5>1 DEF Cuts
      <4>4. Stage'
        BY <1>1, <2>1, <2>4, <2>5, <3>1, <4>1, <4>2, <4>3 DEF Stage, Placed
      <4>5. Sound'
        BY <1>1, <1>3, <4>2, <4>4 DEF SyncInv, Sound
      <4> QED BY <1>1, <2>1, <2>3, <4>2, <4>5 DEF SyncInv, Closing, Rows
    <3> QED BY <3>2, <3>3
  <2>8. CASE ~(split.overflow > 0)
    <3>1. Advance(split.pieces, rStatus)
      BY <2>1, <2>8
    <3>2. Cuts(split.pieces, index, IF index \in File THEN Len(rHashed) ELSE 0, l, cursor')
      BY <2>1, <2>3, <2>4, <2>5
    <3> HIDE DEF l
    <3> QED BY <1>1, <2>1, <2>3, <2>4, <2>5, <2>6, <3>1, <3>2, AdvanceSync DEF l
  <2> QED BY <2>7, <2>8
<1> QED BY <1>2, <1>3

\* A step of the queue that fails nothing.
LEMMA StageSync ==
  ASSUME SyncInv, UNCHANGED <<rState, aborted, closed, rOpen, index, accepting, cursor, rStatus, broken>>,
         fate' = [f \in File |-> fate'[f]], accepting = "yes",
         ~aborted => /\ rHashed' \in Chunk /\ Stage'
                     /\ ~closed => \A f \in File : (f < index => fate'[f] = "saved") /\ fate'[f] # "discarded"
  PROVE  SyncInv'
<1>1. Closing' /\ Rows'
  BY DEF SyncInv, Closing, Rows
<1>2. ~aborted => Sound'
  BY DEF Sound
<1> QED BY <1>1, <1>2 DEF SyncInv

LEMMA PieceSync ==
  ASSUME SyncInv, QueueFacts, PieceWritten \/ PieceHashed
  PROVE  SyncInv'
<1>0. /\ index \in File /\ index \in Nat /\ accepting = "yes" /\ Head(writes) \in Chunk /\ ~broken
      /\ UNCHANGED <<accepting, index, cursor, broken>> /\ task # "idle" /\ CursorOK(cursor')
      /\ Ticked(rStatus, index) /\ fate = [f \in File |-> fate[f]]
  BY SizesOK, TailOK DEF QueueFacts, PieceWritten, PieceHashed, SyncInv, Rows
<1>1. CASE PieceWritten
  <2>1. CASE rHasher
    <3>1. task = "write" /\ task' = "hash"
          /\ UNCHANGED <<received, rHashed, rHasher, sink, writes, pieces, rState, aborted, closed, rOpen,
                         fate, rStatus>>
      BY <1>1, <2>1 DEF PieceWritten, failing
    <3>2. ~aborted => Stage'
      BY <1>0, <3>1 DEF SyncInv, Sound, Stage, Placed, Held
    <3>3. ~aborted => /\ rHashed' \in Chunk
                      /\ ~closed => \A f \in File : (f < index => fate'[f] = "saved") /\ fate'[f] # "discarded"
      BY <3>1 DEF SyncInv, Sound
    <3> QED BY <1>0, <3>1, <3>2, <3>3, StageSync
  <2>2. CASE ~rHasher
    BY <1>0, <1>1, <2>2, FailChunkSync DEF PieceWritten
  <2> QED BY <2>1, <2>2
<1>2. CASE PieceHashed
  <2> DEFINE q == Head(pieces)
             l == Len(Head(writes))
  <2>1. /\ task = "hash" /\ rHasher /\ rHashed' = rHashed \o PieceBytes
        /\ received' = received + q.length
    BY <1>2 DEF PieceHashed
  <2>2. ASSUME ~aborted
        PROVE  /\ rHashed' \in Chunk /\ Len(rHashed') = Len(rHashed) + q.length
               /\ received' = FirstBytes[index - 1] + Len(rHashed') /\ Held
               /\ q.endsFile => Len(rHashed') = Sizes[index] /\ Cuts(Tail(pieces), index + 1, 0, l, cursor)
               /\ ~q.endsFile => Tail(pieces) = <<>> /\ Leaves(<<>>, index, Len(rHashed'), cursor)
    <3>1. /\ rHashed \in Chunk /\ Held /\ pieces # <<>> /\ Cuts(pieces, index, Len(rHashed), l, cursor)
          /\ received = FirstBytes[index - 1] + Len(rHashed)
      BY <1>0, <2>1, <2>2 DEF SyncInv, Sound, Stage, Placed
    <3>2. Len(rHashed) \in Nat /\ l \in Nat
      BY <1>0, <3>1 DEF Chunk
    <3>3. /\ q \in Piece /\ q.offset + q.length <= l
          /\ q.endsFile <=> Len(rHashed) + q.length = Sizes[index]
          /\ q.endsFile => Cuts(Tail(pieces), index + 1, 0, l, cursor)
          /\ ~q.endsFile => Tail(pieces) = <<>> /\ cursor.index = index /\ cursor.inFile = Len(rHashed) + q.length
      BY <1>0, <3>1, <3>2, CutsTail
    <3>4. q.offset \in Nat /\ q.length \in Nat
      BY <3>3 DEF Piece
    <3>5. PieceBytes \in Chunk /\ Len(PieceBytes) = q.length
      <4> HIDE DEF q
      <4>1. PieceBytes = SubSeq(Head(writes), q.offset + 1, q.offset + q.length)
        BY DEF PieceBytes, q
      <4>2. Head(writes) \in Seq(Byte) /\ q.offset + q.length <= Len(Head(writes))
        BY <1>0, <3>3 DEF Chunk
      <4> QED BY <3>4, <4>1, <4>2, SubSeqOK DEF Chunk
    <3> DEFINE b == PieceBytes
    <3>6. rHashed' = rHashed \o b /\ b \in Chunk /\ Len(b) = q.length
      BY <2>1, <3>5
    <3> HIDE DEF b, q
    <3>7. rHashed' \in Chunk /\ Len(rHashed') = Len(rHashed) + q.length
      BY <3>1, <3>6 DEF Chunk
    <3>8. FirstBytes[index - 1] \in Nat
      BY <1>0, SizesOK, FirstBytesOK
    <3>9. received' = FirstBytes[index - 1] + Len(rHashed')
      BY <2>1, <3>1, <3>2, <3>4, <3>7, <3>8 DEF q
    <3>10. ~q.endsFile => Leaves(<<>>, index, Len(rHashed'), cursor)
      BY <3>3, <3>7 DEF Leaves, q
    <3> QED BY <3>1, <3>3, <3>7, <3>9, <3>10 DEF q
  <2>3. CASE q.endsFile
    <3>1. /\ task' = "final"
          /\ UNCHANGED <<writes, pieces, rState, aborted, closed, rOpen, sink, fate, rHasher, rStatus>>
      BY <1>2, <2>3 DEF PieceHashed, failing
    <3> HIDE DEF q
    <3>2. ~aborted => Stage'
      BY <1>0, <2>1, <2>2, <2>3, <3>1 DEF Stage, Placed, Held
    <3>3. ~aborted => /\ rHashed' \in Chunk
                      /\ ~closed => \A f \in File : (f < index => fate'[f] = "saved") /\ fate'[f] # "discarded"
      BY <2>2, <3>1 DEF SyncInv, Sound
    <3> QED BY <1>0, <3>1, <3>2, <3>3, StageSync
  <2>4. CASE ~q.endsFile
    <3>1. Advance(Tail(pieces), rStatus)
      BY <1>2, <2>4 DEF PieceHashed
    <3>2. ~aborted => Cuts(Tail(pieces), index, Len(rHashed'), l, cursor)
      BY <2>2, <2>4, CutsNone
    <3> HIDE DEF q, l
    <3> QED BY <1>0, <2>1, <2>2, <3>1, <3>2, AdvanceSync DEF l
  <2> QED BY <2>3, <2>4
<1> QED BY <1>1, <1>2

LEMMA CloseSync ==
  ASSUME SyncInv, QueueFacts, DigestComputed \/ DigestFails \/ Mismatch \/ FileCloses \/ CloseFails
  PROVE  SyncInv'
<1>0. /\ index \in File /\ index \in Nat /\ accepting = "yes" /\ cursor' = cursor /\ CursorOK(cursor')
      /\ accepting' = accepting /\ fate = [f \in File |-> fate[f]] /\ Ticked(rStatus, index) /\ task # "idle"
  BY SizesOK DEF QueueFacts, DigestComputed, DigestFails, Mismatch, FileCloses, CloseFails, SyncInv, Rows
<1>1. CASE DigestComputed
  <2>1. /\ task = "final" /\ task' \in {"digest", "close", "abort"} /\ UNCHANGED index
        /\ UNCHANGED <<received, rHashed, sink, writes, pieces, rState, aborted, closed, rOpen, fate, broken, rStatus>>
    BY <1>1 DEF DigestComputed, Verdict
  <2>2. ~aborted => Stage'
    BY <1>0, <2>1 DEF SyncInv, Sound, Stage, Placed, Held
  <2> QED BY <1>0, <2>1, <2>2, StageSync DEF SyncInv, Sound
<1>2. CASE DigestFails
  <2>1. /\ task = "final" /\ task' = "idle" /\ UNCHANGED <<index, rHasher, rStatus>> /\ broken'
        /\ UNCHANGED <<received, rHashed, sink, writes, pieces, rState, aborted, closed, rOpen, fate>>
    BY <1>2 DEF DigestFails
  <2>2. ~aborted => Stage'
    BY <1>0, <2>1 DEF SyncInv, Sound, Stage, Placed, Held
  <2>3. Closing' /\ Rows'
    BY <1>0, <2>1 DEF SyncInv, Closing, Rows
  <2>4. ~aborted => Sound'
    BY <1>0, <2>1, <2>2 DEF SyncInv, Sound
  <2> QED BY <1>0, <2>1, <2>3, <2>4 DEF SyncInv
<1>3. CASE Mismatch \/ CloseFails
  <2>1. /\ \E fates \in {fate, Discard(index, fate)} : RFailFrom("failed", 0, fates, rStatus)
        /\ UNCHANGED <<index, broken>>
    BY <1>3 DEF Mismatch, CloseFails
  <2>2. Discard(index, fate) = [f \in File |-> Discard(index, fate)[f]]
    BY <1>0 DEF Discard
  <2> QED BY <1>0, <2>1, <2>2, StillFails, FailSync
<1>4. CASE FileCloses
  <2>1. /\ task = "close" /\ sink' = 0 /\ index' = index + 1
        /\ UNCHANGED <<received, rHashed, rHasher, rState, aborted, closed, rOpen, broken>>
        /\ \E out \in {"saved"} \cup ({fate[index]} \cap {"discarded"}) :
             fate' = [fate EXCEPT ![index] = out]
        /\ rStatus' = [rStatus EXCEPT ![index] = "verified"]
    BY <1>4 DEF FileCloses
  <2>2. fate' = [f \in File |-> fate'[f]]
    BY <1>0, <2>1
  <2>3. Ticked(rStatus', index + 1)
    <3>1. \A f \in File : f \in Nat
      BY SizesOK
    <3> QED BY <1>0, <2>1, <3>1 DEF Ticked
  <2>4. Closing' /\ Rows'
    <3>1. rState \notin {"complete", "declined"}
      BY <1>0, StillFails
    <3> QED BY <1>0, <2>1, <2>2, <2>3, <3>1 DEF SyncInv, Closing, Rows
  <2>5. ASSUME ~aborted PROVE Sound'
    <3>1. Sound /\ Stage
      BY <1>0, <2>5 DEF SyncInv, Sound
    <3>2. ~closed => \A f \in File : (f < index' => fate'[f] = "saved") /\ fate'[f] # "discarded"
      <4> SUFFICES ASSUME ~closed
                   PROVE  \A f \in File : (f < index' => fate'[f] = "saved") /\ fate'[f] # "discarded"
        OBVIOUS
      <4>1. fate' = [fate EXCEPT ![index] = "saved"]
        BY <1>0, <2>1, <3>1 DEF Sound
      <4>2. \A f \in File : f \in Nat
        BY SizesOK
      <4> QED BY <1>0, <2>1, <3>1, <4>1, <4>2 DEF Sound
    <3>3. Cuts(Tail(pieces), index + 1, 0, Len(Head(writes)), cursor) /\ Len(rHashed) = Sizes[index]
          /\ received = FirstBytes[index - 1] + Len(rHashed)
      BY <1>0, <2>1, <3>1 DEF Stage, Placed
    <3>4. received' = FirstBytes[index' - 1]
      <4>1. received = FirstBytes[index]
        BY <1>0, <3>3, FirstBytesOK
      <4>2. index' - 1 = index
        BY <1>0, <2>1
      <4> QED BY <2>1, <4>1, <4>2
    <3>5. \A k \in 0 .. Len(Sizes) : FirstBytes[k] + 0 = FirstBytes[k]
      BY FirstBytesOK
    <3>6. index' - 1 \in 0 .. Len(Sizes)
      BY <1>0, <2>1, SizesOK
    <3>7. CASE index < Len(Sizes)
      <4>1. task' = "open" /\ UNCHANGED <<writes, pieces>>
        BY <1>4, <3>7 DEF FileCloses
      <4>2. Placed' = 0
        BY <4>1 DEF Placed
      <4>3. Stage'
        BY <1>0, <2>1, <3>3, <3>4, <3>5, <3>6, <4>1, <4>2 DEF Stage
      <4> QED BY <1>0, <2>1, <3>1, <3>2, <4>3 DEF Sound
    <3>8. CASE ~(index < Len(Sizes))
      <4>1. task' = "idle"
        BY <1>4, <3>8 DEF FileCloses, ChunkDone
      <4>2. index + 1 \notin File
        BY <1>0, <3>8, SizesOK
      <4>3. Leaves(<<>>, index + 1, 0, cursor)
        <5>1. Tail(pieces) = <<>>
          <6>1. index + 1 \in Nat /\ 0 \in Nat
            BY <1>0
          <6> QED BY <3>3, <4>2, <6>1, CutsEnd
        <5> QED BY <3>3, <5>1 DEF Cuts
      <4>4. Placed' = 0
        BY <2>1, <4>2 DEF Placed
      <4>5. Stage'
        BY <1>0, <2>1, <3>4, <3>5, <3>6, <4>1, <4>2, <4>3, <4>4 DEF Stage
      <4> QED BY <1>0, <2>1, <3>1, <3>2, <4>5 DEF Sound
    <3> QED BY <3>7, <3>8
  <2> QED BY <1>0, <2>1, <2>4, <2>5 DEF SyncInv
<1> QED BY <1>1, <1>2, <1>3, <1>4

LEMMA NextFileSync ==
  ASSUME SyncInv, QueueFacts, NextFileOpens \/ NextFileReady
  PROVE  SyncInv'
<1>0. /\ index \in File /\ index \in Nat /\ accepting = "yes" /\ fate = [f \in File |-> fate[f]]
      /\ ~broken /\ Ticked(rStatus, index) /\ CursorOK(cursor')
      /\ UNCHANGED <<accepting, index, cursor, broken, received>>
  BY SizesOK DEF QueueFacts, NextFileOpens, NextFileReady, SyncInv, Rows
<1>1. CASE NextFileOpens
  <2>1. /\ task = "open" /\ task' = "init" /\ sink' = index /\ rHasher' /\ rHashed' = <<>>
        /\ fate' = [fate EXCEPT ![index] = "open"]
        /\ UNCHANGED <<writes, pieces, rState, aborted, closed, rOpen, rStatus>>
    BY <1>1 DEF NextFileOpens, OpenCurrent
  <2>2. fate' = [f \in File |-> fate'[f]] /\ <<>> \in Chunk /\ Len(<<>>) = 0
    BY <1>0, <2>1 DEF Chunk
  <2>3. index # 0
    BY <1>0, SizesOK
  <2>4. ASSUME ~aborted
        PROVE  /\ Stage'
               /\ ~closed => \A f \in File : (f < index => fate'[f] = "saved") /\ fate'[f] # "discarded"
    <3>1. Sound /\ Stage
      BY <1>0, <2>4 DEF SyncInv, Sound
    <3>2. Stage'
      BY <1>0, <2>1, <2>2, <2>3, <3>1 DEF Stage, Placed, Held
    <3>3. ASSUME ~closed, NEW f \in File PROVE (f < index => fate'[f] = "saved") /\ fate'[f] # "discarded"
      BY <1>0, <2>1, <3>1, <3>3 DEF Sound
    <3> QED BY <3>2, <3>3
  <2> QED BY <1>0, <2>1, <2>2, <2>4, StageSync
<1>2. CASE NextFileReady
  <2>1. /\ task = "init" /\ rHasher /\ rHashed' = rHashed
        /\ Advance(Tail(pieces), [rStatus EXCEPT ![index] = "receiving"])
    BY <1>2 DEF NextFileReady
  <2>2. ~aborted => /\ rHashed \in Chunk /\ received = FirstBytes[index - 1] + Len(rHashed)
                    /\ Held /\ Cuts(Tail(pieces), index, 0, Len(Head(writes)), cursor)
                    /\ Len(rHashed) = 0
    BY <1>0, <2>1 DEF SyncInv, Sound, Stage, Placed
  <2>3. Ticked([rStatus EXCEPT ![index] = "receiving"], index)
    BY <1>0, TickedExcept
  <2> QED BY <1>0, <2>1, <2>2, <2>3, AdvanceSync
<1> QED BY <1>1, <1>2

LEMMA AcceptsSync ==
  ASSUME SyncInv, QueueFacts, ReceiverAccepts \/ AcceptFails \/ DialogDismissed
  PROVE  SyncInv'
<1>0. /\ accepting # "yes" /\ index = 1 /\ task = "idle" /\ 1 \in File /\ fate = [f \in File |-> fate[f]]
      /\ Ticked(rStatus, index) /\ rState # "complete" /\ broken' = broken
  BY SizesOK DEF QueueFacts, ReceiverAccepts, Accept, DestinationOpens, FirstFileOpens, Accepted,
                 AcceptFails, DialogDismissed, SyncInv, Rows, Closing, queueing
<1>1. CASE Accept \/ DialogDismissed
  <2>1. /\ accepting' \in {"dest", "no"}
        /\ UNCHANGED <<rState, aborted, closed, rOpen, fate, rHashed, cursor, index, rStatus>>
    BY <1>1 DEF Accept, DialogDismissed, failing
  <2> QED BY <1>0, <2>1 DEF SyncInv, Closing, Rows, Sound
<1>2. CASE DestinationOpens
  <2>1. /\ accepting' = "open" /\ received' = 0 /\ cursor' = AtStart /\ index' = index
        /\ UNCHANGED <<rState, aborted, closed, rOpen, fate, rHashed, rStatus>>
    BY <1>0, <1>2 DEF DestinationOpens, failing
  <2>2. CursorOK(AtStart)
    BY SizesOK DEF CursorOK, AtStart
  <2> QED BY <1>0, <2>1, <2>2 DEF SyncInv, Closing, Rows, Sound
<1>3. CASE AcceptFails
  <2>1. /\ RFailFrom("failed", sink, fate, rStatus) /\ cursor' = cursor /\ accepting' = "no"
        /\ UNCHANGED <<index, rHashed>>
    BY <1>3 DEF AcceptFails, RFail
  <2>2. CASE aborted \/ rState # "declined"
    <3>1. CursorOK(cursor')
      BY <2>1 DEF SyncInv
    <3> QED BY <1>0, <2>1, <2>2, <3>1, FailSync
  <2>3. CASE ~aborted /\ rState = "declined"
    <3>1. UNCHANGED <<rState, aborted, closed, rOpen, fate, rStatus>>
      BY <2>1, <2>3 DEF RFailFrom
    <3> QED BY <1>0, <2>1, <3>1 DEF SyncInv, Closing, Rows, Sound
  <2> QED BY <2>2, <2>3
<1>4. CASE FirstFileOpens
  <2>1. /\ accepting = "open" /\ accepting' = "init" /\ sink' = index /\ rHasher' /\ rHashed' = <<>>
        /\ fate' = [fate EXCEPT ![index] = "open"]
        /\ UNCHANGED <<rState, aborted, closed, rOpen, cursor, index, received, rStatus>>
    BY <1>4 DEF FirstFileOpens, OpenCurrent
  <2>2. fate' = [f \in File |-> fate'[f]] /\ <<>> \in Chunk
    BY <1>0, <2>1 DEF Chunk
  <2>3. Closing' /\ Rows'
    BY <1>0, <2>1, <2>2 DEF SyncInv, Closing, Rows
  <2>4. ASSUME ~aborted PROVE Sound'
    <3>1. Sound
      BY <2>4 DEF SyncInv
    <3>2. ASSUME ~closed, NEW f \in File PROVE (f < index => fate'[f] = "saved") /\ fate'[f] # "discarded"
      BY <1>0, <2>1, <3>1, <3>2 DEF Sound
    <3>3. Held'
      BY <1>0, <2>1 DEF Held
    <3> QED BY <1>0, <2>1, <2>2, <3>1, <3>2, <3>3 DEF Sound
  <2> QED BY <2>1, <2>3, <2>4 DEF SyncInv
<1>5. CASE Accepted
  <2>1. /\ accepting = "init" /\ accepting' = "yes" /\ rState' = "receiving" /\ rHasher' = rHasher
        /\ UNCHANGED <<aborted, closed, rOpen, sink, fate, cursor, index, received, rHashed, task, writes>>
        /\ rStatus' = [rStatus EXCEPT ![index] = "receiving"]
    BY <1>5 DEF Accepted, queueing
  <2>2. Ticked(rStatus', index)
    BY <1>0, <2>1, TickedExcept
  <2>3. Closing' /\ Rows'
    BY <1>0, <2>1, <2>2 DEF SyncInv, Closing, Rows
  <2>4. ASSUME ~aborted PROVE Sound'
    <3>1. Sound /\ received = 0 /\ cursor = AtStart /\ Held /\ rHashed = <<>>
      BY <2>1, <2>4 DEF SyncInv, Sound
    <3>2. FirstBytes[0] = 0 /\ Len(<<>>) = 0 /\ 1 - 1 = 0 /\ 0 + 0 = 0
      BY FirstBytesOK
    <3>3. Leaves(<<>>, 1, 0, AtStart)
      BY DEF Leaves, AtStart
    <3>4. Stage'
      BY <1>0, <2>1, <3>1, <3>2, <3>3 DEF Stage, Placed, Held
    <3> QED BY <2>1, <3>1, <3>4 DEF Sound
  <2> QED BY <2>1, <2>3, <2>4 DEF SyncInv
<1> QED BY <1>1, <1>2, <1>3, <1>4, <1>5 DEF ReceiverAccepts

\* A step that leaves the queue's own variables alone.
LEMMA RestSync ==
  ASSUME SyncInv, UNCHANGED <<cursor, index, received, rHashed, fate, sink, rHasher, broken, task, writes,
                              pieces, aborted, closed, accepting, rStatus>>,
         rState' \in {rState, "verifying"}, rOpen' => rOpen
  PROVE  SyncInv'
<1>1. Closing' /\ Rows'
  BY DEF SyncInv, Closing, Rows
<1>2. Stage => Stage'
  BY DEF Stage, Placed, Held
<1>3. Sound => Sound'
  BY <1>2 DEF Sound, Held
<1> QED BY <1>1, <1>3 DEF SyncInv

LEMMA ControlSync ==
  ASSUME SyncInv, QueueFacts, ReceiverControl \/ ChunkArrives \/ TailArrives
  PROVE  SyncInv'
<1>1. CASE OnTransferStart \/ OnTransferComplete \/ TailArrives
  <2>1. /\ UNCHANGED <<cursor, index, received, rHashed, fate, sink, rHasher, broken, task, writes,
                       pieces, aborted, closed, accepting, rOpen, rStatus>>
        /\ rState' \in {rState, "verifying"}
    BY <1>1 DEF OnTransferStart, OnTransferComplete, TailArrives, RReceive, failing
  <2> QED BY <2>1, RestSync
<1>2. CASE ROnTransferFailed
  <2>1. /\ RFailFrom("failed", sink, fate, rStatus) /\ UNCHANGED <<cursor, index, broken, accepting>>
        /\ rOpen
    BY <1>2 DEF ROnTransferFailed, RReceive, RFail
  <2>2. /\ rState \notin {"complete", "declined"} /\ fate = [f \in File |-> fate[f]] /\ Ticked(rStatus, index)
        /\ CursorOK(cursor')
    BY <2>1 DEF SyncInv, Closing, Rows
  <2> QED BY <2>1, <2>2, FailSync
<1>3. CASE OnFileDone
  <2>1. /\ UNCHANGED <<cursor, index, received, rHashed, fate, sink, rHasher, broken, writes,
                       pieces, aborted, closed, accepting, rState, rOpen, rStatus>>
        /\ task' = task \/ (task = "digest" /\ task' \in {"close", "abort"})
    BY <1>3 DEF OnFileDone, RReceive, failing, Verdict
  <2>2. CASE task' = task
    BY <2>1, <2>2, RestSync
  <2>3. CASE task = "digest" /\ task' \in {"close", "abort"}
    <3>1. accepting = "yes"
      BY <2>3 DEF QueueFacts
    <3>2. Stage => Stage'
      BY <2>1, <2>3 DEF Stage, Placed
    <3> QED BY <2>1, <3>1, <3>2, StageSync DEF SyncInv, Sound, Rows
  <2> QED BY <2>1, <2>2, <2>3
<1>4. CASE ChunkArrives
  <2>1. /\ UNCHANGED <<cursor, index, received, rHashed, fate, sink, rHasher, broken, task,
                       pieces, aborted, closed, accepting, rState, rOpen, rStatus>>
        /\ writes' = Append(writes, Head(dataNet))
    BY <1>4 DEF ChunkArrives
  <2>2. task # "idle" => Head(writes') = Head(writes)
    BY <2>1 DEF QueueFacts
  <2>3. task # "idle" => Len(Head(writes)') = Len(Head(writes))
    BY <2>2
  <2>4. Stage => Stage'
    BY <2>1, <2>3 DEF Stage, Placed, Held
  <2>5. Closing' /\ Rows' /\ (Sound => Sound')
    BY <2>1, <2>4 DEF SyncInv, Closing, Rows, Sound, Held
  <2> QED BY <2>1, <2>5 DEF SyncInv
<1> QED BY <1>1, <1>2, <1>3, <1>4 DEF ReceiverControl

\* A receiver that counted every declared byte has no file open: the open one
\* would still lack some.
LEMMA CountedIsWhole ==
  ASSUME SyncInv, QueueFacts, ~aborted, accepting = "yes", ~broken, task \in {"idle", "write"},
         received = TotalBytes
  PROVE  index \notin File
<1> SUFFICES ASSUME index \in File PROVE FALSE
  OBVIOUS
<1>1. Sound /\ Stage /\ CursorOK(cursor)
  BY DEF SyncInv, Sound
<1> DEFINE n == Len(rHashed)
<1>2. n \in Nat /\ index \in Nat /\ Sizes[index] \in Nat /\ Placed = n
  BY <1>1, SizesOK DEF Sound, Chunk, Placed
<1>3. n < Sizes[index]
  <2>1. CASE task = "idle"
    <3>1. cursor.index = index /\ cursor.inFile = n
      BY <1>1, <1>2, <2>1 DEF Stage, Leaves
    <3> HIDE DEF n
    <3> QED BY <1>1, <3>1 DEF CursorOK
  <2>2. CASE task = "write"
    <3>1. pieces # <<>> /\ Cuts(pieces, index, n, Len(Head(writes)), cursor)
      BY <1>1, <2>2 DEF Stage
    <3> DEFINE q == Head(pieces)
    <3> HIDE DEF n
    <3>2. q \in Piece /\ q.length > 0 /\ n + q.length <= Sizes[index]
      BY <1>2, <3>1, CutsTail
    <3>3. q.length \in Nat
      BY <3>2 DEF Piece
    <3> HIDE DEF q
    <3> QED BY <1>2, <3>2, <3>3
  <2> QED BY <2>1, <2>2
<1>4. FirstBytes[index] = FirstBytes[index - 1] + Sizes[index] /\ FirstBytes[index] <= TotalBytes
  <2>1. index \in 0 .. Len(Sizes)
    BY SizesOK
  <2> QED BY <2>1, FirstBytesOK, FirstBytesGrow
<1>5. FirstBytes[index - 1] \in Nat
  <2>1. index - 1 \in 0 .. Len(Sizes)
    BY SizesOK
  <2> QED BY <2>1, FirstBytesOK
<1> HIDE DEF n
<1>6. TotalBytes = FirstBytes[index - 1] + n
  BY <1>1, <1>2 DEF Stage
<1> QED BY <1>2, <1>3, <1>4, <1>5, <1>6

\* finish() only calls the batch verified once every file is.
LEMMA FinishIsWhole ==
  ASSUME SyncInv, QueueFacts, Finish, ~aborted, received = TotalBytes
  PROVE  accepting = "yes" /\ (broken \/ index = Len(Sizes) + 1)
<1>1. finishing = "writes" /\ (ahead = 0 \/ broken) /\ accepting = "yes"
  BY DEF Finish, MustFinish, QueueFacts
<1>2. ASSUME ~broken PROVE index \notin File
  BY <1>1, <1>2, CountedIsWhole DEF QueueFacts
<1> QED BY <1>1, <1>2, SizesOK DEF QueueFacts

LEMMA FinishSync == ASSUME SyncInv, QueueFacts, Finish PROVE SyncInv'
<1>1. /\ UNCHANGED <<cursor, index, received, rHashed, broken, task, writes, pieces, accepting>>
      /\ CursorOK(cursor') /\ Ticked(rStatus, index) /\ fate = [f \in File |-> fate[f]]
  BY DEF Finish, SyncInv, Rows
<1>2. CASE aborted
  <2>1. UNCHANGED <<rState, aborted, closed, sink, fate, rHasher, rOpen, rStatus>>
    BY <1>2 DEF Finish, failing
  <2> QED BY <1>1, <2>1, RestSync
<1>3. CASE ~aborted /\ received # TotalBytes
  <2>1. RFailFrom("failed", sink, fate, rStatus)
    BY <1>3 DEF Finish, RFail
  <2>2. CASE rState \notin {"complete", "declined"}
    BY <1>1, <2>1, <2>2, FailSync
  <2>3. CASE rState \in {"complete", "declined"}
    <3>1. UNCHANGED <<rState, aborted, closed, sink, fate, rHasher, rOpen, rStatus>>
      BY <2>1, <2>3 DEF RFailFrom
    <3> QED BY <1>1, <3>1, RestSync
  <2> QED BY <2>2, <2>3
<1>4. CASE ~aborted /\ received = TotalBytes
  <2>1. closed' = TRUE /\ rOpen' = FALSE /\ rState' = "complete" /\ UNCHANGED <<aborted, fate, rStatus, sink>>
    BY <1>4 DEF Finish
  <2>2. accepting = "yes" /\ (broken \/ index \notin File)
    BY <1>4, FinishIsWhole, SizesOK
  <2>3. Stage => Stage'
    BY <1>1, <2>1 DEF Stage, Placed, Held
  <2>4. Sound => Sound'
    BY <1>1, <2>1, <2>3 DEF Sound, Held
  <2> QED BY <1>1, <2>1, <2>2, <2>4 DEF SyncInv, Closing, Rows
<1> QED BY <1>2, <1>3, <1>4

LEMMA LossSync ==
  ASSUME SyncInv, QueueFacts, ReceiverLoss \/ PieceFails \/ NextFileFails \/ Decline \/ RCancel
  PROVE  SyncInv'
<1>0. /\ UNCHANGED <<cursor, index, broken, accepting>> /\ CursorOK(cursor')
      /\ fate = [f \in File |-> fate[f]] /\ Ticked(rStatus, index)
  BY DEF ReceiverLoss, RChannelsClose, RConnectionFails, PieceFails, NextFileFails, Decline, RCancel,
         losing, queueing, SyncInv, Rows
<1>1. CASE PieceFails \/ NextFileFails
  <2>1. task # "idle" /\ FailChunk
    BY <1>1 DEF PieceFails, NextFileFails
  <2> QED BY <1>0, <2>1, FailChunkSync
<1>2. CASE ReceiverLoss
  <2>1. \/ /\ \E state \in {"failed", "senderGone"} : RFailFrom(state, sink, fate, rStatus)
           /\ ~closed \/ rState = "receiving"
        \/ ~rOpen' /\ UNCHANGED <<losing, rState, aborted, closed, sink, fate, rHasher, rStatus>>
    BY <1>2 DEF ReceiverLoss, RChannelsClose, RConnectionFails, RFail
  <2>2. CASE /\ \E state \in {"failed", "senderGone"} : RFailFrom(state, sink, fate, rStatus)
             /\ ~closed \/ rState = "receiving"
    <3>1. rState \notin {"complete", "declined"}
      BY <2>2 DEF SyncInv, Closing
    <3> QED BY <1>0, <2>2, <3>1, FailSync
  <2>3. CASE ~rOpen' /\ UNCHANGED <<losing, rState, aborted, closed, sink, fate, rHasher, rStatus>>
    BY <2>3, RestSync DEF losing
  <2> QED BY <2>1, <2>2, <2>3
<1>3. CASE Decline \/ RCancel
  <2>1. /\ closed' = TRUE /\ rOpen' = FALSE /\ fate' \in {fate, Discard(sink, fate)}
        /\ UNCHANGED <<aborted, received, rHashed, rStatus, task, writes, pieces>>
        /\ rState' = rState \/ (rState = "offered" /\ rState' = "declined")
        /\ sink' \in {0, sink}
    BY <1>3 DEF Decline, RCancel, queueing
  <2>2. fate' = [f \in File |-> fate'[f]]
    BY <1>0, <2>1 DEF Discard
  <2>3. Closing' /\ Rows'
    BY <1>0, <2>1, <2>2 DEF SyncInv, Closing, Rows
  <2>4. Stage => Stage'
    BY <1>0, <2>1 DEF Stage, Placed, Held
  <2>5. Sound => Sound'
    BY <1>0, <2>1, <2>4 DEF Sound, Held
  <2> QED BY <1>0, <2>1, <2>3, <2>5 DEF SyncInv
<1> QED BY <1>1, <1>2, <1>3

\* Whatever a step of the receiver does, the cursor and the files stay in step.
LEMMA ReceiverSync ==
  ASSUME SyncInv, QueueFacts, ReceiverNext \/ UNCHANGED <<receiverVars, rOpen>>
  PROVE  SyncInv'
<1>1. CASE UNCHANGED <<receiverVars, rOpen>>
  BY <1>1, RestSync DEF receiverVars
<1>2. CASE ReceiverNext
  BY <1>2, ConsumeSync, PieceSync, CloseSync, NextFileSync, AcceptsSync, ControlSync, FinishSync, LossSync
     DEF ReceiverNext, ReceiverMicrotask, ReceiverTask, ReceiverQueue, ReceiverFaults
<1> QED BY <1>1, <1>2

-----------------------------------------------------------------------------
(* The whole batch *)

\* Every file of the batch was closed, and none was discarded.
Whole == accepting = "yes" /\ index = Len(Sizes) + 1 /\ \A f \in File : fate[f] = "saved"

\* A whole batch has no sink to discard and no file to open, so it stays whole.
LEMMA WholeStays ==
  ASSUME Whole, QueueFacts, ReceiverNext \/ UNCHANGED receiverVars
  PROVE  Whole'
<1>0. /\ accepting = "yes" /\ index = Len(Sizes) + 1 /\ index \notin File /\ task = "idle" /\ sink = 0
      /\ \A f \in File : fate[f] = "saved"
  BY SizesOK DEF Whole, QueueFacts
<1>1. UNCHANGED <<accepting, index>>
  BY <1>0 DEF ReceiverNext, ReceiverMicrotask, ReceiverTask, ReceiverQueue, ReceiverFaults, ReceiverControl,
              ReceiverAccepts, ReceiverLoss, receiverVars, ConsumeStart, Finish, ChunkArrives, TailArrives,
              PieceWritten, PieceHashed, DigestComputed, Mismatch, FileCloses, NextFileOpens, NextFileReady,
              OnTransferStart, OnFileDone, OnTransferComplete, ROnTransferFailed, RReceive, Accept,
              DestinationOpens, FirstFileOpens, Accepted, RChannelsClose, RConnectionFails, losing,
              PieceFails, DigestFails, CloseFails, NextFileFails, AcceptFails, DialogDismissed, Decline, RCancel
<1>2. Discard(0, fate) = fate
  BY DEF Discard
<1>3. ASSUME NEW state, NEW statuses, RFailFrom(state, 0, fate, statuses) PROVE fate' = fate
  BY <1>2, <1>3 DEF RFailFrom
<1>4. fate' = fate
  <2>1. CASE ConsumeStart
    <3>1. \/ UNCHANGED failing
          \/ FailChunk
          \/ \E ps : Advance(ps, rStatus)
      BY <2>1 DEF ConsumeStart
    <3>2. CASE UNCHANGED failing
      BY <3>2 DEF failing
    <3>3. CASE FailChunk
      BY <1>0, <1>3, <3>3 DEF FailChunk, RFail
    <3>4. CASE \E ps : Advance(ps, rStatus)
      <4>1. fate' = fate \/ RFailFrom("failed", sink, fate, rStatus)
        BY <3>4 DEF Advance
      <4> QED BY <1>0, <1>3, <4>1
    <3> QED BY <3>1, <3>2, <3>3, <3>4
  <2>2. CASE Finish
    <3>1. fate' = fate \/ RFailFrom("failed", sink, fate, rStatus)
      BY <2>2 DEF Finish, failing, RFail
    <3> QED BY <1>0, <1>3, <3>1
  <2>3. CASE ReceiverQueue \/ PieceFails \/ DigestFails \/ CloseFails \/ NextFileFails
    BY <1>0, <2>3 DEF ReceiverQueue, PieceWritten, PieceHashed, DigestComputed, Mismatch, FileCloses,
                      NextFileOpens, NextFileReady, PieceFails, DigestFails, CloseFails, NextFileFails
  <2>4. CASE ReceiverAccepts \/ AcceptFails \/ DialogDismissed
    BY <1>0, <2>4 DEF ReceiverAccepts, Accept, DestinationOpens, FirstFileOpens, Accepted, AcceptFails,
                      DialogDismissed
  <2>5. CASE ReceiverLoss \/ ReceiverControl \/ ChunkArrives \/ TailArrives \/ Decline
    <3>1. fate' = fate \/ \E state : RFailFrom(state, sink, fate, rStatus)
      BY <2>5 DEF ReceiverLoss, RChannelsClose, RConnectionFails, ReceiverControl, OnTransferStart,
                  OnFileDone, OnTransferComplete, ROnTransferFailed, RReceive, ChunkArrives, TailArrives,
                  Decline, RFail, failing
    <3> QED BY <1>0, <1>3, <3>1
  <2>6. CASE RCancel
    BY <1>0, <1>2, <2>6 DEF RCancel
  <2>7. CASE UNCHANGED receiverVars
    BY <2>7 DEF receiverVars
  <2> QED BY <2>1, <2>2, <2>3, <2>4, <2>5, <2>6, <2>7
          DEF ReceiverNext, ReceiverMicrotask, ReceiverTask, ReceiverFaults
<1> QED BY <1>0, <1>1, <1>4 DEF Whole

LEMMA BrokenStays ==
  ASSUME broken, ReceiverNext \/ UNCHANGED receiverVars
  PROVE  broken'
BY DEF ReceiverNext, ReceiverMicrotask, ReceiverTask, ReceiverQueue, ReceiverFaults, ReceiverControl,
       ReceiverAccepts, ReceiverLoss, receiverVars, ConsumeStart, Finish, ChunkArrives, TailArrives,
       PieceWritten, PieceHashed, DigestComputed, Mismatch, FileCloses, NextFileOpens, NextFileReady,
       OnTransferStart, OnFileDone, OnTransferComplete, ROnTransferFailed, RReceive, Accept,
       DestinationOpens, FirstFileOpens, Accepted, RChannelsClose, RConnectionFails, losing, queueing,
       PieceFails, DigestFails, CloseFails, NextFileFails, AcceptFails, DialogDismissed, Decline, RCancel

LEMMA BrokenBy ==
  ASSUME ReceiverNext \/ UNCHANGED receiverVars, broken'
  PROVE  broken \/ "digest" \in Events
BY DEF ReceiverNext, ReceiverMicrotask, ReceiverTask, ReceiverQueue, ReceiverFaults, ReceiverControl,
       ReceiverAccepts, ReceiverLoss, receiverVars, ConsumeStart, Finish, ChunkArrives, TailArrives,
       PieceWritten, PieceHashed, DigestComputed, Mismatch, FileCloses, NextFileOpens, NextFileReady,
       OnTransferStart, OnFileDone, OnTransferComplete, ROnTransferFailed, RReceive, Accept,
       DestinationOpens, FirstFileOpens, Accepted, RChannelsClose, RConnectionFails, losing, queueing,
       PieceFails, DigestFails, CloseFails, NextFileFails, AcceptFails, DialogDismissed, Decline, RCancel,
       Happens

\* A receiver whose channel is closed says nothing more.
LEMMA ClosedIsSilent ==
  ASSUME ~rOpen, ReceiverNext
  PROVE  UNCHANGED toSender
<1>1. ASSUME NEW m, NEW q PROVE SendControl(rOpen, q, m) = q
  BY DEF SendControl
<1>2. ASSUME NEW q, ChunkDone(q), rOpen' = rOpen \/ rOpen' = FALSE PROVE toSender' = q
  BY <1>2 DEF ChunkDone, SendControl
<1>3. ASSUME NEW state, NEW s, NEW fates, NEW statuses, RFailFrom(state, s, fates, statuses)
      PROVE  rOpen' = rOpen \/ rOpen' = FALSE
  BY <1>3 DEF RFailFrom
<1>4. FailChunk => UNCHANGED toSender
  BY <1>2, <1>3 DEF FailChunk, RFail
<1>5. ASSUME NEW ps, NEW statuses, Advance(ps, statuses) PROVE UNCHANGED toSender
  <2> DEFINE fits == sink # 0 /\ rHasher /\ Head(ps).index = index
  <2>1. CASE ps = <<>>
    BY <1>2, <1>5, <2>1 DEF Advance
  <2>2. CASE ps # <<>> /\ fits
    BY <1>5, <2>2 DEF Advance
  <2>3. CASE ps # <<>> /\ ~fits
    <3>1. RFailFrom("failed", sink, fate, statuses) /\ ChunkDone(toSender)
      BY <1>5, <2>3 DEF Advance
    <3> QED BY <1>2, <1>3, <3>1
  <2> HIDE DEF fits
  <2> QED BY <2>1, <2>2, <2>3
<1>6. CASE ConsumeStart
  <2>1. \/ UNCHANGED failing /\ ChunkDone(toSender)
        \/ FailChunk
        \/ \E ps : Advance(ps, rStatus)
    BY <1>6 DEF ConsumeStart
  <2>2. CASE UNCHANGED failing /\ ChunkDone(toSender)
    BY <1>2, <2>2 DEF failing
  <2> QED BY <1>4, <1>5, <2>1, <2>2
<1>7. CASE Finish
  BY <1>1, <1>7 DEF Finish
<1>8. CASE PieceWritten \/ PieceHashed \/ NextFileReady
  <2>1. UNCHANGED toSender \/ FailChunk \/ \E ps, statuses : Advance(ps, statuses)
    BY <1>8 DEF PieceWritten, PieceHashed, NextFileReady
  <2> QED BY <1>4, <1>5, <2>1
<1>9. CASE FileCloses
  <2>1. UNCHANGED rOpen
    BY <1>9 DEF FileCloses
  <2> DEFINE q == SendControl(rOpen, toSender, [type |-> "FILE_VERIFIED", file |-> index])
  <2>2. q = toSender
    BY <1>1
  <2> HIDE DEF q
  <2>3. toSender' = q \/ ChunkDone(q)
    BY <1>9 DEF FileCloses, q
  <2> QED BY <1>2, <2>1, <2>2, <2>3
<1>10. CASE Mismatch \/ CloseFails
  <2>1. ChunkDone(toSender) /\ \E fates : RFailFrom("failed", 0, fates, rStatus)
    BY <1>10 DEF Mismatch, CloseFails
  <2> QED BY <1>2, <1>3, <2>1
<1>11. CASE \/ DigestComputed \/ NextFileOpens \/ TailArrives \/ ReceiverLoss \/ DigestFails
            \/ ReceiverControl \/ AcceptFails \/ DialogDismissed \/ RCancel \/ ChunkArrives
  BY <1>11 DEF DigestComputed, NextFileOpens, TailArrives, ReceiverLoss, RChannelsClose, RConnectionFails,
               DigestFails, ReceiverControl, OnTransferStart, OnFileDone, OnTransferComplete, RReceive,
               ROnTransferFailed, AcceptFails, DialogDismissed, RCancel, ChunkArrives
<1>12. CASE PieceFails \/ NextFileFails
  BY <1>4, <1>12 DEF PieceFails, NextFileFails
<1>13. CASE ReceiverAccepts \/ Decline
  BY <1>1, <1>13 DEF ReceiverAccepts, Accept, DestinationOpens, FirstFileOpens, Accepted, Decline
<1> QED BY <1>6, <1>7, <1>8, <1>9, <1>10, <1>11, <1>12, <1>13
        DEF ReceiverNext, ReceiverMicrotask, ReceiverTask, ReceiverQueue, ReceiverFaults

=============================================================================
