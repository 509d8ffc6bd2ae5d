-------------------------- MODULE AnySender_proofs --------------------------
(***************************************************************************)
(* Whatever a peer of protocol v2 sends, however it cuts the batch into    *)
(* chunks and whatever fails: no byte lands out of place, only a whole     *)
(* batch is called complete, and an honest one never fails.                *)
(***************************************************************************)
EXTENDS AnySender, Receiver_proofs

-----------------------------------------------------------------------------
(* The bytes of the batch, one file after another *)

LEMMA ContentOK ==
  \A f \in File : /\ Content(f) \in Seq(Byte) /\ Len(Content(f)) = Sizes[f]
                  /\ \A k \in 1 .. Sizes[f] : Content(f)[k] = <<f, k>>
<1> SUFFICES ASSUME NEW f \in File
             PROVE  /\ Content(f) \in Seq(Byte) /\ Len(Content(f)) = Sizes[f]
                    /\ \A k \in 1 .. Sizes[f] : Content(f)[k] = <<f, k>>
  OBVIOUS
<1> DEFINE n == Sizes[f]
<1>1. n \in Nat /\ \A k \in 1 .. n : <<f, k>> \in Byte
  BY SizesOK DEF Byte
<1>2. Content(f) = [k \in 1 .. n |-> <<f, k>>]
  BY DEF Content
<1> HIDE DEF n
<1>3. Content(f) \in [1 .. n -> Byte]
  BY <1>1, <1>2
<1>4. Content(f) \in Seq(Byte) /\ Len(Content(f)) = n
  BY <1>1, <1>3
<1> QED BY <1>2, <1>4 DEF n

LEMMA ConcatOK ==
  ASSUME NEW S, NEW s \in Seq(S), NEW t \in Seq(S)
  PROVE  /\ s \o t \in Seq(S) /\ Len(s \o t) = Len(s) + Len(t)
         /\ \A i \in 1 .. Len(s) : (s \o t)[i] = s[i]
         /\ \A i \in 1 .. Len(t) : (s \o t)[Len(s) + i] = t[i]
OBVIOUS

\* The first m files joined: where each byte of them stands.
Stands(s, m) ==
  /\ s \in Seq(Byte) /\ Len(s) = FirstBytes[m]
  /\ \A f \in 1 .. m : \A k \in 1 .. Sizes[f] :
       FirstBytes[f - 1] + k \in 1 .. Len(s) /\ s[FirstBytes[f - 1] + k] = <<f, k>>

LEMMA StreamIs ==
  /\ Stream \in Seq(Byte) /\ Len(Stream) = TotalBytes /\ TotalBytes \in Nat
  /\ \A f \in File : \A k \in 1 .. Sizes[f] : Stream[FirstBytes[f - 1] + k] = <<f, k>>
<1> DEFINE n == Len(Sizes)
           queue == [f \in File |-> Content(f)]
           g == CHOOSE h : Joined(queue, n, h)
<1>1. /\ n \in Nat /\ n > 0 /\ File = 1 .. n /\ queue \in Seq(Chunk) /\ Len(queue) = n
      /\ \A f \in 1 .. n : queue[f] = Content(f)
  BY SizesOK, ContentOK DEF Chunk
<1>2. Joined(queue, n, g)
  <2> HIDE DEF n, queue
  <2> QED BY <1>1, JoinedExists
<1>3. Stream = g[n]
  <2>1. Stream = FlattenSeq(queue)
    BY DEF Stream
  <2> HIDE DEF queue
  <2>2. FlattenSeq(queue) = IF n = 0 THEN queue ELSE g[n]
    BY <1>1 DEF FlattenSeq, Joined
  <2> QED BY <1>1, <2>1, <2>2
<1> HIDE DEF n, queue, g
<1>4. \A i \in 1 .. n : g[i] = IF i = 1 THEN queue[i] ELSE g[i - 1] \o queue[i]
  BY <1>2 DEF Joined
<1> DEFINE T == {k \in Nat : k \in 1 .. n => Stands(g[k], k)}
<1>5. 0 \in T
  OBVIOUS
<1>6. ASSUME NEW k \in Nat, k \in T PROVE k + 1 \in T
  <2> DEFINE m == k + 1  c == Content(m)
  <2> SUFFICES ASSUME m \in 1 .. n PROVE Stands(g[m], m)
    OBVIOUS
  <2>0. m \in File /\ m - 1 = k /\ k \in 0 .. Len(Sizes)
    BY <1>1, SizesOK DEF n
  <2>1. /\ m \in File /\ m - 1 = k /\ c \in Seq(Byte) /\ Len(c) = Sizes[m] /\ Sizes[m] \in Nat
        /\ \A j \in 1 .. Sizes[m] : c[j] = <<m, j>>
        /\ FirstBytes[m] = FirstBytes[k] + Sizes[m] /\ FirstBytes[k] \in Nat /\ FirstBytes[0] = 0
        /\ queue[m] = c
    <3> HIDE DEF m
    <3> QED BY <1>1, <2>0, SizesOK, FirstBytesOK, ContentOK
  <2>2. CASE m = 1
    <3>1. g[m] = c /\ k = 0
      BY <1>4, <2>1, <2>2
    <3> HIDE DEF c
    <3> QED BY <2>1, <2>2, <3>1 DEF Stands
  <2>3. CASE m # 1
    <3>1. k \in 1 .. n /\ Stands(g[k], k)
      <4>1. k \in 1 .. n
        BY <1>1, <2>3
      <4> QED BY <1>6, <4>1
    <3> DEFINE s == g[k]  b == FirstBytes[k]
    <3>2. g[m] = s \o c
      BY <1>4, <2>1, <2>3
    <3>3. s \in Seq(Byte) /\ Len(s) = b
      BY <3>1 DEF Stands
    <3> HIDE DEF c, m, s, b
    <3>4. g[m] \in Seq(Byte) /\ Len(g[m]) = b + Sizes[m]
      <4>1. s \o c \in Seq(Byte) /\ Len(s \o c) = Len(s) + Len(c)
        BY <2>1, <3>3, ConcatOK
      <4> QED BY <2>1, <3>2, <3>3, <4>1
    <3>5. ASSUME NEW f \in 1 .. m, NEW j \in 1 .. Sizes[f]
          PROVE  FirstBytes[f - 1] + j \in 1 .. Len(g[m]) /\ g[m][FirstBytes[f - 1] + j] = <<f, j>>
      <4>1. CASE f = m
        <5>1. FirstBytes[f - 1] = b
          BY <2>1, <4>1 DEF b
        <5>2. b \in Nat /\ j \in 1 .. Len(c) /\ b + j \in 1 .. b + Sizes[m]
          BY <2>1, <3>5, <4>1 DEF b
        <5>3. (s \o c)[b + j] = c[j]
          <6>1. \A i \in 1 .. Len(c) : (s \o c)[Len(s) + i] = c[i]
            BY <2>1, <3>3, ConcatOK
          <6> QED BY <3>3, <5>2, <6>1
        <5> QED BY <2>1, <3>2, <3>4, <4>1, <5>1, <5>2, <5>3
      <4>2. CASE f # m
        <5>1. f \in 1 .. k
          BY <3>5, <4>2 DEF m
        <5> DEFINE i == FirstBytes[f - 1] + j
        <5>2. i \in 1 .. Len(s) /\ s[i] = <<f, j>>
          BY <3>1, <5>1 DEF Stands, s
        <5> HIDE DEF i
        <5>3. (s \o c)[i] = s[i] /\ i \in 1 .. Len(s) + Len(c)
          <6>1. (s \o c)[i] = s[i]
            BY <2>1, <3>3, <5>2, ConcatOK
          <6>2. Len(s) \in Nat /\ Len(c) \in Nat
            BY <2>1, <3>3
          <6> QED BY <5>2, <6>1, <6>2
        <5> QED BY <2>1, <3>2, <3>3, <3>4, <5>2, <5>3 DEF i
      <4> QED BY <4>1, <4>2
    <3> QED BY <2>1, <3>4, <3>5 DEF Stands, b
  <2> QED BY <2>2, <2>3
<1>7. n \in T
  <2> HIDE DEF T
  <2> QED BY <1>1, <1>5, <1>6, Induction
<1>8. Stands(Stream, n)
  BY <1>1, <1>3, <1>7
<1>9. FirstBytes[n] \in Nat /\ TotalBytes = FirstBytes[n]
  BY <1>1, FirstBytesOK DEF TotalBytes, n
<1> QED BY <1>1, <1>8, <1>9 DEF Stands

\* Chunk c is what the batch holds from byte a on, as far as the batch goes.
InPlace(c, a) == \A j \in 1 .. Len(c) : a + j <= TotalBytes => c[j] = Stream[a + j]

\* Chunks q follow each other, in place, from byte a on up to byte e; h[k] is where
\* the first k of them end.
Follow(q, a, e, h) ==
  /\ h \in [0 .. Len(q) -> Nat] /\ h[0] = a /\ h[Len(q)] = e
  /\ \A k \in 0 .. Len(q) : a <= h[k] /\ h[k] <= e
  /\ \A k \in 1 .. Len(q) : h[k] = h[k - 1] + Len(q[k]) /\ InPlace(q[k], h[k - 1])

Lies(q, a, e) == \E h : Follow(q, a, e, h)

LEMMA LiesEnds ==
  ASSUME NEW q \in Seq(Chunk), NEW a, NEW e, Lies(q, a, e)
  PROVE  a \in Nat /\ e \in Nat /\ a <= e
BY DEF Lies, Follow

LEMMA LiesEmpty == ASSUME NEW a \in Nat PROVE Lies(<<>>, a, a)
<1> DEFINE h == [k \in 0 .. 0 |-> a]
<1>1. Len(<<>>) = 0 /\ 0 .. 0 = {0} /\ 1 .. 0 = {}
  OBVIOUS
<1>2. h \in [0 .. 0 -> Nat] /\ h[0] = a
  OBVIOUS
<1> HIDE DEF h
<1>3. Follow(<<>>, a, a, h)
  BY <1>1, <1>2 DEF Follow
<1> QED BY <1>3 DEF Lies

LEMMA LiesAppend ==
  ASSUME NEW q \in Seq(Chunk), NEW a, NEW e, Lies(q, a, e), NEW c \in Chunk, InPlace(c, e)
  PROVE  Lies(Append(q, c), a, e + Len(c))
<1> DEFINE n == Len(q)  r == Append(q, c)  m == n + 1  l == Len(c)  end == e + l
<1>1. PICK h : Follow(q, a, e, h)
  BY DEF Lies
<1>2. /\ n \in Nat /\ Len(r) = m /\ l \in Nat /\ r[m] = c
      /\ \A k \in 1 .. n : r[k] = q[k]
  BY DEF Chunk
<1>3. a \in Nat /\ e \in Nat /\ a <= e
  BY LiesEnds
<1> DEFINE j == [k \in 0 .. m |-> IF k = m THEN end ELSE h[k]]
<1> HIDE DEF r, l
<1>4. \A k \in 0 .. n : j[k] = h[k] /\ h[k] \in Nat /\ a <= h[k] /\ h[k] <= e
  BY <1>1, <1>2 DEF Follow
<1>5. j[m] = end /\ end \in Nat /\ e <= end
  BY <1>2, <1>3
<1>6. DOMAIN j = 0 .. m /\ j = [k \in 0 .. m |-> j[k]] /\ 0 \in 0 .. n /\ n \in 0 .. n
  BY <1>2
<1> HIDE DEF j, end
<1>7. ASSUME NEW k \in 0 .. m PROVE j[k] \in Nat /\ a <= j[k] /\ j[k] <= end
  <2>1. CASE k = m
    BY <1>3, <1>5, <2>1
  <2>2. CASE k # m
    <3>1. k \in 0 .. n
      BY <1>2, <2>2
    <3> QED BY <1>3, <1>4, <1>5, <3>1
  <2> QED BY <2>1, <2>2
<1>8. j \in [0 .. m -> Nat]
  BY <1>6, <1>7
<1>9. j[0] = a /\ j[n] = e
  BY <1>1, <1>4, <1>6 DEF Follow
<1>10. ASSUME NEW k \in 1 .. m PROVE j[k] = j[k - 1] + Len(r[k]) /\ InPlace(r[k], j[k - 1])
  <2>1. CASE k = m
    <3>1. k - 1 = n
      BY <1>2, <2>1
    <3> QED BY <1>2, <1>5, <1>9, <2>1, <3>1 DEF end, l
  <2>2. CASE k # m
    <3>1. k \in 1 .. n /\ k \in 0 .. n /\ k - 1 \in 0 .. n
      BY <1>2, <2>2
    <3>2. h[k] = h[k - 1] + Len(q[k]) /\ InPlace(q[k], h[k - 1])
      BY <1>1, <3>1 DEF Follow
    <3> QED BY <1>2, <1>4, <3>1, <3>2
  <2> QED BY <2>1, <2>2
<1>11. Follow(r, a, end, j)
  BY <1>2, <1>5, <1>7, <1>8, <1>9, <1>10 DEF Follow
<1> QED BY <1>11 DEF Lies, r, l, end

LEMMA LiesTail ==
  ASSUME NEW q \in Seq(Chunk), q # <<>>, NEW a, NEW e, Lies(q, a, e)
  PROVE  InPlace(Head(q), a) /\ Lies(Tail(q), a + Len(Head(q)), e) /\ a + Len(Head(q)) <= e
<1> DEFINE n == Len(q)  r == Tail(q)  l == Len(Head(q))  m == n - 1  b == a + l
<1>1. PICK h : Follow(q, a, e, h)
  BY DEF Lies
<1>2. /\ n \in Nat /\ m \in Nat /\ m + 1 = n /\ Head(q) = q[1] /\ l \in Nat /\ Len(r) = m
      /\ \A k \in 1 .. m : r[k] = q[k + 1]
  BY TailOK DEF Chunk
<1>3. a \in Nat /\ e \in Nat /\ a <= e
  BY LiesEnds
<1> DEFINE j == [k \in 0 .. m |-> h[k + 1]]
<1> HIDE DEF r, n, m
<1>4. \A k \in 0 .. m : k + 1 \in 1 .. n /\ k + 1 \in 0 .. n /\ (k + 1) - 1 = k /\ j[k] = h[k + 1]
  BY <1>2
<1>5. h[1] = b /\ InPlace(Head(q), a) /\ 0 \in 0 .. m /\ m \in 0 .. m
  <2>1. 1 \in 1 .. n /\ 1 - 1 = 0
    BY <1>2
  <2> QED BY <1>1, <1>2, <2>1 DEF Follow, n
<1>6. \A k \in 0 .. n : h[k] \in Nat /\ h[k] <= e
  BY <1>1 DEF Follow, n
<1>7. \A k \in 1 .. n : h[k] = h[k - 1] + Len(q[k]) /\ InPlace(q[k], h[k - 1]) /\ Len(q[k]) \in Nat
  <2>1. \A k \in 1 .. n : q[k] \in Chunk
    BY DEF n
  <2> QED BY <1>1, <2>1 DEF Follow, n, Chunk
<1>8. j \in [0 .. m -> Nat] /\ (\A k \in 0 .. m : j[k] <= e)
  BY <1>4, <1>6
<1>9. j[0] = b /\ j[m] = e
  <2>1. j[0] = h[0 + 1] /\ j[m] = h[m + 1]
    BY <1>5
  <2>2. h[n] = e
    BY <1>1 DEF Follow, n
  <2> HIDE DEF j, b
  <2> QED BY <1>2, <1>5, <2>1, <2>2
<1> HIDE DEF j
<1>10. ASSUME NEW k \in 1 .. m PROVE j[k] = j[k - 1] + Len(r[k]) /\ InPlace(r[k], j[k - 1])
  <2>1. k \in 0 .. m /\ k - 1 \in 0 .. m /\ (k - 1) + 1 = k /\ k + 1 \in 1 .. n /\ (k + 1) - 1 = k
    BY <1>2
  <2>2. j[k] = h[k + 1] /\ j[k - 1] = h[k] /\ r[k] = q[k + 1]
    BY <1>2, <1>4, <2>1
  <2>3. h[k + 1] = h[k] + Len(q[k + 1]) /\ InPlace(q[k + 1], h[k])
    BY <1>7, <2>1
  <2> QED BY <2>2, <2>3
<1>11. \A k \in 0 .. m : b <= j[k]
  <2> DEFINE T == {k \in Nat : k \in 0 .. m => b <= j[k]}
  <2>1. 0 \in T
    BY <1>3, <1>2, <1>9
  <2>2. ASSUME NEW k \in Nat, k \in T PROVE k + 1 \in T
    <3> SUFFICES ASSUME k + 1 \in 0 .. m PROVE b <= j[k + 1]
      OBVIOUS
    <3>1. k \in 0 .. m /\ k + 1 \in 1 .. m /\ (k + 1) - 1 = k /\ b <= j[k]
      BY <1>2, <2>2
    <3>2. j[k + 1] = j[k] + Len(r[k + 1]) /\ r[k + 1] \in Chunk
      <4>1. r[k + 1] = q[(k + 1) + 1] /\ (k + 1) + 1 \in 1 .. n
        BY <1>2, <3>1
      <4> QED BY <1>10, <3>1, <4>1 DEF n
    <3>3. Len(r[k + 1]) \in Nat /\ j[k] \in Nat /\ b \in Nat
      <4>1. Len(r[k + 1]) \in Nat
        BY <3>2 DEF Chunk
      <4> QED BY <1>2, <1>3, <1>8, <3>1, <4>1
    <3> HIDE DEF b
    <3> QED BY <3>1, <3>2, <3>3
  <2> HIDE DEF T
  <2>3. \A k \in Nat : k \in T
    BY <2>1, <2>2, Induction
  <2> QED BY <1>2, <2>3 DEF T
<1>12. Follow(r, b, e, j)
  BY <1>2, <1>8, <1>9, <1>10, <1>11 DEF Follow
<1>13. b <= e
  BY <1>5, <1>8, <1>9
<1> QED BY <1>5, <1>12, <1>13 DEF Lies, r


\* A piece that falls where its file is holds the bytes of the file.
LEMMA PieceInPlace ==
  ASSUME NEW c \in Chunk, NEW base \in Nat, InPlace(c, base), NEW f \in File,
         NEW n \in Nat, NEW o \in Nat, NEW l \in Nat, o + l <= Len(c),
         base + o = FirstBytes[f - 1] + n, n + l <= Sizes[f]
  PROVE  SubSeq(c, o + 1, o + l) = SubSeq(Content(f), n + 1, n + l)
<1> DEFINE size == Len(c)  s == SubSeq(c, o + 1, o + l)  t == SubSeq(Content(f), n + 1, n + l)
<1>1. /\ Sizes[f] \in Nat /\ TotalBytes \in Nat /\ size \in Nat /\ FirstBytes[f - 1] \in Nat
      /\ FirstBytes[f - 1] + Sizes[f] <= TotalBytes
  <2>1. f \in 0 .. Len(Sizes) /\ f - 1 \in 0 .. Len(Sizes)
    BY SizesOK
  <2>2. FirstBytes[f - 1] \in Nat /\ FirstBytes[f] = FirstBytes[f - 1] + Sizes[f]
    BY <2>1, FirstBytesOK
  <2>3. FirstBytes[f] <= TotalBytes /\ Len(c) \in Nat
    BY <2>1, FirstBytesGrow DEF Chunk
  <2> QED BY <2>2, <2>3, SizesOK, StreamIs
<1>2. c \in Seq(Byte) /\ Content(f) \in Seq(Byte) /\ Len(Content(f)) = Sizes[f]
  BY ContentOK DEF Chunk
<1>3. s = [k \in 1 .. l |-> c[o + k]]
  BY <1>1, <1>2
<1>4. t = [k \in 1 .. l |-> Content(f)[n + k]]
  BY <1>1, <1>2
<1>5. ASSUME NEW k \in 1 .. l PROVE c[o + k] = Content(f)[n + k]
  <2>1. k \in Nat /\ o + k \in 1 .. size /\ n + k \in 1 .. Sizes[f]
    BY <1>1
  <2>2. base + (o + k) = FirstBytes[f - 1] + (n + k) /\ base + (o + k) <= TotalBytes
    BY <1>1, <2>1
  <2>3. c[o + k] = Stream[base + (o + k)]
    BY <2>1, <2>2 DEF InPlace
  <2>4. Stream[FirstBytes[f - 1] + (n + k)] = <<f, n + k>> /\ Content(f)[n + k] = <<f, n + k>>
    BY <2>1, StreamIs, ContentOK
  <2> QED BY <2>2, <2>3, <2>4
<1> QED BY <1>3, <1>4, <1>5

-----------------------------------------------------------------------------
(* the peer *)

PeerMsg == {[type |-> "TRANSFER_COMPLETE"]}
           \cup {[type |-> "FILE_DONE", file |-> f, sha |-> Content(f)] : f \in File}

\* Nothing is sent before the batch is accepted, and only true digests are announced.
PeerInv ==
  /\ toReceiver \in Seq(PeerMsg)
  /\ pos \in 0 .. TotalBytes /\ announced \in 0 .. Len(Sizes) /\ spent \in Nat
  /\ linkUp /\ sOpen
  /\ started => accepting = "yes"
  /\ ~started => pos = 0 /\ dataNet = <<>> /\ toReceiver = <<>>
  /\ digests = [f \in File |-> digests[f]] /\ \A f \in File : digests[f] \in {<<>>, Content(f)}

Base == ReceiverInv /\ QueueInv /\ SyncInv /\ PeerInv

LEMMA BaseFacts == Base => QueueFacts /\ QuietBefore /\ SyncInv
BY QueueFactsHold DEF Base, PeerInv, QuietBefore

\* What a peer that sends puts on the wire.
LEMMA SendsInPlace ==
  ASSUME pos \in 0 .. TotalBytes, PeerSends
  PROVE  \E c \in Chunk, n \in Nat :
           /\ n > 0 /\ Len(c) = n /\ dataNet' = Append(dataNet, c) /\ InPlace(c, pos)
           /\ pos' = IF pos + n <= TotalBytes THEN pos + n ELSE TotalBytes
           /\ IF pos + n <= TotalBytes THEN UNCHANGED spent ELSE Happens("overrun")
<1>1. PICK n \in 1 .. MaxChunk :
        /\ IF pos + n <= Len(Stream) THEN UNCHANGED spent ELSE Happens("overrun")
        /\ dataNet' = Append(dataNet, SubSeq(Stream \o [i \in 1 .. n |-> Corrupted], pos + 1, pos + n))
        /\ pos' = IF pos + n <= Len(Stream) THEN pos + n ELSE Len(Stream)
  BY DEF PeerSends
<1> DEFINE more == [i \in 1 .. n |-> Corrupted]  s == Stream \o more  c == SubSeq(s, pos + 1, pos + n)
<1>2. n \in Nat /\ n > 0 /\ pos \in Nat /\ TotalBytes \in Nat /\ pos <= TotalBytes
  BY StreamIs, MaxChunkAssumption
<1>3. more \in Seq(Byte) /\ Len(more) = n
  BY <1>2 DEF Byte
<1> HIDE DEF more
<1>4. s \in Seq(Byte) /\ Len(s) = TotalBytes + n /\ \A i \in 1 .. TotalBytes : s[i] = Stream[i]
  BY <1>3, StreamIs, ConcatOK
<1> HIDE DEF s
<1>5. c \in Seq(Byte) /\ Len(c) = n /\ \A i \in 1 .. n : c[i] = s[pos + i]
  <2>1. pos + n <= Len(s)
    BY <1>2, <1>4
  <2>2. c \in Seq(Byte) /\ Len(c) = n
    BY <1>2, <1>4, <2>1, SubSeqOK
  <2>3. c = [i \in 1 .. n |-> s[pos + i]]
    BY <1>2, <1>4, <2>1
  <2> QED BY <2>2, <2>3
<1>6. dataNet' = Append(dataNet, c)
  BY <1>1 DEF s, more
<1> HIDE DEF c
<1>7. InPlace(c, pos)
  <2> SUFFICES ASSUME NEW j \in 1 .. n, pos + j <= TotalBytes PROVE c[j] = Stream[pos + j]
    BY <1>5 DEF InPlace
  <2>1. pos + j \in 1 .. TotalBytes
    BY <1>2
  <2> QED BY <1>4, <1>5, <2>1
<1> QED BY <1>1, <1>2, <1>5, <1>6, <1>7, StreamIs DEF Chunk

\* Every step of a receiver spends nothing, or one event.
LEMMA SpentGrows ==
  ASSUME ReceiverNext
  PROVE  spent' = spent \/ \E k : Happens(k)
BY DEF ReceiverNext, ReceiverMicrotask, ReceiverTask, ReceiverQueue, ReceiverFaults, ReceiverControl,
       ReceiverAccepts, ReceiverLoss, ConsumeStart, Finish, ChunkArrives, TailArrives,
       PieceWritten, PieceHashed, DigestComputed, Mismatch, FileCloses, NextFileOpens, NextFileReady,
       OnTransferStart, OnFileDone, OnTransferComplete, ROnTransferFailed, RReceive, Accept,
       DestinationOpens, FirstFileOpens, Accepted, RChannelsClose, RConnectionFails,
       PieceFails, DigestFails, CloseFails, NextFileFails, AcceptFails, DialogDismissed, Decline, RCancel

\* What a receiver does to the wire, the digests and the transport.
LEMMA ReceiverReads ==
  ASSUME ReceiverNext
  PROVE  /\ UNCHANGED <<linkUp, sOpen>>
         /\ dataNet' = dataNet \/ (dataNet # <<>> /\ dataNet' = Tail(dataNet))
         /\ \/ UNCHANGED <<toReceiver, digests>>
            \/ toReceiver # <<>> /\ toReceiver' = Tail(toReceiver) /\ UNCHANGED digests
            \/ /\ toReceiver # <<>> /\ toReceiver' = Tail(toReceiver)
               /\ Head(toReceiver).type = "FILE_DONE"
               /\ digests' = [digests EXCEPT ![Head(toReceiver).file] = Head(toReceiver).sha]
BY DEF ReceiverNext, ReceiverMicrotask, ReceiverTask, ReceiverQueue, ReceiverFaults, ReceiverControl,
       ReceiverAccepts, ReceiverLoss, ConsumeStart, Finish, ChunkArrives, TailArrives, transport,
       PieceWritten, PieceHashed, DigestComputed, Mismatch, FileCloses, NextFileOpens, NextFileReady,
       OnTransferStart, OnFileDone, OnTransferComplete, ROnTransferFailed, RReceive, Accept,
       DestinationOpens, FirstFileOpens, Accepted, RChannelsClose, RConnectionFails, losing, queueing,
       PieceFails, DigestFails, CloseFails, NextFileFails, AcceptFails, DialogDismissed, Decline, RCancel

LEMMA PeerMsgOK ==
  /\ [type |-> "TRANSFER_COMPLETE"] \in PeerMsg
  /\ \A f \in File : [type |-> "FILE_DONE", file |-> f, sha |-> Content(f)] \in PeerMsg
  /\ \A m \in PeerMsg : m.type \in {"TRANSFER_COMPLETE", "FILE_DONE"}
  /\ \A m \in PeerMsg : m.type = "FILE_DONE" => m.file \in File /\ m.sha = Content(m.file)
BY DEF PeerMsg

LEMMA ReceiverKeepsPeer ==
  ASSUME PeerInv, ReceiverNext, UNCHANGED peerVars
  PROVE  PeerInv'
<1>1. spent' \in Nat
  BY SpentGrows DEF PeerInv, Happens
<1>2. /\ started => accepting' = "yes"
      /\ UNCHANGED <<started, pos, announced, linkUp, sOpen>>
  BY AcceptedStays, ReceiverReads DEF PeerInv, peerVars
<1>3. ~started => pos = 0 /\ dataNet' = <<>> /\ toReceiver' = <<>>
  BY ReceiverReads DEF PeerInv
<1>4. toReceiver' \in Seq(PeerMsg)
  <2>1. toReceiver' = toReceiver \/ (toReceiver # <<>> /\ toReceiver' = Tail(toReceiver))
    BY ReceiverReads
  <2>2. toReceiver \in Seq(PeerMsg)
    BY DEF PeerInv
  <2> QED BY <2>1, <2>2, TailOK
<1>5. digests' = [f \in File |-> digests'[f]] /\ \A f \in File : digests'[f] \in {<<>>, Content(f)}
  <2>1. CASE UNCHANGED digests
    BY <2>1 DEF PeerInv
  <2>2. CASE ~UNCHANGED digests
    <3> DEFINE m == Head(toReceiver)
    <3>1. toReceiver # <<>> /\ m.type = "FILE_DONE" /\ digests' = [digests EXCEPT ![m.file] = m.sha]
      BY <2>2, ReceiverReads
    <3>2. m.file \in File /\ m.sha = Content(m.file)
      BY <3>1, TailOK, PeerMsgOK DEF PeerInv
    <3> HIDE DEF m
    <3> QED BY <3>1, <3>2 DEF PeerInv
  <2> QED BY <2>1, <2>2
<1> QED BY <1>1, <1>2, <1>3, <1>4, <1>5 DEF PeerInv

\* The peer that reads finds an acceptance only in the queue of an accepting receiver.
LEMMA PeerKeepsBase ==
  ASSUME Base, PeerStep, UNCHANGED receiverVars
  PROVE  Base'
<1>1. UNCHANGED rOpen /\ UNCHANGED <<dataBuf, linkUp, sOpen>>
  BY DEF PeerStep, PeerReads, PeerSends, PeerAnnounces, PeerEnds
<1>2. SyncInv'
  BY <1>1, BaseFacts, ReceiverSync
<1>3. ReceiverInv'
  <2>1. Quiet
    BY QuietSame, QuietTail DEF PeerStep, PeerReads, PeerSends, PeerAnnounces, PeerEnds, Base, ReceiverInv,
       HandshakeInv
  <2> QED BY <2>1 DEF Base, ReceiverInv, HandshakeInv, OutcomeInv, Quiet, receiverVars
<1>4. dataNet' \in Seq(Chunk)
  <2>1. CASE PeerSends
    <3>1. PICK c \in Chunk : dataNet' = Append(dataNet, c)
      BY <2>1, SendsInPlace DEF Base, PeerInv
    <3> QED BY <3>1 DEF Base, QueueInv
  <2>2. CASE ~PeerSends
    BY <2>2 DEF PeerStep, PeerReads, PeerAnnounces, PeerEnds, Base, QueueInv
  <2> QED BY <2>1, <2>2
<1>5. QueueInv'
  BY <1>1, <1>4 DEF Base, QueueInv, receiverVars
<1>6. PeerInv'
  <2>0. PeerInv
    BY DEF Base
  <2>1. CASE PeerReads
    <3>1. Head(toSender).type = "MANIFEST_ACCEPT" => accepting = "yes"
      BY <2>1, QueueShrinks DEF Base, ReceiverInv, HandshakeInv, Sent, PeerReads
    <3> QED BY <2>0, <2>1, <3>1 DEF PeerReads, PeerInv, receiverVars
  <2>2. CASE PeerSends
    <3>1. PICK n \in Nat : pos' = (IF pos + n <= TotalBytes THEN pos + n ELSE TotalBytes)
      BY <2>0, <2>2, SendsInPlace DEF PeerInv
    <3>2. pos' \in 0 .. TotalBytes
      BY <2>0, <3>1, StreamIs DEF PeerInv
    <3>3. spent' \in Nat
      BY <2>0, <2>2 DEF PeerInv, PeerSends, Happens
    <3> QED BY <2>0, <2>2, <3>2, <3>3 DEF PeerSends, PeerInv, receiverVars
  <2>3. CASE PeerAnnounces
    <3>1. announced + 1 \in File /\ announced' = announced + 1 /\ announced' \in 0 .. Len(Sizes)
      BY <2>0, <2>3, SizesOK DEF PeerAnnounces, PeerInv
    <3>2. started
      <4>1. FirstBytes[announced + 1] \in Nat /\ FirstBytes[announced + 1] > 0
        <5>1. (announced + 1) - 1 \in 0 .. Len(Sizes)
          BY <3>1, SizesOK
        <5> QED BY <3>1, <5>1, FirstBytesOK, SizesOK
      <4>2. ~started => pos = 0
        BY <2>0 DEF PeerInv
      <4>3. pos >= FirstBytes[announced + 1]
        BY <2>3 DEF PeerAnnounces
      <4> QED BY <4>1, <4>2, <4>3
    <3>3. toReceiver' \in Seq(PeerMsg)
      BY <2>0, <2>3, <3>1, PeerMsgOK DEF PeerAnnounces, PeerInv
    <3> QED BY <2>0, <2>3, <3>1, <3>2, <3>3 DEF PeerAnnounces, PeerInv, receiverVars
  <2>4. CASE PeerEnds
    <3>1. toReceiver' \in Seq(PeerMsg) /\ spent' \in Nat
      BY <2>0, <2>4, PeerMsgOK DEF PeerEnds, PeerInv, Happens
    <3> QED BY <2>0, <2>4, <3>1 DEF PeerEnds, PeerInv, receiverVars
  <2> QED BY <2>1, <2>2, <2>3, <2>4 DEF PeerStep
<1> QED BY <1>2, <1>3, <1>5, <1>6 DEF Base

LEMMA InitBase == Init => Base
<1> SUFFICES ASSUME Init PROVE Base
  OBVIOUS
<1> USE DEF Init, ChannelsInit, ReceiverInit
<1>1. ReceiverInv
  <2>1. toSender \in Seq(SenderMsg) /\ \A t : ~Sent(t)
    BY DEF Sent
  <2>2. index \in 1 .. Len(Sizes) + 1
    BY SizesOK
  <2> QED BY <2>1, <2>2 DEF ReceiverInv, HandshakeInv, OutcomeInv
<1>2. QueueInv
  BY DEF QueueInv, Task
<1>3. CursorOK(AtStart) /\ Ticked(rStatus, index)
  BY SizesOK DEF CursorOK, AtStart, Ticked
<1>4. SyncInv
  BY <1>3 DEF SyncInv, Closing, Rows, Sound, Chunk
<1>5. PeerInv
  BY SizesOK, StreamIs DEF PeerInv
<1> QED BY <1>1, <1>2, <1>4, <1>5 DEF Base

LEMMA NextBase == ASSUME Base, [Next]_vars PROVE Base'
<1>1. CASE PeerStep /\ UNCHANGED receiverVars
  BY <1>1, PeerKeepsBase
<1>2. CASE ReceiverNext /\ UNCHANGED peerVars
  BY <1>2, BaseFacts, ReceiverKeepsInv, ReceiverKeepsQueue, ReceiverSync, ReceiverKeepsPeer DEF Base
<1>3. CASE UNCHANGED vars
  BY <1>3 DEF vars, channelVars, receiverVars, peerVars, Base, ReceiverInv, HandshakeInv, OutcomeInv, Sent,
     QueueInv, SyncInv, Closing, Rows, Sound, Stage, Placed, Held, PeerInv
<1> QED BY <1>1, <1>2, <1>3 DEF Next

-----------------------------------------------------------------------------
(* the bytes on their way *)

\* The chunks that wait for the one being consumed.
Queue == IF task = "idle" THEN writes ELSE Tail(writes)

\* While the batch goes on, the chunks that wait and those in flight follow each
\* other in place from where the cursor is, up to where the peer is.
Flows(e) ==
  /\ \E m : Lies(Queue, cursor.total, m) /\ Lies(dataNet, m, e)
  /\ pos = IF e <= TotalBytes THEN e ELSE TotalBytes
  /\ spent = 0 => e <= TotalBytes

Going == accepting = "yes" /\ ~aborted /\ ~broken /\ ~verified

Flow == Counted(cursor) /\ (Going => \E e : Flows(e))

\* A step of the chunk being consumed leaves those that wait where they are.
LEMMA ConsumingMoves ==
  ASSUME Base, ReceiverQueue \/ PieceFails \/ DigestFails \/ CloseFails \/ NextFileFails
  PROVE  UNCHANGED <<cursor, dataNet, accepting, verified>> /\ (broken' \/ (UNCHANGED broken /\ Queue' = Queue))
<1>1. /\ task # "idle"
      /\ UNCHANGED <<cursor, dataNet, accepting, verified>>
      /\ UNCHANGED broken \/ broken'
  BY DEF ReceiverQueue, PieceWritten, PieceHashed, DigestComputed, Mismatch, FileCloses, NextFileOpens,
         NextFileReady, PieceFails, DigestFails, CloseFails, NextFileFails, transport
<1>2. ASSUME ChunkEnds PROVE Queue' = Queue
  BY <1>1, <1>2 DEF ChunkEnds, Queue
<1>3. ASSUME task' # "idle", UNCHANGED writes PROVE Queue' = Queue
  BY <1>1, <1>3 DEF Queue
<1>4. ASSUME NEW ps, NEW statuses, Advance(ps, statuses) PROVE Queue' = Queue
  <2>1. ChunkEnds \/ (task' = "write" /\ UNCHANGED writes)
    BY <1>4, AdvanceIs
  <2> QED BY <1>2, <1>3, <2>1
<1>5. CASE PieceWritten
  <2>1. FailChunk \/ (task' = "hash" /\ UNCHANGED writes)
    BY <1>5 DEF PieceWritten
  <2> QED BY <1>1, <1>2, <1>3, <2>1, FailChunkIs
<1>6. CASE PieceHashed
  <2>1. Advance(Tail(pieces), rStatus) \/ (task' = "final" /\ UNCHANGED writes)
    BY <1>6 DEF PieceHashed
  <2> QED BY <1>1, <1>3, <1>4, <2>1
<1>7. CASE DigestComputed
  <2>1. task' \in {"digest", "close", "abort"} /\ UNCHANGED writes
    BY <1>7 DEF DigestComputed, Verdict
  <2> QED BY <1>1, <1>3, <2>1
<1>8. CASE Mismatch \/ CloseFails
  <2>1. ChunkDone(toSender)
    BY <1>8 DEF Mismatch, CloseFails
  <2> QED BY <1>1, <1>2, <2>1, ChunkDoneIs
<1>9. CASE FileCloses
  <2>1. (task' = "open" /\ UNCHANGED writes) \/ \E q : ChunkDone(q)
    BY <1>9 DEF FileCloses
  <2> QED BY <1>1, <1>2, <1>3, <2>1, ChunkDoneIs
<1>10. CASE NextFileOpens
  <2>1. task' = "init" /\ UNCHANGED writes
    BY <1>10 DEF NextFileOpens
  <2> QED BY <1>1, <1>3, <2>1
<1>11. CASE NextFileReady
  <2>1. Advance(Tail(pieces), [rStatus EXCEPT ![index] = "receiving"])
    BY <1>11 DEF NextFileReady
  <2> QED BY <1>1, <1>4, <2>1
<1>12. CASE PieceFails \/ NextFileFails
  <2>1. ChunkEnds
    BY <1>12, FailChunkIs DEF PieceFails, NextFileFails
  <2> QED BY <1>1, <1>2, <2>1
<1>13. CASE DigestFails
  BY <1>1, <1>13 DEF DigestFails
<1> QED BY <1>5, <1>6, <1>7, <1>8, <1>9, <1>10, <1>11, <1>12, <1>13 DEF ReceiverQueue

\* The other steps leave the queue alone.
LEMMA OthersMove ==
  ASSUME \/ Finish \/ TailArrives \/ ReceiverControl \/ ReceiverAccepts \/ ReceiverLoss
         \/ AcceptFails \/ DialogDismissed \/ Decline \/ RCancel
  PROVE  /\ UNCHANGED <<dataNet, broken, writes>> /\ (task' = "idle" <=> task = "idle")
         /\ UNCHANGED cursor \/ (accepting' # "yes" /\ cursor' = AtStart)
         /\ Accepted \/ UNCHANGED accepting \/ accepting' # "yes"
<1> USE DEF transport, failing, queueing, losing
<1>1. CASE ReceiverControl
  BY <1>1 DEF ReceiverControl, OnTransferStart, OnFileDone, OnTransferComplete, ROnTransferFailed, RReceive,
     Verdict
<1>2. CASE ReceiverAccepts
  BY <1>2 DEF ReceiverAccepts, Accept, DestinationOpens, FirstFileOpens, Accepted
<1>3. CASE Finish \/ TailArrives \/ ReceiverLoss \/ AcceptFails \/ DialogDismissed \/ Decline \/ RCancel
  BY <1>3 DEF Finish, TailArrives, ReceiverLoss, RChannelsClose, RConnectionFails, AcceptFails,
     DialogDismissed, Decline, RCancel
<1> QED BY <1>1, <1>2, <1>3

\* fail() on a batch that goes on aborts it.
LEMMA FailAborts ==
  ASSUME Base, accepting = "yes", ~verified, NEW state, NEW s, NEW fates, NEW statuses,
         RFailFrom(state, s, fates, statuses)
  PROVE  aborted'
<1>1. rState \notin {"complete", "declined"}
  BY DEF Base, ReceiverInv, OutcomeInv, QueueInv
<1> QED BY <1>1 DEF RFailFrom

\* Consuming the next chunk moves the cursor to its end, or the batch aborts.
LEMMA ConsumeMoves ==
  ASSUME Base, Counted(cursor), ConsumeStart
  PROVE  /\ Counted(cursor') /\ UNCHANGED <<dataNet, accepting, verified, broken>>
         /\ task = "idle" /\ writes # <<>> /\ Queue' = Tail(writes)
         /\ accepting = "yes" /\ ~verified =>
              aborted' \/ cursor'.total = cursor.total + Len(Head(writes))
<1>1. /\ task = "idle" /\ writes # <<>> /\ accepting = "yes"
      /\ UNCHANGED <<dataNet, accepting, verified, broken>>
  BY BaseFacts DEF ConsumeStart, MustConsume, QueueFacts, transport
<1>2. ChunkEnds => Queue' = Tail(writes)
  BY DEF ChunkEnds, Queue
<1>3. CASE aborted
  <2>1. UNCHANGED <<cursor, failing>> /\ ChunkDone(toSender)
    BY <1>3 DEF ConsumeStart
  <2> QED BY <1>1, <1>2, <1>3, <2>1, ChunkDoneIs DEF failing, Counted
<1>4. CASE ~aborted
  <2> DEFINE l == Len(Head(writes))
             split == Split(Sizes, cursor, l)
  <2>1. cursor' = split.cur /\ IF split.overflow > 0 THEN FailChunk ELSE Advance(split.pieces, rStatus)
    BY <1>1, <1>4 DEF ConsumeStart
  <2>2. l \in Nat /\ CursorOK(cursor)
    BY <1>1, TailOK DEF Base, SyncInv, QueueInv, Chunk
  <2> HIDE DEF l
  <2>3. /\ Counted(split.cur) /\ split.overflow \in 0 .. l
        /\ split.overflow = 0 => split.cur.total = cursor.total + l
    BY <2>2, SplitOK, SplitFits
  <2> HIDE DEF split
  <2>4. Queue' = Tail(writes)
    <3>1. CASE FailChunk
      BY <1>2, <3>1, FailChunkIs
    <3>2. CASE Advance(split.pieces, rStatus)
      <4>1. ChunkEnds \/ (task' = "write" /\ UNCHANGED writes)
        BY <3>2, AdvanceIs
      <4> QED BY <1>2, <4>1 DEF Queue
    <3> QED BY <2>1, <3>1, <3>2
  <2>5. CASE split.overflow > 0
    <3>1. ~verified => aborted'
      BY <1>1, <2>1, <2>5, FailAborts DEF FailChunk, RFail
    <3> QED BY <1>1, <2>1, <2>3, <2>4, <3>1
  <2>6. CASE ~(split.overflow > 0)
    <3>1. split.overflow = 0
      BY <2>2, <2>3, <2>6
    <3> QED BY <1>1, <2>1, <2>3, <2>4, <3>1 DEF l
  <2> QED BY <2>5, <2>6
<1> QED BY <1>3, <1>4

LEMMA AbortedStays == aborted /\ ReceiverNext => aborted'
<1> SUFFICES ASSUME aborted, ReceiverNext PROVE aborted'
  OBVIOUS
<1>1. ASSUME NEW state, NEW s, NEW fates, NEW statuses, RFailFrom(state, s, fates, statuses) PROVE aborted'
  BY <1>1 DEF RFailFrom
<1>2. ASSUME NEW ps, NEW statuses, Advance(ps, statuses) PROVE aborted'
  <2>1. UNCHANGED aborted \/ RFailFrom("failed", sink, fate, statuses)
    BY <1>2 DEF Advance
  <2> QED BY <1>1, <2>1
<1>3. RFail("failed") \/ RFail("senderGone") \/ FailChunk => aborted'
  BY <1>1 DEF RFail, FailChunk
<1>4. CASE ReceiverMicrotask
  <2>1. CASE Finish
    BY <1>3, <2>1 DEF Finish, failing
  <2>2. CASE ConsumeStart
    <3>1. \/ UNCHANGED failing \/ FailChunk \/ \E ps : Advance(ps, rStatus)
      BY <2>2 DEF ConsumeStart
    <3> QED BY <1>2, <1>3, <3>1 DEF failing
  <2> QED BY <1>4, <2>1, <2>2 DEF ReceiverMicrotask
<1>5. CASE ReceiverQueue
  BY <1>1, <1>2, <1>3, <1>5 DEF ReceiverQueue, PieceWritten, PieceHashed, DigestComputed, Mismatch, FileCloses,
     NextFileOpens, NextFileReady, failing
<1>6. CASE ReceiverFaults
  BY <1>1, <1>3, <1>6 DEF ReceiverFaults, PieceFails, DigestFails, CloseFails, NextFileFails, AcceptFails,
     DialogDismissed, Decline, RCancel, failing
<1>7. CASE ChunkArrives \/ TailArrives \/ ReceiverControl \/ ReceiverAccepts \/ ReceiverLoss
  BY <1>3, <1>7 DEF ChunkArrives, TailArrives, ReceiverControl, OnTransferStart, OnFileDone, OnTransferComplete,
     ROnTransferFailed, ReceiverAccepts, Accept, DestinationOpens, FirstFileOpens, Accepted, ReceiverLoss,
     RChannelsClose, RConnectionFails, failing
<1> QED BY <1>4, <1>5, <1>6, <1>7 DEF ReceiverNext, ReceiverTask

LEMMA SpentOnce == spent \in Nat /\ ReceiverNext /\ spent' = 0 => UNCHANGED spent
BY SpentGrows DEF Happens

LEMMA ReceiverFlows ==
  ASSUME Base, Flow, ReceiverNext, UNCHANGED peerVars
  PROVE  Flow'
<1>0. /\ Counted(cursor) /\ (Going => \E e : Flows(e)) /\ UNCHANGED pos
      /\ writes \in Seq(Chunk) /\ dataNet \in Seq(Chunk)
  BY DEF Flow, peerVars, Base, QueueInv
<1>1. spent' = 0 => spent = 0
  BY SpentOnce DEF Base, PeerInv
<1>2. Going' /\ accepting = "yes" /\ ~broken => Going
  BY AcceptedStays, AbortedStays DEF Going
<1>3. broken => broken'
  BY BrokenStays
<1>4. CASE ConsumeStart
  <2>1. /\ Counted(cursor') /\ UNCHANGED <<dataNet, accepting, verified, broken>>
        /\ task = "idle" /\ writes # <<>> /\ Queue' = Tail(writes)
        /\ accepting = "yes" /\ ~verified =>
              aborted' \/ cursor'.total = cursor.total + Len(Head(writes))
    BY <1>0, <1>4, ConsumeMoves
  <2>2. ASSUME Going' PROVE \E e : Flows(e)'
    <3>1. Going /\ cursor'.total = cursor.total + Len(Head(writes))
      BY <1>2, <2>1, <2>2 DEF Going
    <3>2. PICK e : Flows(e)
      BY <1>0, <3>1
    <3>3. PICK m : Lies(writes, cursor.total, m) /\ Lies(dataNet, m, e)
      BY <2>1, <3>2 DEF Flows, Queue
    <3>4. Lies(Tail(writes), cursor'.total, m)
      BY <1>0, <2>1, <3>1, <3>3, LiesTail
    <3>5. Flows(e)'
      BY <1>0, <1>1, <2>1, <3>2, <3>3, <3>4 DEF Flows
    <3> QED BY <3>5
  <2> QED BY <2>1, <2>2 DEF Flow, Counted
<1>5. CASE ChunkArrives
  <2> DEFINE c == Head(dataNet)
  <2>1. /\ dataNet # <<>> /\ dataNet' = Tail(dataNet) /\ writes' = Append(writes, c)
        /\ UNCHANGED <<cursor, accepting, aborted, broken, verified, task>>
    BY <1>5 DEF ChunkArrives
  <2>2. c \in Chunk /\ Queue \in Seq(Chunk) /\ Queue' = Append(Queue, c)
    <3>1. c \in Chunk
      BY <1>0, <2>1, TailOK
    <3>2. CASE task = "idle"
      BY <1>0, <2>1, <3>1, <3>2 DEF Queue
    <3>3. CASE task # "idle"
      <4>1. writes # <<>>
        BY <3>3 DEF Base, QueueInv
      <4> HIDE DEF c
      <4>2. Tail(writes) \in Seq(Chunk) /\ Tail(Append(writes, c)) = Append(Tail(writes), c)
        BY <1>0, <3>1, <4>1
      <4> QED BY <2>1, <3>1, <3>3, <4>2 DEF Queue
    <3> QED BY <3>2, <3>3
  <2>3. ASSUME Going' PROVE \E e : Flows(e)'
    <3>1. PICK e : Flows(e)
      BY <1>0, <2>1, <2>3 DEF Going
    <3>2. PICK m : Lies(Queue, cursor.total, m) /\ Lies(dataNet, m, e)
      BY <3>1 DEF Flows
    <3>3. InPlace(c, m) /\ Lies(Tail(dataNet), m + Len(c), e)
      BY <1>0, <2>1, <3>2, LiesTail
    <3> HIDE DEF c
    <3>4. Lies(Append(Queue, c), cursor.total, m + Len(c))
      BY <2>2, <3>2, <3>3, LiesAppend
    <3>5. Flows(e)'
      BY <1>0, <1>1, <2>1, <2>2, <3>1, <3>3, <3>4 DEF Flows
    <3> QED BY <3>5
  <2> QED BY <1>0, <2>1, <2>3 DEF Flow, Counted
<1>6. ASSUME UNCHANGED <<cursor, dataNet>>, Queue' = Queue, accepting = "yes" \/ accepting' # "yes"
      PROVE  Flow'
  <2>1. ASSUME Going' PROVE \E e : Flows(e)'
    <3>1. PICK e : Flows(e)
      BY <1>0, <1>2, <1>3, <1>6, <2>1 DEF Going
    <3>2. Flows(e)'
      BY <1>0, <1>1, <1>6, <3>1 DEF Flows
    <3> QED BY <3>2
  <2> QED BY <1>0, <1>6, <2>1 DEF Flow, Counted
<1>7. CASE ReceiverQueue \/ PieceFails \/ DigestFails \/ CloseFails \/ NextFileFails
  <2>1. UNCHANGED <<cursor, dataNet, accepting>> /\ (broken' \/ Queue' = Queue)
    BY <1>7, ConsumingMoves
  <2>2. CASE broken'
    BY <1>0, <2>1, <2>2 DEF Flow, Counted, Going
  <2> QED BY <1>6, <2>1, <2>2
<1>8. CASE \/ Finish \/ TailArrives \/ ReceiverControl \/ ReceiverAccepts \/ ReceiverLoss
           \/ AcceptFails \/ DialogDismissed \/ Decline \/ RCancel
  <2>1. /\ UNCHANGED <<dataNet, broken, writes>> /\ (task' = "idle" <=> task = "idle")
        /\ UNCHANGED cursor \/ (accepting' # "yes" /\ cursor' = AtStart)
        /\ Accepted \/ UNCHANGED accepting \/ accepting' # "yes"
    BY <1>8, OthersMove
  <2>2. Queue' = Queue
    BY <2>1 DEF Queue
  <2>3. CASE accepting' # "yes" /\ cursor' = AtStart
    BY <2>3, FirstBytesOK DEF Flow, Counted, AtStart, Going
  <2>4. CASE Accepted
    <3>1. accepting = "init" /\ UNCHANGED <<cursor, aborted, verified>>
      BY <2>4 DEF Accepted, queueing
    <3>2. task = "idle" /\ writes = <<>> /\ dataNet = <<>> /\ pos = 0 /\ TotalBytes \in Nat
      <4>1. task = "idle" /\ writes = <<>> /\ dataNet = <<>> /\ pos = 0
        BY <3>1 DEF Base, ReceiverInv, HandshakeInv, PeerInv
      <4> QED BY <4>1, StreamIs
    <3>3. ASSUME Going' PROVE \E e : Flows(e)'
      <4>1. cursor = AtStart
        BY <3>1, <3>3 DEF Base, SyncInv, Sound, Going
      <4>2. cursor'.total = 0 /\ Queue' = <<>> /\ dataNet' = <<>>
        BY <2>1, <2>2, <3>1, <3>2, <4>1 DEF AtStart, Queue
      <4>3. Lies(<<>>, 0, 0)
        BY LiesEmpty
      <4>4. Flows(0)'
        BY <1>0, <3>2, <4>2, <4>3 DEF Flows
      <4> QED BY <4>4
    <3> QED BY <1>0, <3>1, <3>3 DEF Flow, Counted
  <2> QED BY <1>6, <2>1, <2>2, <2>3, <2>4
<1> QED BY <1>4, <1>5, <1>7, <1>8 DEF ReceiverNext, ReceiverMicrotask, ReceiverTask, ReceiverFaults

LEMMA PeerFlows ==
  ASSUME Base, Flow, PeerStep, UNCHANGED receiverVars
  PROVE  Flow'
<1>0. UNCHANGED <<cursor, Queue, Going>> /\ TotalBytes \in Nat
  BY StreamIs DEF receiverVars, Queue, Going
<1>1. pos \in 0 .. TotalBytes /\ spent \in Nat /\ dataNet \in Seq(Chunk)
  BY DEF Base, PeerInv, QueueInv
<1>2. CASE PeerSends
  <2>1. PICK c \in Chunk, n \in Nat :
           /\ n > 0 /\ Len(c) = n /\ dataNet' = Append(dataNet, c) /\ InPlace(c, pos)
           /\ pos' = IF pos + n <= TotalBytes THEN pos + n ELSE TotalBytes
           /\ IF pos + n <= TotalBytes THEN UNCHANGED spent ELSE Happens("overrun")
    BY <1>1, <1>2, SendsInPlace
  <2>2. ASSUME NEW e, Flows(e) PROVE Flows(e + n)'
    <3>1. PICK m : Lies(Queue, cursor.total, m) /\ Lies(dataNet, m, e)
      BY <2>2 DEF Flows
    <3>2. e \in Nat
      BY <1>1, <3>1, LiesEnds
    <3>3. /\ pos = IF e <= TotalBytes THEN e ELSE TotalBytes
          /\ spent = 0 => e <= TotalBytes
      BY <2>2 DEF Flows
    <3>4. InPlace(c, e)
      <4>1. CASE e <= TotalBytes
        BY <2>1, <3>3, <4>1
      <4>2. CASE ~(e <= TotalBytes)
        <5>1. \A j \in 1 .. n : ~(e + j <= TotalBytes)
          BY <1>0, <3>2, <4>2
        <5> QED BY <2>1, <5>1 DEF InPlace
      <4> QED BY <4>1, <4>2
    <3>5. Lies(dataNet', m, e + n)
      BY <1>1, <2>1, <3>1, <3>4, LiesAppend
    <3>6. /\ pos' = IF e + n <= TotalBytes THEN e + n ELSE TotalBytes
          /\ spent' = 0 => e + n <= TotalBytes
      BY <1>0, <1>1, <2>1, <3>2, <3>3 DEF Happens
    <3> QED BY <1>0, <3>1, <3>5, <3>6 DEF Flows
  <2> QED BY <1>0, <2>2 DEF Flow, Counted
<1>3. CASE ~PeerSends
  <2>1. UNCHANGED <<dataNet, pos>> /\ (spent' = 0 => spent = 0)
    BY <1>1, <1>3 DEF PeerStep, PeerReads, PeerAnnounces, PeerEnds, Happens
  <2>2. ASSUME NEW e, Flows(e) PROVE Flows(e)'
    BY <1>0, <2>1, <2>2 DEF Flows
  <2> QED BY <1>0, <2>2 DEF Flow, Counted
<1> QED BY <1>2, <1>3

LEMMA InitFlow == Init => Flow
BY FirstBytesOK DEF Init, ReceiverInit, AtStart, Flow, Counted, Going

LEMMA NextFlow == ASSUME Base, Flow, [Next]_vars PROVE Flow'
<1>1. CASE UNCHANGED vars
  <2>1. UNCHANGED <<cursor, Queue, Going, dataNet, pos, spent>>
    BY <1>1 DEF vars, channelVars, receiverVars, peerVars, Queue, Going
  <2> QED BY <2>1 DEF Flow, Counted, Flows
<1> QED BY <1>1, PeerFlows, ReceiverFlows DEF Next

-----------------------------------------------------------------------------
(* where bytes land *)

\* The chunk being consumed is in place, and the cursor is at its end.
Landing == LET c == Head(writes) IN Len(c) <= cursor.total /\ InPlace(c, cursor.total - Len(c))

\* What is left of it falls where the files are, from byte p of file i on.
Laid(ps, i, p) ==
  LET size == Len(Head(writes)) IN Cuts(ps, i, p, size, cursor) /\ Fits(ps, p, cursor.total - size)

\* The files before the one being received are whole, those after it empty.
Filled ==
  /\ disk = [f \in File |-> disk[f]]
  /\ \A f \in File : (f < index => disk[f] = Content(f)) /\ (f > index => disk[f] = <<>>)
  /\ index \in File => \E n \in 0 .. Sizes[index] : disk[index] = Prefix(index, n)
  /\ accepting # "yes" => \A f \in File : disk[f] = <<>>

\* What is hashed is what is written, but for the piece under way.
Placing ==
  task # "idle" =>
    /\ Landing
    /\ task \in {"write", "hash"} => pieces # <<>> /\ Laid(pieces, index, Len(rHashed))
    /\ task = "write" => disk[index] = rHashed
    /\ task = "hash" => disk[index] = rHashed \o PieceBytes
    /\ task \in {"final", "digest", "close", "abort"} =>
         disk[index] = Content(index) /\ rHashed = Content(index) /\ Laid(Tail(pieces), index + 1, 0)
    /\ task \in {"open", "init"} => disk[index] = <<>> /\ Laid(Tail(pieces), index, 0)
    /\ task = "init" => rHashed = <<>>

Resting ==
  accepting = "yes" /\ task = "idle" /\ ~broken /\ ~aborted /\ index \in File => rHashed = disk[index]

LandInv == Filled /\ rHashed \in Chunk /\ Placing /\ Resting

\* The piece under way is the next of the file being received.
LEMMA PieceIs ==
  ASSUME Base, LandInv, task \in {"write", "hash"}
  PROVE  LET n == Len(rHashed)  l == Head(pieces).length IN
         /\ n \in Nat /\ l \in Nat /\ n + l <= Sizes[index] /\ index \in File /\ rHashed \in Seq(Byte)
         /\ PieceBytes \in Seq(Byte) /\ Len(PieceBytes) = l
         /\ PieceBytes = SubSeq(Content(index), n + 1, n + l)
         /\ Head(pieces).endsFile => n + l = Sizes[index] /\ Laid(Tail(pieces), index + 1, 0)
         /\ ~Head(pieces).endsFile => Tail(pieces) = <<>>
<1> DEFINE n == Len(rHashed)  q == Head(pieces)  c == Head(writes)  size == Len(c)
           base == cursor.total - size
<1>1. /\ index \in File /\ index \in Nat /\ writes # <<>> /\ n \in Nat /\ rHashed \in Seq(Byte)
      /\ c \in Chunk /\ size \in Nat /\ cursor.total \in Nat
  <2>1. index \in File /\ writes # <<>> /\ writes \in Seq(Chunk) /\ CursorOK(cursor)
    BY DEF Base, ReceiverInv, HandshakeInv, QueueInv, SyncInv
  <2>2. c \in Chunk
    BY <2>1, TailOK
  <2>3. rHashed \in Seq(Byte)
    BY DEF LandInv, Chunk
  <2>4. cursor.total \in Nat
    BY <2>1 DEF CursorOK
  <2> QED BY <2>1, <2>2, <2>3, <2>4, SizesOK DEF Chunk
<1>2. /\ size <= cursor.total /\ InPlace(c, base)
      /\ pieces # <<>> /\ Cuts(pieces, index, n, size, cursor) /\ Fits(pieces, n, base)
  BY DEF LandInv, Placing, Landing, Laid
<1>3. base \in Nat
  BY <1>1, <1>2
<1> HIDE DEF n, size, base
<1>4. /\ q \in Piece /\ q.index = index /\ q.offset + q.length <= size
      /\ n + q.length <= Sizes[index] /\ (q.endsFile <=> n + q.length = Sizes[index])
      /\ q.endsFile => Cuts(Tail(pieces), index + 1, 0, size, cursor)
      /\ ~q.endsFile => Tail(pieces) = <<>>
  BY <1>1, <1>2, CutsTail
<1>5. pieces \in Seq(Piece)
  BY <1>2 DEF Cuts
<1>6. base + q.offset = FirstBytes[index - 1] + n /\ Fits(Tail(pieces), 0, base)
  BY <1>1, <1>2, <1>4, <1>5, FitsTail
<1>7. q.offset \in Nat /\ q.length \in Nat
  BY <1>4 DEF Piece
<1> HIDE DEF q
<1>8. SubSeq(c, q.offset + 1, q.offset + q.length) = SubSeq(Content(index), n + 1, n + q.length)
  <2>1. q.offset + q.length <= Len(c)
    BY <1>4 DEF size
  <2>2. InPlace(c, base) /\ c \in Chunk /\ base \in Nat /\ index \in File /\ n \in Nat
    BY <1>1, <1>2, <1>3
  <2> HIDE DEF c
  <2>3. \A o, l \in Nat :
          o + l <= Len(c) /\ base + o = FirstBytes[index - 1] + n /\ n + l <= Sizes[index] =>
            SubSeq(c, o + 1, o + l) = SubSeq(Content(index), n + 1, n + l)
    BY <2>2, PieceInPlace
  <2> QED BY <1>4, <1>6, <1>7, <2>1, <2>3
<1>9. /\ SubSeq(c, q.offset + 1, q.offset + q.length) \in Seq(Byte)
      /\ Len(SubSeq(c, q.offset + 1, q.offset + q.length)) = q.length
  <2>1. c \in Seq(Byte) /\ q.offset + q.length <= Len(c)
    BY <1>1, <1>4 DEF Chunk, size
  <2> HIDE DEF c
  <2> QED BY <1>7, <2>1, SubSeqOK
<1>10. q.endsFile => Laid(Tail(pieces), index + 1, 0)
  BY <1>4, <1>6 DEF Laid, size, base
<1> QED BY <1>1, <1>4, <1>7, <1>8, <1>9, <1>10 DEF PieceBytes, q, n

LEMMA PrefixOK ==
  ASSUME NEW f \in File, NEW n \in Nat
  PROVE  Prefix(f, n) \in Seq(Byte) /\ Len(Prefix(f, n)) = n
<1>1. \A k \in 1 .. n : <<f, k>> \in Byte
  BY DEF Byte
<1>2. Prefix(f, n) \in [1 .. n -> Byte]
  BY <1>1 DEF Prefix
<1> QED BY <1>2

LEMMA WriteLands ==
  ASSUME Base, LandInv, task = "write"
  PROVE  \E m \in 0 .. Sizes[index] : disk[index] \o PieceBytes = Prefix(index, m)
<1> DEFINE n == Len(rHashed)  l == Head(pieces).length
<1>1. /\ n \in Nat /\ l \in Nat /\ n + l <= Sizes[index] /\ index \in File
      /\ PieceBytes = SubSeq(Content(index), n + 1, n + l)
  BY PieceIs
<1>2. PICK m \in 0 .. Sizes[index] : disk[index] = Prefix(index, m)
  BY <1>1 DEF LandInv, Filled
<1>3. disk[index] = rHashed
  BY DEF LandInv, Placing
<1>4. m = n /\ disk[index] = Prefix(index, n) /\ Sizes[index] \in Nat
  <2>1. Len(Prefix(index, m)) = m /\ m \in Nat
    BY <1>1, <1>2, PrefixOK, SizesOK
  <2> QED BY <1>1, <1>2, <1>3, <2>1, SizesOK
<1>5. n <= n + l /\ n + l \in Nat /\ n + l \in 0 .. Sizes[index]
  BY <1>1, <1>4
<1> HIDE DEF n, l
<1>6. Prefix(index, n) \o SubSeq(Content(index), n + 1, n + l) = Prefix(index, n + l)
  BY <1>1, <1>5, PrefixGrows
<1> QED BY <1>1, <1>4, <1>5, <1>6

\* A chunk that fails while it is consumed aborts the batch.
LEMMA FailPlaces ==
  ASSUME Base, task # "idle", NEW s, NEW fates, NEW statuses,
         RFailFrom("failed", s, fates, statuses) /\ ChunkDone(toSender)
  PROVE  aborted' /\ task' = "idle"
<1>1. rState \notin {"complete", "declined"}
  BY BaseFacts, StillFails
<1> QED BY <1>1 DEF RFailFrom, ChunkDone

\* Going on with pieces that fall where the files are.
LEMMA AdvancePlaces ==
  ASSUME Base, accepting = "yes", ~broken, NEW ps, NEW statuses, Advance(ps, statuses),
         UNCHANGED <<index, broken, accepting, disk>>, Filled, rHashed' \in Chunk,
         index \in File => rHashed' = disk[index],
         index \in File /\ ps # <<>> =>
           /\ Len(Head(writes)) <= cursor'.total
           /\ InPlace(Head(writes), cursor'.total - Len(Head(writes)))
           /\ Cuts(ps, index, Len(rHashed'), Len(Head(writes)), cursor')
           /\ Fits(ps, Len(rHashed'), cursor'.total - Len(Head(writes)))
  PROVE  LandInv'
<1>0. sink # 0 => index \in File
  BY DEF Base, ReceiverInv, HandshakeInv
<1>1. Filled'
  BY DEF Filled
<1>2. CASE ps = <<>>
  <2>1. task' = "idle" /\ UNCHANGED aborted
    BY <1>2 DEF Advance, ChunkDone
  <2> QED BY <1>1, <2>1 DEF LandInv, Placing, Resting
<1>3. CASE ps # <<>> /\ sink # 0 /\ rHasher /\ Head(ps).index = index
  <2>1. task' = "write" /\ pieces' = ps /\ UNCHANGED <<aborted, writes>>
    BY <1>3 DEF Advance
  <2>2. Placing'
    BY <1>0, <1>3, <2>1 DEF Placing, Landing, Laid
  <2> QED BY <1>1, <2>1, <2>2 DEF LandInv, Resting
<1>4. CASE ps # <<>> /\ ~(sink # 0 /\ rHasher /\ Head(ps).index = index)
  <2>1. RFailFrom("failed", sink, fate, statuses) /\ ChunkDone(toSender)
    BY <1>4 DEF Advance
  <2>2. task' = "idle"
    BY <2>1 DEF ChunkDone
  <2>3. aborted' \/ UNCHANGED aborted
    BY <2>1 DEF RFailFrom
  <2> QED BY <1>1, <2>2, <2>3 DEF LandInv, Placing, Resting
<1> QED BY <1>2, <1>3, <1>4

\* The queue between two chunks, or a chunk that failed.
LEMMA IdleLands ==
  ASSUME LandInv, UNCHANGED <<disk, index, accepting, rHashed>>, task' = "idle",
         aborted' \/ broken' \/ (task = "idle" /\ UNCHANGED <<aborted, broken>>)
  PROVE  LandInv'
BY DEF LandInv, Filled, Placing, Resting

\* A stage of the chunk that moves no byte of what is left of it.
LEMMA StageLands ==
  ASSUME LandInv, UNCHANGED <<writes, pieces, cursor, accepting>>, task # "idle", task' # "idle",
         Filled', rHashed' \in Chunk,
         Landing /\ Placing => Placing'
  PROVE  LandInv'
BY DEF LandInv, Resting, Placing

LEMMA ConsumeLands ==
  ASSUME Base, Flow, LandInv, ConsumeStart
  PROVE  LandInv'
<1>1. /\ task = "idle" /\ writes # <<>> /\ ~broken /\ accepting = "yes"
      /\ UNCHANGED <<disk, index, accepting, rHashed, broken>>
  BY BaseFacts DEF ConsumeStart, MustConsume, QueueFacts
<1>2. CASE aborted
  <2>1. task' = "idle" /\ UNCHANGED aborted
    BY <1>2 DEF ConsumeStart, failing, ChunkDone
  <2> QED BY <1>1, <2>1, IdleLands
<1>3. CASE ~aborted
  <2> DEFINE l == Len(Head(writes))
             split == Split(Sizes, cursor, l)
  <2>1. cursor' = split.cur /\ IF split.overflow > 0 THEN FailChunk ELSE Advance(split.pieces, rStatus)
    BY <1>1, <1>3 DEF ConsumeStart
  <2>2. l \in Nat /\ CursorOK(cursor) /\ Counted(cursor) /\ cursor.total \in Nat /\ writes \in Seq(Chunk)
    <3>1. CursorOK(cursor) /\ Counted(cursor) /\ writes \in Seq(Chunk)
      BY DEF Base, SyncInv, QueueInv, Flow
    <3>2. Head(writes) \in Chunk
      BY <1>1, <3>1, TailOK
    <3> QED BY <3>1, <3>2 DEF Chunk, CursorOK
  <2>3. cursor.index = index /\ cursor.inFile = Placed
    BY <1>1, <1>3 DEF Base, SyncInv, Sound, Stage, Leaves
  <2> HIDE DEF l
  <2>4. /\ Cuts(split.pieces, cursor.index, cursor.inFile, l, split.cur)
        /\ Fits(split.pieces, cursor.inFile, cursor.total)
        /\ split.overflow \in 0 .. l
        /\ split.overflow = 0 => split.cur.total = cursor.total + l
    BY <2>2, SplitOK, SplitFits
  <2> HIDE DEF split
  <2>5. CASE split.overflow > 0
    <3>1. task' = "idle" /\ (aborted' \/ UNCHANGED aborted)
      BY <2>1, <2>5 DEF FailChunk, RFail, RFailFrom, ChunkDone
    <3> QED BY <1>1, <3>1, IdleLands
  <2>6. CASE ~(split.overflow > 0)
    <3>1. split.overflow = 0 /\ cursor'.total = cursor.total + l /\ Advance(split.pieces, rStatus)
      BY <2>1, <2>2, <2>4, <2>6
    <3>2. Filled /\ rHashed' \in Chunk
      BY <1>1 DEF LandInv
    <3>3. index \in File => rHashed' = disk[index]
      BY <1>1, <1>3 DEF LandInv, Resting
    <3>4. ASSUME index \in File
          PROVE  /\ l <= cursor'.total /\ InPlace(Head(writes), cursor'.total - l)
                 /\ Cuts(split.pieces, index, Len(rHashed'), l, cursor')
                 /\ Fits(split.pieces, Len(rHashed'), cursor'.total - l)
      <4>1. ~verified
        BY <1>1, <3>4 DEF Base, SyncInv, Closing, ReceiverInv, OutcomeInv
      <4>2. PICK e : Flows(e)
        BY <1>1, <1>3, <4>1 DEF Flow, Going
      <4>3. PICK m : Lies(writes, cursor.total, m)
        BY <1>1, <4>2 DEF Flows, Queue
      <4>4. InPlace(Head(writes), cursor.total)
        BY <1>1, <2>2, <4>3, LiesTail
      <4>5. l <= cursor'.total /\ cursor'.total - l = cursor.total
        BY <2>2, <3>1
      <4>6. cursor.inFile = Len(rHashed')
        BY <1>1, <2>3, <3>4 DEF Placed
      <4> QED BY <2>1, <2>3, <2>4, <4>4, <4>5, <4>6
    <3> QED BY <1>1, <3>1, <3>2, <3>3, <3>4, AdvancePlaces DEF l
  <2> QED BY <2>5, <2>6
<1> QED BY <1>2, <1>3

LEMMA PieceLands ==
  ASSUME Base, LandInv, PieceWritten \/ PieceHashed \/ PieceFails
  PROVE  LandInv'
<1>1. /\ task \in {"write", "hash"} /\ accepting = "yes" /\ ~broken /\ index \in File
      /\ UNCHANGED <<index, cursor, accepting, broken>>
  BY BaseFacts DEF QueueFacts, PieceWritten, PieceHashed, PieceFails
<1>2. CASE PieceWritten
  <2>1. task = "write" /\ disk' = [disk EXCEPT ![index] = disk[index] \o PieceBytes] /\ UNCHANGED rHashed
    BY <1>2 DEF PieceWritten
  <2>2. PICK m \in 0 .. Sizes[index] : disk[index] \o PieceBytes = Prefix(index, m)
    BY <2>1, WriteLands
  <2>3. Filled'
    <3>1. index \in Nat
      BY <1>1, SizesOK
    <3>2. disk = [f \in File |-> disk[f]] /\ \A f \in File : (f < index => disk[f] = Content(f)) /\ (f > index => disk[f] = <<>>)
      BY DEF LandInv, Filled
    <3>3. disk'[index] = Prefix(index, m) /\ \A f \in File : f # index => disk'[f] = disk[f]
      BY <1>1, <2>1, <2>2, <3>2
    <3>4. disk' = [f \in File |-> disk'[f]]
      BY <2>1, <3>2
    <3>5. \A f \in File : (f < index => f # index) /\ (f > index => f # index)
      BY <3>1, SizesOK
    <3> QED BY <1>1, <3>2, <3>3, <3>4, <3>5 DEF Filled
  <2>4. CASE rHasher
    <3>1. task' = "hash" /\ UNCHANGED <<writes, pieces>>
      BY <1>2, <2>4 DEF PieceWritten
    <3>2. UNCHANGED PieceBytes
      BY <3>1 DEF PieceBytes
    <3>3. disk'[index] = rHashed \o PieceBytes
      <4>1. disk[index] = rHashed /\ disk = [f \in File |-> disk[f]]
        BY <2>1 DEF LandInv, Placing, Filled
      <4> QED BY <1>1, <2>1, <4>1
    <3>4. Placing => Placing'
      BY <1>1, <2>1, <3>1, <3>2, <3>3 DEF Placing, Landing, Laid
    <3> QED BY <1>1, <2>1, <2>3, <3>1, <3>4, StageLands DEF LandInv
  <2>5. CASE ~rHasher
    <3>1. aborted' /\ task' = "idle"
      BY <1>2, <2>1, <2>5, FailPlaces DEF PieceWritten, FailChunk, RFail
    <3> QED BY <2>1, <2>3, <3>1 DEF LandInv, Placing, Resting
  <2> QED BY <2>4, <2>5
<1>3. CASE PieceHashed
  <2> DEFINE n == Len(rHashed)  l == Head(pieces).length
  <2>1. task = "hash" /\ rHashed' = rHashed \o PieceBytes /\ UNCHANGED disk
    BY <1>3 DEF PieceHashed
  <2>2. /\ n \in Nat /\ l \in Nat /\ n + l <= Sizes[index] /\ rHashed \in Seq(Byte)
        /\ PieceBytes \in Seq(Byte) /\ Len(PieceBytes) = l
        /\ Head(pieces).endsFile => n + l = Sizes[index] /\ Laid(Tail(pieces), index + 1, 0)
        /\ ~Head(pieces).endsFile => Tail(pieces) = <<>>
    BY <1>1, PieceIs
  <2>3. rHashed' = disk[index] /\ rHashed' \in Chunk /\ Filled /\ Filled'
    <3>1. rHashed' = disk[index] /\ Filled
      BY <2>1 DEF LandInv, Placing
    <3>2. rHashed' \in Chunk
      BY <2>1, <2>2, ConcatOK DEF Chunk
    <3> QED BY <1>1, <2>1, <3>1, <3>2 DEF Filled
  <2>4. CASE Head(pieces).endsFile
    <3>1. task' = "final" /\ UNCHANGED <<writes, pieces>>
      BY <1>3, <2>4 DEF PieceHashed
    <3>2. Len(rHashed') = Sizes[index]
      <4> HIDE DEF n, l
      <4>1. Len(rHashed') = n + l
        BY <2>1, <2>2, ConcatOK DEF n
      <4> QED BY <2>2, <2>4, <4>1
    <3>3. disk[index] = Content(index)
      <4>1. PICK m \in 0 .. Sizes[index] : disk[index] = Prefix(index, m)
        BY <1>1, <2>3 DEF Filled
      <4>2. m = Sizes[index]
        BY <1>1, <2>3, <3>2, <4>1, PrefixOK, SizesOK
      <4> QED BY <1>1, <4>1, <4>2, PrefixWhole
    <3>4. Landing => Placing'
      BY <1>1, <2>1, <2>2, <2>3, <2>4, <3>1, <3>3 DEF Placing, Landing, Laid
    <3> QED BY <1>1, <2>1, <2>3, <3>1, <3>4, StageLands
  <2>5. CASE ~Head(pieces).endsFile
    <3>1. Advance(<<>>, rStatus)
      BY <1>3, <2>2, <2>5 DEF PieceHashed
    <3> QED BY <1>1, <2>1, <2>3, <3>1, AdvancePlaces
  <2> QED BY <2>4, <2>5
<1>4. CASE PieceFails
  <2>1. aborted' /\ task' = "idle"
    BY <1>1, <1>4, FailPlaces DEF PieceFails, FailChunk, RFail
  <2> QED BY <1>1, <1>4, <2>1, IdleLands DEF PieceFails
<1> QED BY <1>2, <1>3, <1>4

LEMMA CloseLands ==
  ASSUME Base, LandInv, DigestComputed \/ DigestFails \/ Mismatch \/ FileCloses \/ CloseFails
  PROVE  LandInv'
<1>1. /\ task \in {"final", "abort", "close"} /\ accepting = "yes" /\ ~broken /\ index \in File
      /\ UNCHANGED <<disk, rHashed, cursor, accepting>>
  BY BaseFacts DEF QueueFacts, DigestComputed, DigestFails, Mismatch, FileCloses, CloseFails
<1>2. CASE DigestComputed
  <2>1. task' \in {"digest", "close", "abort"} /\ UNCHANGED <<index, writes, pieces>>
    BY <1>2 DEF DigestComputed, Verdict
  <2>2. Placing => Placing'
    BY <1>1, <2>1 DEF Placing, Landing, Laid
  <2>3. Filled' /\ rHashed' \in Chunk
    BY <1>1, <2>1 DEF LandInv, Filled
  <2> QED BY <1>1, <2>1, <2>2, <2>3, StageLands
<1>3. CASE DigestFails
  <2>1. task' = "idle" /\ broken' /\ UNCHANGED index
    BY <1>3 DEF DigestFails
  <2> QED BY <1>1, <2>1, IdleLands
<1>4. CASE Mismatch \/ CloseFails
  <2>1. aborted' /\ task' = "idle" /\ UNCHANGED index
    BY <1>1, <1>4, FailPlaces DEF Mismatch, CloseFails
  <2> QED BY <1>1, <2>1, IdleLands
<1>5. CASE FileCloses
  <2>1. task = "close" /\ index' = index + 1 /\ UNCHANGED <<broken, aborted>>
    BY <1>5 DEF FileCloses
  <2>2. disk[index] = Content(index) /\ Landing /\ Laid(Tail(pieces), index + 1, 0)
    BY <2>1 DEF LandInv, Placing
  <2>3. Filled' /\ (index' \in File => disk'[index'] = <<>>)
    <3>1. \A f \in File : (f < index + 1 => f < index \/ f = index) /\ (f > index + 1 => f > index) /\ index + 1 > index
      BY <1>1, SizesOK
    <3>2. index' \in File => disk'[index'] = <<>>
      BY <1>1, <2>1, <3>1 DEF LandInv, Filled
    <3>3. index' \in File => \E n \in 0 .. Sizes[index'] : disk'[index'] = Prefix(index', n)
      BY <3>2, PrefixWhole, SizesOK
    <3> QED BY <1>1, <2>1, <2>2, <3>1, <3>2, <3>3 DEF LandInv, Filled
  <2>4. CASE index < Len(Sizes)
    <3>1. task' = "open" /\ UNCHANGED <<writes, pieces>> /\ index' \in File
      BY <1>1, <1>5, <2>1, <2>4, SizesOK DEF FileCloses
    <3>2. Placing'
      BY <1>1, <2>1, <2>2, <2>3, <3>1 DEF Placing, Landing, Laid
    <3> QED BY <1>1, <2>3, <3>1, <3>2 DEF LandInv, Resting
  <2>5. CASE ~(index < Len(Sizes))
    <3>1. task' = "idle" /\ index' \notin File
      BY <1>1, <1>5, <2>1, <2>5, SizesOK DEF FileCloses, ChunkDone
    <3> QED BY <1>1, <2>3, <3>1 DEF LandInv, Placing, Resting
  <2> QED BY <2>4, <2>5
<1> QED BY <1>2, <1>3, <1>4, <1>5

LEMMA NextFileLands ==
  ASSUME Base, LandInv, NextFileOpens \/ NextFileReady \/ NextFileFails
  PROVE  LandInv'
<1>1. /\ task \in {"open", "init"} /\ accepting = "yes" /\ ~broken /\ index \in File
      /\ UNCHANGED <<disk, index, cursor, accepting, broken>>
  BY BaseFacts DEF QueueFacts, NextFileOpens, NextFileReady, NextFileFails
<1>2. Filled /\ Landing /\ disk[index] = <<>> /\ Laid(Tail(pieces), index, 0) /\ <<>> \in Chunk
  BY <1>1 DEF LandInv, Placing, Chunk
<1>3. CASE NextFileOpens
  <2>1. task' = "init" /\ rHashed' = <<>> /\ UNCHANGED <<writes, pieces>>
    BY <1>3 DEF NextFileOpens, OpenCurrent
  <2>2. Placing'
    BY <1>1, <1>2, <2>1 DEF Placing, Landing, Laid
  <2>3. Filled'
    BY <1>1, <1>2 DEF Filled
  <2> QED BY <1>1, <1>2, <2>1, <2>2, <2>3, StageLands
<1>4. CASE NextFileReady
  <2>1. Advance(Tail(pieces), [rStatus EXCEPT ![index] = "receiving"]) /\ rHashed' = <<>>
    BY <1>4 DEF NextFileReady, LandInv, Placing
  <2>2. Len(rHashed') = 0
    BY <2>1
  <2> QED BY <1>1, <1>2, <2>1, <2>2, AdvancePlaces DEF Landing, Laid
<1>5. CASE NextFileFails
  <2>1. aborted' /\ task' = "idle" /\ UNCHANGED rHashed
    BY <1>1, <1>5, FailPlaces DEF NextFileFails, FailChunk, RFail
  <2> QED BY <1>1, <2>1, IdleLands
<1> QED BY <1>3, <1>4, <1>5

\* Every other step leaves the disk and the chunk being consumed alone.
LEMMA OthersLand ==
  ASSUME Base, LandInv,
         \/ Finish \/ TailArrives \/ ReceiverControl \/ ReceiverAccepts \/ ReceiverLoss
         \/ AcceptFails \/ DialogDismissed \/ Decline \/ RCancel \/ ChunkArrives
         \/ UNCHANGED receiverVars,
         aborted => aborted'
  PROVE  LandInv'
<1> USE DEF failing, queueing, losing
<1>0. Filled /\ rHashed \in Chunk /\ Placing /\ Resting
  BY DEF LandInv
<1>1. CASE ReceiverAccepts
  <2>1. /\ accepting # "yes" /\ UNCHANGED <<disk, task, broken, aborted>> /\ rHashed' \in {rHashed, <<>>}
        /\ index' \in {index, 1} /\ (accepting' = "yes" => Accepted)
    BY <1>1 DEF ReceiverAccepts, Accept, DestinationOpens, FirstFileOpens, OpenCurrent, Accepted
  <2>2. task = "idle" /\ index = 1 /\ index \in File /\ 0 \in 0 .. Sizes[1]
    BY <2>1, SizesOK DEF Base, ReceiverInv, HandshakeInv
  <2>3. \A f \in File : disk[f] = <<>>
    BY <1>0, <2>1 DEF Filled
  <2>4. Filled'
    <3>1. \A f \in File : ~(f < 1)
      BY SizesOK
    <3>2. disk[1] = Prefix(1, 0)
      BY <2>2, <2>3, PrefixWhole
    <3> QED BY <1>0, <2>1, <2>2, <2>3, <3>1, <3>2 DEF Filled
  <2>5. Resting'
    <3>1. CASE Accepted /\ ~aborted
      <4>1. rHashed = <<>> /\ UNCHANGED rHashed
        BY <3>1 DEF Accepted, Base, SyncInv, Sound
      <4> QED BY <2>1, <2>2, <2>3, <4>1 DEF Resting
    <3>2. CASE ~(Accepted /\ ~aborted)
      BY <2>1, <3>2 DEF Resting
    <3> QED BY <3>1, <3>2
  <2>6. rHashed' \in Chunk
    <3>1. <<>> \in Chunk
      BY DEF Chunk
    <3> QED BY <1>0, <2>1, <3>1
  <2>7. Placing'
    BY <2>1, <2>2 DEF Placing
  <2> QED BY <2>4, <2>5, <2>6, <2>7 DEF LandInv
<1>2. CASE ~ReceiverAccepts
  <2>1. /\ UNCHANGED <<disk, rHashed, index, cursor, pieces, broken>>
        /\ accepting' = accepting \/ (accepting # "yes" /\ accepting' # "yes")
        /\ task' = task \/ (task = "digest" /\ task' \in {"close", "abort"})
        /\ writes' = writes \/ writes' = Append(writes, Head(dataNet))
    BY <1>2 DEF Finish, TailArrives, ReceiverLoss, RChannelsClose, RConnectionFails, AcceptFails,
       DialogDismissed, Decline, RCancel, ChunkArrives, receiverVars, ReceiverControl, OnTransferStart,
       OnFileDone, OnTransferComplete, ROnTransferFailed, RReceive, Verdict
  <2>2. Filled'
    BY <1>0, <2>1 DEF Filled
  <2>3. Placing'
    <3> SUFFICES ASSUME task' # "idle" PROVE Placing'
      BY DEF Placing
    <3>1. task # "idle" /\ Head(writes') = Head(writes)
      <4>1. task # "idle" /\ writes # <<>> /\ writes \in Seq(Chunk)
        BY <2>1 DEF Base, QueueInv
      <4>2. \A c : Head(Append(writes, c)) = Head(writes)
        BY <4>1
      <4> QED BY <2>1, <4>1, <4>2
    <3>2. UNCHANGED PieceBytes
      BY <2>1, <3>1 DEF PieceBytes
    <3> QED BY <1>0, <2>1, <3>1, <3>2 DEF Placing, Landing, Laid
  <2>4. Resting'
    BY <1>0, <2>1 DEF Resting
  <2> QED BY <1>0, <2>1, <2>2, <2>3, <2>4 DEF LandInv
<1> QED BY <1>1, <1>2

LEMMA InitLand == Init => LandInv
<1> SUFFICES ASSUME Init PROVE LandInv
  OBVIOUS
<1>1. index = 1 /\ task = "idle" /\ accepting = "no" /\ rHashed = <<>> /\ disk = [f \in File |-> <<>>]
  BY DEF Init, ReceiverInit
<1>2. 1 \in File /\ 0 \in 0 .. Sizes[1] /\ \A f \in File : ~(f < 1)
  BY SizesOK
<1>3. Prefix(1, 0) = <<>>
  BY <1>2, PrefixWhole
<1> QED BY <1>1, <1>2, <1>3 DEF LandInv, Filled, Placing, Resting, Chunk

LEMMA NextLand == ASSUME Base, Flow, LandInv, [Next]_vars PROVE LandInv'
<1>1. CASE UNCHANGED receiverVars
  BY <1>1, OthersLand DEF receiverVars
<1>2. CASE ReceiverNext
  BY <1>2, AbortedStays, ConsumeLands, PieceLands, CloseLands, NextFileLands, OthersLand
     DEF ReceiverNext, ReceiverMicrotask, ReceiverTask, ReceiverQueue, ReceiverFaults
<1> QED BY <1>1, <1>2 DEF Next, vars

-----------------------------------------------------------------------------
(* nothing out of place, and nothing missing *)

Inv == Base /\ Flow /\ LandInv

LEMMA InitInv == Init => Inv
BY InitBase, InitFlow, InitLand DEF Inv

LEMMA NextInv == Inv /\ [Next]_vars => Inv'
BY NextBase, NextFlow, NextLand DEF Inv

LEMMA SpecInv == Spec => []Inv
BY InitInv, NextInv, PTL DEF Spec

\* BytesInPlace, for every batch and every way of cutting it into chunks: no byte
\* lands in the wrong file, at the wrong place or past the end of a file, whatever
\* the peer sends beyond what it declared and whatever fails.
THEOREM NothingOutOfPlace == Spec => []BytesInPlace
<1>1. Inv => BytesInPlace
  <2> SUFFICES ASSUME Inv, NEW f \in File PROVE IsPrefix(disk[f], Content(f))
    BY DEF BytesInPlace
  <2>1. Filled /\ index \in 1 .. Len(Sizes) + 1
    BY DEF Inv, LandInv, Base, ReceiverInv, HandshakeInv
  <2> DEFINE size == Sizes[f]
  <2>2. size \in Nat /\ f \in Nat /\ index \in Nat
    BY <2>1, SizesOK
  <2>3. PICK n \in 0 .. size : disk[f] = Prefix(f, n)
    <3>1. CASE f < index
      BY <2>1, <2>2, <3>1, PrefixWhole DEF Filled
    <3>2. CASE f > index
      BY <2>1, <2>2, <3>2, PrefixWhole DEF Filled
    <3>3. CASE f = index
      BY <2>1, <3>3 DEF Filled
    <3> QED BY <2>2, <3>1, <3>2, <3>3
  <2>4. /\ Prefix(f, n) \in Seq(Byte) /\ Len(Prefix(f, n)) = n
        /\ Content(f) \in Seq(Byte) /\ Len(Content(f)) = size
    BY <2>2, <2>3, PrefixOK, ContentOK
  <2>5. SubSeq(Content(f), 1, n) = Prefix(f, n)
    <3>1. SubSeq(Content(f), 1, n) = [k \in 1 .. n |-> Content(f)[k]]
      BY <2>2, <2>3, <2>4
    <3>2. \A k \in 1 .. n : Content(f)[k] = <<f, k>>
      BY <2>2, <2>3, ContentOK
    <3> QED BY <3>1, <3>2 DEF Prefix
  <2>6. SubSeq(Prefix(f, n), 1, n) = Prefix(f, n)
    BY <2>3, <2>4
  <2> QED BY <2>2, <2>3, <2>4, <2>5, <2>6 DEF IsPrefix
<1> QED BY <1>1, SpecInv, PTL

\* CompleteIsWhole, where no digest computation is rejected (the one failure that
\* finish() does not look at): a batch that came short, or long, or was damaged by
\* a failed write is never called complete; every file of a complete one is on
\* disk, byte for byte, and was compared with its digest.
THEOREM CompleteHasEveryByte ==
  ASSUME "digest" \notin Events
  PROVE  Spec => []CompleteIsWhole
<1>1. Init => ~broken
  BY DEF Init, ReceiverInit
<1>2. ~broken /\ [Next]_vars => ~broken'
  BY BrokenBy DEF Next, vars
<1>3. Inv /\ ~broken => CompleteIsWhole
  <2> SUFFICES ASSUME Inv, ~broken, verified, NEW f \in File
               PROVE  disk[f] = Content(f) /\ rStatus[f] = "verified"
    BY DEF CompleteIsWhole
  <2>1. index \notin File /\ index \in 1 .. Len(Sizes) + 1
    BY DEF Inv, Base, ReceiverInv, HandshakeInv, OutcomeInv, SyncInv, Closing
  <2>2. f < index
    BY <2>1, SizesOK
  <2> QED BY <2>2 DEF Inv, LandInv, Filled, Base, SyncInv, Rows, Ticked
<1> QED BY <1>1, <1>2, <1>3, SpecInv, PTL DEF Spec

-----------------------------------------------------------------------------
(* an honest batch *)

\* The verdict is finish()'s.  Unless something failed or was asked for, nothing is
\* aborted or closed before it, and finish() waits for the last byte.
HonestInv ==
  /\ verified => finishing = "done"
  /\ spent = 0 =>
       /\ ~aborted /\ ~broken /\ rState \notin {"failed", "senderGone", "declined"}
       /\ ~verified => rOpen /\ ~closed
       /\ task # "abort"
       /\ finishing \in {"writes", "done"} => received = TotalBytes
       /\ finishing = "done" => verified

\* A batch whose chunks are being written is not complete, and its file is open.
LEMMA Writing ==
  ASSUME Base, task # "idle"
  PROVE  ~verified /\ index \in File /\ accepting = "yes" /\ ~broken /\ (~aborted => Stage /\ rHashed \in Chunk)
BY BaseFacts, StillFails DEF QueueFacts, Base, ReceiverInv, OutcomeInv, SyncInv, Sound

\* The bytes counted are those before what is left of the file being received.
LEMMA CountedFits ==
  ASSUME Base, ~aborted, ~broken, accepting = "yes"
  PROVE  /\ received \in Nat /\ received <= TotalBytes
         /\ task \in {"write", "hash"} => received < TotalBytes
<1>1. Stage /\ rHashed \in Chunk /\ CursorOK(cursor) /\ index \in 1 .. Len(Sizes) + 1 /\ task \in Task
  BY DEF Base, SyncInv, Sound, ReceiverInv, HandshakeInv, QueueInv
<1>2. received = FirstBytes[index - 1] + Placed
  BY <1>1 DEF Stage
<1>3. CASE index \notin File
  <2>1. index - 1 = Len(Sizes) /\ Len(Sizes) \in Nat /\ task = "idle"
    BY <1>1, <1>3, SizesOK DEF Base, ReceiverInv, HandshakeInv
  <2>2. Placed = 0
    BY <1>3 DEF Placed
  <2> QED BY <1>2, <2>1, <2>2, StreamIs DEF TotalBytes
<1>4. CASE index \in File
  <2> DEFINE n == Len(rHashed)
  <2>1. n \in Nat /\ index \in Nat /\ Sizes[index] \in Nat /\ Sizes[index] > 0
    BY <1>1, <1>4, SizesOK DEF Chunk
  <2>2. /\ Placed \in Nat /\ Placed <= Sizes[index]
        /\ task \in {"write", "hash"} => Placed < Sizes[index]
    <3>1. CASE task = "idle"
      <4>1. cursor.index = index /\ cursor.inFile = Placed
        BY <1>1, <3>1 DEF Stage, Leaves
      <4>2. cursor.inFile \in Nat /\ cursor.inFile < Sizes[index]
        BY <1>1, <1>4, <4>1 DEF CursorOK
      <4> QED BY <2>1, <3>1, <4>1, <4>2
    <3>2. CASE task \in {"write", "hash"}
      <4>1. pieces # <<>> /\ Cuts(pieces, index, n, Len(Head(writes)), cursor) /\ Placed = n
        BY <1>1, <1>4, <3>2 DEF Stage, Placed
      <4> DEFINE q == Head(pieces)
      <4> HIDE DEF n
      <4>2. q \in Piece /\ q.length > 0 /\ n + q.length <= Sizes[index]
        BY <2>1, <4>1, CutsTail
      <4>3. q.length \in Nat
        BY <4>2 DEF Piece
      <4> HIDE DEF q
      <4> QED BY <2>1, <4>1, <4>2, <4>3
    <3>3. CASE task \in {"final", "digest", "close", "abort"}
      BY <1>1, <1>4, <2>1, <3>3 DEF Stage, Placed
    <3>4. CASE task \in {"open", "init"}
      <4>1. Placed = 0
        BY <1>1, <3>4 DEF Stage, Placed
      <4> QED BY <2>1, <3>4, <4>1
    <3> QED BY <1>1, <3>1, <3>2, <3>3, <3>4 DEF Task
  <2>3. /\ FirstBytes[index] = FirstBytes[index - 1] + Sizes[index] /\ FirstBytes[index] <= TotalBytes
        /\ FirstBytes[index - 1] \in Nat /\ TotalBytes \in Nat
    <3>1. index \in 0 .. Len(Sizes) /\ index - 1 \in 0 .. Len(Sizes)
      BY <1>4, SizesOK
    <3> QED BY <1>4, <3>1, FirstBytesOK, FirstBytesGrow, StreamIs
  <2> HIDE DEF n
  <2> QED BY <1>2, <2>1, <2>2, <2>3
<1> QED BY <1>3, <1>4

\* Going on with pieces of the file that is open fails nothing.
LEMMA AdvanceFailsNothing ==
  ASSUME Base, ~closed, NEW ps, NEW statuses, Advance(ps, statuses),
         index \in File => Held, NEW p \in Nat, NEW c, Cuts(ps, index, p, Len(Head(writes)), c)
  PROVE  UNCHANGED <<rState, aborted, closed, rOpen>> /\ task' \in {"idle", "write"}
<1>1. index \in Nat
  BY SizesOK DEF Base, ReceiverInv, HandshakeInv
<1>2. ps # <<>> => Head(ps).index = index /\ index \in File
  BY <1>1, CutsTail
<1>3. CASE ps = <<>>
  BY <1>3 DEF Advance, ChunkDone
<1>4. CASE ps # <<>>
  <2>1. sink # 0 /\ rHasher
    BY <1>2, <1>4 DEF Held
  <2> QED BY <1>2, <1>4, <2>1 DEF Advance
<1> QED BY <1>3, <1>4

\* A chunk of an honest batch is declared, and its pieces belong to the open file.
LEMMA HonestConsume ==
  ASSUME Base, Flow, HonestInv, ConsumeStart, spent = 0
  PROVE  HonestInv'
<1>1. /\ task = "idle" /\ writes # <<>> /\ accepting = "yes" /\ ~broken /\ ~aborted
      /\ UNCHANGED <<verified, broken, finishing, received, spent>>
  BY BaseFacts DEF ConsumeStart, MustConsume, QueueFacts, HonestInv
<1> DEFINE l == Len(Head(writes))
           split == Split(Sizes, cursor, l)
<1>2. cursor' = split.cur /\ IF split.overflow > 0 THEN FailChunk ELSE Advance(split.pieces, rStatus)
  BY <1>1 DEF ConsumeStart
<1>3. task' \in {"idle", "write"}
  BY <1>2, FailChunkIs, AdvanceIs DEF ChunkEnds
<1>4. UNCHANGED <<rState, aborted, closed, rOpen>>
  <2>1. CASE verified
    <3>1. rState = "complete"
      BY <2>1 DEF Base, ReceiverInv, OutcomeInv
    <3> HIDE DEF split
    <3> QED BY <1>2, <3>1 DEF FailChunk, RFail, RFailFrom, Advance
  <2>2. CASE ~verified
    <3>1. ~closed /\ Stage
      BY <1>1, <2>2 DEF HonestInv, Base, SyncInv, Sound
    <3>2. /\ cursor.index = index /\ cursor.inFile = Placed /\ (index \in File => Held)
          /\ CursorOK(cursor) /\ Counted(cursor) /\ writes \in Seq(Chunk)
      BY <1>1, <3>1 DEF Stage, Leaves, Base, SyncInv, Flow, QueueInv
    <3>3. l \in Nat /\ cursor.total \in Nat /\ cursor.inFile \in Nat
      <4>1. Head(writes) \in Chunk
        BY <1>1, <3>2, TailOK
      <4> QED BY <3>2, <4>1 DEF Chunk, CursorOK
    <3>4. cursor.total + l <= TotalBytes
      <4>1. PICK e : Flows(e)
        BY <1>1, <2>2 DEF Flow, Going
      <4>2. PICK m : Lies(writes, cursor.total, m) /\ Lies(dataNet, m, e)
        BY <1>1, <4>1 DEF Flows, Queue
      <4>3. cursor.total + l <= m
        BY <1>1, <3>2, <4>2, LiesTail
      <4>4. m \in Nat /\ e \in Nat /\ m <= e
        BY <4>2, LiesEnds DEF Base, QueueInv
      <4>5. e <= TotalBytes
        BY <1>1, <4>1 DEF Flows
      <4> HIDE DEF l
      <4> QED BY <3>3, <4>3, <4>4, <4>5, StreamIs
    <3> HIDE DEF l
    <3>5. /\ Cuts(split.pieces, cursor.index, cursor.inFile, l, split.cur) /\ split.overflow \in 0 .. l
          /\ split.overflow > 0 => cursor.total + l > TotalBytes
      BY <3>2, <3>3, SplitOK, SplitFits
    <3> HIDE DEF split
    <3>6. ~(split.overflow > 0)
      BY <3>3, <3>4, <3>5, StreamIs
    <3>7. Advance(split.pieces, rStatus) /\ Cuts(split.pieces, index, cursor.inFile, l, split.cur)
      BY <1>2, <3>2, <3>5, <3>6
    <3> QED BY <3>1, <3>2, <3>3, <3>7, AdvanceFailsNothing DEF l
  <2> QED BY <2>1, <2>2
<1> HIDE DEF split, l
<1> QED BY <1>1, <1>3, <1>4 DEF HonestInv

\* The chunk being consumed fits, its file is open and its digest is the announced one.
LEMMA HonestQueue ==
  ASSUME Base, LandInv, HonestInv, ReceiverQueue, spent = 0
  PROVE  HonestInv'
<1>1. /\ task # "idle" /\ task # "abort" /\ UNCHANGED <<verified, broken, finishing, spent, accepting>>
  BY DEF HonestInv, ReceiverQueue, PieceWritten, PieceHashed, DigestComputed, Mismatch, FileCloses,
         NextFileOpens, NextFileReady
<1>2. /\ ~verified /\ index \in File /\ accepting = "yes" /\ ~broken /\ Stage /\ rHashed \in Chunk
      /\ ~aborted /\ ~closed /\ rState \notin {"failed", "senderGone", "declined"}
      /\ finishing # "done"
  BY <1>1, Writing DEF HonestInv
<1>3. Len(rHashed) \in Nat
  BY <1>2 DEF Chunk
<1>4. ASSUME UNCHANGED <<rState, aborted, closed, rOpen, received>>, task' # "abort" PROVE HonestInv'
  BY <1>1, <1>2, <1>4 DEF HonestInv
<1>5. CASE PieceWritten
  <2>1. task = "write" /\ rHasher
    BY <1>2, <1>5 DEF PieceWritten, Stage, Held
  <2> QED BY <1>4, <1>5, <2>1 DEF PieceWritten, failing
<1>6. CASE PieceHashed
  <2>1. task = "hash" /\ Cuts(pieces, index, Len(rHashed), Len(Head(writes)), cursor) /\ pieces # <<>> /\ Held
    BY <1>2, <1>6 DEF PieceHashed, Stage
  <2>2. finishing # "writes"
    BY <1>2, <2>1, CountedFits DEF HonestInv
  <2>3. UNCHANGED <<rState, aborted, closed, rOpen>> /\ task' # "abort"
    <3>1. CASE Head(pieces).endsFile
      BY <1>6, <3>1 DEF PieceHashed, failing
    <3>2. CASE ~Head(pieces).endsFile
      <4>1. Tail(pieces) = <<>>
        BY <2>1, <3>2, PieceIs
      <4> QED BY <1>6, <3>2, <4>1 DEF PieceHashed, Advance, ChunkDone
    <3> QED BY <3>1, <3>2
  <2> QED BY <1>1, <1>2, <2>2, <2>3 DEF HonestInv
<1>7. CASE DigestComputed
  <2>1. task = "final" /\ rHashed = Content(index) /\ digests[index] \in {<<>>, Content(index)}
    BY <1>2, <1>7 DEF DigestComputed, LandInv, Placing, Base, PeerInv
  <2> QED BY <1>4, <1>7, <2>1 DEF DigestComputed, Verdict
<1>8. CASE Mismatch
  BY <1>1, <1>8 DEF Mismatch
<1>9. CASE FileCloses
  BY <1>4, <1>9 DEF FileCloses, ChunkDone
<1>10. CASE NextFileOpens
  BY <1>4, <1>10 DEF NextFileOpens
<1>11. CASE NextFileReady
  <2>1. task = "init" /\ Advance(Tail(pieces), [rStatus EXCEPT ![index] = "receiving"]) /\ UNCHANGED received
    BY <1>11 DEF NextFileReady
  <2>2. Held /\ Cuts(Tail(pieces), index, 0, Len(Head(writes)), cursor)
    BY <1>2, <2>1 DEF Stage
  <2>3. UNCHANGED <<rState, aborted, closed, rOpen>> /\ task' \in {"idle", "write"}
    BY <1>2, <2>1, <2>2, AdvanceFailsNothing
  <2> QED BY <1>4, <2>1, <2>3
<1> QED BY <1>5, <1>6, <1>7, <1>8, <1>9, <1>10, <1>11 DEF ReceiverQueue

\* finish() goes on when every byte is counted.
LEMMA HonestFinish ==
  ASSUME Base, HonestInv, Finish \/ TailArrives, spent = 0, spent' = 0
  PROVE  HonestInv'
<1>1. finishing \in {"tail", "writes"} /\ ~verified /\ ~aborted /\ ~broken /\ rOpen /\ ~closed /\ accepting = "yes"
  BY DEF HonestInv, Finish, MustFinish, TailArrives, Base, ReceiverInv, HandshakeInv
<1>2. CASE Finish
  <2>1. received = TotalBytes
    BY <1>2 DEF HonestInv, Finish, MustFinish
  <2> QED BY <1>1, <1>2, <2>1 DEF Finish, HonestInv
<1>3. CASE TailArrives
  <2>1. ~NothingMore
    BY <1>1 DEF NothingMore, Base, PeerInv
  <2>2. received >= TotalBytes
    BY <1>1, <1>3, <2>1 DEF TailArrives, Happens
  <2>3. received = TotalBytes
    BY <1>1, <2>2, CountedFits, StreamIs
  <2>4. UNCHANGED <<verified, rState, aborted, closed, rOpen, broken, task, received>> /\ finishing' = "writes"
    BY <1>3 DEF TailArrives, failing
  <2> QED BY <1>1, <2>3, <2>4 DEF HonestInv
<1> QED BY <1>2, <1>3

\* The peer neither fails nor goes away, and what it announces is the digest.
LEMMA HonestOthers ==
  ASSUME Base, LandInv, HonestInv, ChunkArrives \/ ReceiverControl \/ ReceiverAccepts \/ ReceiverLoss, spent = 0
  PROVE  HonestInv'
<1>1. CASE ChunkArrives
  BY <1>1 DEF ChunkArrives, HonestInv
<1>2. CASE ReceiverLoss
  BY <1>2 DEF ReceiverLoss, RChannelsClose, RConnectionFails, ReceiverAlone, Base, PeerInv
<1>3. CASE ReceiverAccepts
  <2>1. finishing = "no" /\ task = "idle" /\ ~verified
    BY <1>3 DEF ReceiverAccepts, Accept, DestinationOpens, FirstFileOpens, Accepted, Base, ReceiverInv,
       HandshakeInv, OutcomeInv
  <2>2. /\ UNCHANGED <<finishing, task, verified, aborted, broken, closed, rOpen>>
        /\ rState' \in {rState, "receiving"} /\ spent' = spent
    BY <1>3 DEF ReceiverAccepts, Accept, DestinationOpens, FirstFileOpens, Accepted, failing, queueing
  <2> QED BY <2>1, <2>2 DEF HonestInv
<1>4. CASE ReceiverControl
  <2>1. toReceiver # <<>> /\ Head(toReceiver) \in PeerMsg
    BY <1>4, TailOK DEF ReceiverControl, OnTransferStart, OnFileDone, OnTransferComplete, ROnTransferFailed,
       RReceive, Base, PeerInv
  <2>2. ~ROnTransferFailed /\ ~OnTransferStart
    BY <2>1, PeerMsgOK DEF ROnTransferFailed, OnTransferStart, RReceive
  <2>3. CASE OnFileDone
    <3>1. /\ task' = IF task = "digest" /\ Head(toReceiver).file = index /\ Head(toReceiver).sha # <<>>
                     THEN Verdict(Head(toReceiver).sha) ELSE task
          /\ Head(toReceiver).type = "FILE_DONE"
      BY <2>3 DEF OnFileDone, RReceive
    <3>2. Head(toReceiver).sha = Content(Head(toReceiver).file)
      BY <2>1, <3>1, PeerMsgOK
    <3>3. task = "digest" => rHashed = Content(index)
      BY DEF LandInv, Placing
    <3>4. task' = task \/ task' = "close"
      BY <3>1, <3>2, <3>3 DEF Verdict
    <3> QED BY <2>3, <3>4 DEF OnFileDone, RReceive, failing, HonestInv
  <2>4. CASE OnTransferComplete
    BY <2>4 DEF OnTransferComplete, RReceive, HonestInv
  <2> QED BY <1>4, <2>2, <2>3, <2>4 DEF ReceiverControl
<1> QED BY <1>1, <1>2, <1>3, <1>4

\* Every failure, and every choice against the batch, is an event.
LEMMA FaultsSpend ==
  ASSUME Base, HonestInv, ReceiverFaults
  PROVE  spent' # 0
<1>0. spent \in Nat
  BY DEF Base, PeerInv
<1>1. (\E k : Happens(k)) => spent' # 0
  BY <1>0 DEF Happens
<1>2. CASE CloseFails
  <2>1. ASSUME spent = 0 PROVE fate[index] # "discarded"
    <3>1. task = "close" /\ index \in File /\ ~verified
      BY <1>2, Writing DEF CloseFails
    <3> QED BY <2>1, <3>1 DEF HonestInv, Base, SyncInv, Sound
  <2> QED BY <1>0, <1>1, <1>2, <2>1 DEF CloseFails
<1>3. CASE ~CloseFails
  BY <1>1, <1>3 DEF ReceiverFaults, PieceFails, DigestFails, NextFileFails, AcceptFails, DialogDismissed,
     Decline, RCancel
<1> QED BY <1>2, <1>3

\* verified is only set by finish(), which ends with it.
LEMMA VerdictIsLast ==
  ASSUME ReceiverNext, verified => finishing = "done"
  PROVE  verified' => finishing' = "done"
BY DEF ReceiverNext, ReceiverMicrotask, ReceiverTask, ReceiverQueue, ReceiverFaults, ReceiverControl,
       ReceiverAccepts, ReceiverLoss, ConsumeStart, Finish, ChunkArrives, TailArrives,
       PieceWritten, PieceHashed, DigestComputed, Mismatch, FileCloses, NextFileOpens, NextFileReady,
       OnTransferStart, OnFileDone, OnTransferComplete, ROnTransferFailed, RReceive, Accept,
       DestinationOpens, FirstFileOpens, Accepted, RChannelsClose, RConnectionFails, losing, queueing,
       PieceFails, DigestFails, CloseFails, NextFileFails, AcceptFails, DialogDismissed, Decline, RCancel

LEMMA NextHonest == ASSUME Base, Flow, LandInv, HonestInv, [Next]_vars PROVE HonestInv'
<1>1. CASE (PeerStep /\ UNCHANGED receiverVars) \/ UNCHANGED vars
  <2>1. UNCHANGED rOpen /\ UNCHANGED receiverVars /\ (spent' = 0 => spent = 0)
    <3>1. spent \in Nat
      BY DEF Base, PeerInv
    <3>2. CASE UNCHANGED vars
      BY <3>2 DEF vars, channelVars
    <3>3. CASE PeerStep /\ UNCHANGED receiverVars
      <4>1. UNCHANGED rOpen /\ (spent' = spent \/ spent' = spent + 1)
        BY <3>3 DEF PeerStep, PeerReads, PeerSends, PeerAnnounces, PeerEnds, Happens
      <4> QED BY <3>1, <3>3, <4>1
    <3> QED BY <1>1, <3>2, <3>3
  <2> QED BY <2>1 DEF HonestInv, receiverVars
<1>2. CASE ReceiverNext
  <2>1. spent' = 0 => spent = 0
    BY <1>2, SpentOnce DEF Base, PeerInv
  <2>2. CASE spent' = 0
    BY <1>2, <2>1, <2>2, HonestConsume, HonestQueue, HonestFinish, HonestOthers, FaultsSpend
       DEF ReceiverNext, ReceiverMicrotask, ReceiverTask
  <2>3. CASE spent' # 0
    BY <1>2, <2>3, VerdictIsLast DEF HonestInv
  <2> QED BY <2>2, <2>3
<1> QED BY <1>1, <1>2 DEF Next

LEMMA InitHonest == Init => HonestInv
BY DEF Init, ChannelsInit, ReceiverInit, HonestInv

\* NeverOutOfStep: a batch nobody stopped, sent whole and saved without a failure,
\* is never called failed, however its chunks fall on the files.
THEOREM HonestNeverFails == Spec => []NeverOutOfStep
<1>1. Inv /\ HonestInv /\ [Next]_vars => HonestInv'
  BY NextHonest DEF Inv
<1>2. Inv /\ HonestInv => NeverOutOfStep
  BY DEF Inv, Base, PeerInv, HonestInv, NeverOutOfStep
<1> QED BY <1>1, <1>2, InitHonest, SpecInv, PTL DEF Spec

=============================================================================
