-------------------------- MODULE BufReaderProofs --------------------------
(***************************************************************************)
(* Proofs about BufReader, for any sizes of the arrays, any source and any *)
(* counts that callers pass.                                               *)
(***************************************************************************)
EXTENDS BufReader, TLAPS

\* Time for each leaf of the proofs.
USE SMTT(30), ZenonT(20)

Buffers == [data : Seq(Nat), off : Nat, cap : Nat]

\* The unread bytes of buffer x are the last ones before position q of the source, and
\* they lie within its array.
Holds(x, q) ==
  /\ x \in Buffers /\ End(x) <= x.cap
  /\ Size(x) <= q /\ x.data = Bytes(q - Size(x), Size(x))

\* The size of the array a buffer starts with.
FirstCap == IF use = "frame" THEN FrameSize ELSE BufSize

\* Where Discard and InOutStream.Skip stand: what they have still to skip takes them to
\* the position they aim at, or, for Skip, not beyond it.  ReadByte has room to read.
CallInv ==
  /\ op = "readbyte" => Room(b) > 0
  /\ op = "discard" => Size(b) = 0 /\ from = Position + want
  /\ op = "skip" => Position + want <= from

\* The message of a frame has its space before it, or it has come close to the size the
\* frame was made for.
FrameInv ==
  use = "frame" /\ pc = "idle" =>
    \/ b.off = Prefix /\ b.cap = FrameSize
    \/ Prefix + Size(b) + VarRoom >= FrameSize

\* What a use of the buffer cannot be in.
UseInv ==
  /\ pc = "fill" => use \in {"read", "stream"}
  /\ pc = "recycled" => use = "frame"

IInv ==
  /\ TypeOK /\ Holds(b, src) /\ FirstCap <= b.cap
  /\ CallInv /\ FrameInv /\ UseInv

-----------------------------------------------------------------------------
(* The bytes of the stream.                                                *)

\* The bytes after a position, one by one.
LEMMA BytesSeq ==
  ASSUME NEW p \in Nat, NEW k \in Nat
  PROVE  /\ Bytes(p, k) \in Seq(Nat) /\ Len(Bytes(p, k)) = k
         /\ \A i \in 1..k : Bytes(p, k)[i] = p + i
  BY DEF Bytes

\* A sequence of the consecutive positions after p.
LEMMA IsBytes ==
  ASSUME NEW p \in Nat, NEW s \in Seq(Nat), \A i \in 1..Len(s) : s[i] = p + i
  PROVE  s = Bytes(p, Len(s))
<1>1. Len(s) \in Nat /\ DOMAIN s = 1..Len(s) /\ s = [i \in 1..Len(s) |-> s[i]]
  OBVIOUS
<1> QED  BY <1>1 DEF Bytes

\* Taking n bytes from the front.
LEMMA BytesCut ==
  ASSUME NEW p \in Nat, NEW k \in Nat, NEW n \in 0..k
  PROVE  /\ SubSeq(Bytes(p, k), n + 1, k) = Bytes(p + n, k - n)
         /\ SubSeq(Bytes(p, k), n + 1, k) \in Seq(Nat)
         /\ Len(SubSeq(Bytes(p, k), n + 1, k)) = k - n
         /\ SubSeq(Bytes(p, k), 1, n) = Bytes(p, n)
<1> DEFINE s == Bytes(p, k)
           u == SubSeq(s, n + 1, k)
           v == SubSeq(s, 1, n)
<1>1. s \in Seq(Nat) /\ Len(s) = k /\ \A i \in 1..k : s[i] = p + i
  BY BytesSeq
<1> HIDE DEF s
<1>2. u \in Seq(Nat) /\ Len(u) = k - n /\ \A i \in 1..(k - n) : u[i] = s[n + i]
  BY <1>1
<1>3. v \in Seq(Nat) /\ Len(v) = n /\ \A i \in 1..n : v[i] = s[i]
  BY <1>1
<1> HIDE DEF u, v
<1>4. \A i \in 1..Len(u) : u[i] = (p + n) + i
  <2>1. ASSUME NEW i \in 1..(k - n)
        PROVE  u[i] = (p + n) + i
    <3>1. n + i \in 1..k
      OBVIOUS
    <3>2. s[n + i] = p + (n + i)
      BY <3>1, <1>1
    <3> QED  BY <3>2, <1>2
  <2> QED  BY <2>1, <1>2
<1>5. \A i \in 1..Len(v) : v[i] = p + i
  <2>1. ASSUME NEW i \in 1..n
        PROVE  v[i] = p + i
    <3>1. i \in 1..k
      OBVIOUS
    <3> QED  BY <3>1, <1>1, <1>3
  <2> QED  BY <2>1, <1>3
<1>6. u = Bytes(p + n, Len(u)) /\ v = Bytes(p, Len(v))
  BY <1>2, <1>3, <1>4, <1>5, IsBytes
<1> QED  BY <1>2, <1>3, <1>6 DEF u, v, s

\* What a concatenation is, one by one.
LEMMA Joined ==
  ASSUME NEW s \in Seq(Nat), NEW u \in Seq(Nat)
  PROVE  /\ s \o u \in Seq(Nat) /\ Len(s \o u) = Len(s) + Len(u)
         /\ (\A i \in 1..Len(s) : (s \o u)[i] = s[i])
         /\ \A i \in 1..(Len(s) + Len(u)) : ~(i <= Len(s)) => (s \o u)[i] = u[i - Len(s)]
  OBVIOUS

\* The next n bytes at the end.
LEMMA BytesMore ==
  ASSUME NEW p \in Nat, NEW k \in Nat, NEW n \in Nat
  PROVE  Bytes(p, k) \o Bytes(p + k, n) = Bytes(p, k + n)
<1> DEFINE s == Bytes(p, k)
           u == Bytes(p + k, n)
           v == s \o u
<1>0. s \in Seq(Nat) /\ Len(s) = k /\ \A i \in 1..k : s[i] = p + i
  BY BytesSeq
<1>1. u \in Seq(Nat) /\ Len(u) = n /\ \A i \in 1..n : u[i] = (p + k) + i
  <2>1. p + k \in Nat
    OBVIOUS
  <2> QED  BY <2>1, BytesSeq
<1> HIDE DEF s, u
<1>2. /\ v \in Seq(Nat) /\ Len(v) = k + n
      /\ (\A i \in 1..k : v[i] = s[i])
      /\ \A i \in 1..(k + n) : ~(i <= k) => v[i] = u[i - k]
  BY <1>0, <1>1, Joined, Zenon
<1> HIDE DEF v
<1>3. ASSUME NEW i \in 1..(k + n)
      PROVE  v[i] = p + i
  <2>1. CASE i <= k
    BY <2>1, <1>0, <1>2
  <2>2. CASE ~(i <= k)
    <3>1. i - k \in 1..n
      BY <2>2
    <3>2. u[i - k] = (p + k) + (i - k)
      BY <3>1, <1>1
    <3> QED  BY <2>2, <3>2, <1>2
  <2> QED  BY <2>1, <2>2
<1>4. v = Bytes(p, Len(v))
  BY <1>2, <1>3, IsBytes
<1> QED  BY <1>2, <1>4 DEF s, u, v

-----------------------------------------------------------------------------
(* What the methods of Buffer keep.                                        *)

\* The larger of two numbers.
LEMMA MaxOfTwo ==
  ASSUME NEW m \in Int, NEW n \in Int
  PROVE  Max({m, n}) \in {m, n} /\ Max({m, n}) >= m /\ Max({m, n}) >= n
<1>1. \E x \in {m, n} : \A y \in {m, n} : x >= y
  OBVIOUS
<1> QED  BY <1>1 DEF Max

\* The smaller of two numbers.
LEMMA MinOfTwo ==
  ASSUME NEW m \in Int, NEW n \in Int
  PROVE  Min({m, n}) \in {m, n} /\ Min({m, n}) <= m /\ Min({m, n}) <= n
<1>1. \E x \in {m, n} : \A y \in {m, n} : x <= y
  OBVIOUS
<1> QED  BY <1>1 DEF Min

\* Another array for the same bytes.
LEMMA HoldsMoved ==
  ASSUME NEW x, NEW q \in Nat, Holds(x, q), NEW y \in Buffers,
         y.data = x.data, End(y) <= y.cap
  PROVE  Holds(y, q) /\ Size(y) = Size(x)
  BY DEF Holds, Size

\* What it means, in numbers, that a buffer holds a part of the stream.
LEMMA HoldsTypes ==
  ASSUME NEW x, NEW q \in Nat, Holds(x, q)
  PROVE  /\ x \in Buffers /\ x.data \in Seq(Nat) /\ x.off \in Nat /\ x.cap \in Nat
         /\ Size(x) \in Nat /\ End(x) = x.off + Size(x) /\ End(x) <= x.cap
         /\ Size(x) <= q /\ Room(x) = x.cap - End(x) /\ Room(x) \in Nat
         /\ Size(x) <= x.cap /\ x.data = Bytes(q - Size(x), Size(x))
<1>1. x \in Buffers /\ x.data \in Seq(Nat) /\ x.off \in Nat /\ x.cap \in Nat
  BY DEF Holds, Buffers
<1>2. Size(x) \in Nat /\ End(x) = x.off + Size(x) /\ Room(x) = x.cap - End(x)
  BY <1>1 DEF Size, End, Room
<1>3. End(x) <= x.cap /\ Size(x) <= q /\ x.data = Bytes(q - Size(x), Size(x))
  BY DEF Holds
<1> QED  BY <1>1, <1>2, <1>3

\* An emptied buffer still ends where the source is.
LEMMA HoldsClear ==
  ASSUME NEW x, NEW q \in Nat, Holds(x, q)
  PROVE  Holds(Clear(x), q) /\ Size(Clear(x)) = 0 /\ Clear(x).cap = x.cap /\ Clear(x).off = 0
<1>1. x \in Buffers /\ x.cap \in Nat
  BY HoldsTypes
<1>2. <<>> \in Seq(Nat)
  OBVIOUS
<1>3. Clear(x) \in Buffers /\ Clear(x).data = <<>> /\ Clear(x).off = 0 /\ Clear(x).cap = x.cap
  BY <1>1, <1>2, Zenon DEF Buffers, Clear
<1>4. Size(Clear(x)) = 0 /\ End(Clear(x)) = 0
  BY <1>3 DEF Size, End
<1>5. Bytes(q - 0, 0) = <<>>
  BY DEF Bytes
<1> QED  BY <1>1, <1>3, <1>4, <1>5 DEF Holds

\* Compact moves the bytes to the start of the array and changes none.
LEMMA HoldsCompact ==
  ASSUME NEW x, NEW q \in Nat, Holds(x, q)
  PROVE  /\ Holds(Compact(x), q) /\ Size(Compact(x)) = Size(x)
         /\ Compact(x).cap = x.cap /\ Compact(x).off = 0 /\ Compact(x).data = x.data
<1>1. x \in Buffers /\ x.cap \in Nat /\ x.data \in Seq(Nat) /\ Size(x) <= x.cap /\ Size(x) \in Nat
  BY HoldsTypes
<1>2. Compact(x) = [data |-> x.data, off |-> 0, cap |-> x.cap]
  BY <1>1 DEF Compact, Buffers
<1>3. Compact(x) \in Buffers /\ Compact(x).data = x.data /\ Compact(x).off = 0 /\ Compact(x).cap = x.cap
  BY <1>1, <1>2 DEF Buffers
<1>4. End(Compact(x)) <= Compact(x).cap
  BY <1>1, <1>3 DEF End, Size
<1> QED  BY <1>3, <1>4, HoldsMoved

\* Consuming bytes takes them from the front.
LEMMA HoldsConsume ==
  ASSUME NEW x, NEW q \in Nat, Holds(x, q), NEW n \in 0..Size(x)
  PROVE  /\ Holds(Consume(x, n), q) /\ Size(Consume(x, n)) = Size(x) - n
         /\ Consume(x, n).cap = x.cap /\ SubSeq(x.data, 1, n) = Bytes(q - Size(x), n)
<1>1. /\ x \in Buffers /\ x.data \in Seq(Nat) /\ x.off \in Nat /\ x.cap \in Nat
      /\ Size(x) \in Nat /\ x.off + Size(x) <= x.cap
      /\ Size(x) <= q /\ x.data = Bytes(q - Size(x), Size(x))
  BY HoldsTypes
<1>2. PICK k, p : k = Size(x) /\ p = q - Size(x)
  OBVIOUS
<1>3. p \in Nat /\ k \in Nat /\ n \in 0..k /\ Len(x.data) = k /\ x.data = Bytes(p, k)
  BY <1>1, <1>2 DEF Size
<1> DEFINE d == SubSeq(x.data, n + 1, k)
<1>4. d = Bytes(p + n, k - n) /\ d \in Seq(Nat) /\ Len(d) = k - n
      /\ SubSeq(x.data, 1, n) = Bytes(p, n)
  <2>1. /\ SubSeq(Bytes(p, k), n + 1, k) = Bytes(p + n, k - n)
        /\ SubSeq(Bytes(p, k), n + 1, k) \in Seq(Nat)
        /\ Len(SubSeq(Bytes(p, k), n + 1, k)) = k - n
        /\ SubSeq(Bytes(p, k), 1, n) = Bytes(p, n)
    BY <1>3, BytesCut, Zenon
  <2>2. x.data = Bytes(p, k)
    BY <1>3
  <2> QED  BY ONLY <2>1, <2>2, Zenon
<1>5. Consume(x, n) = [x EXCEPT !.data = d, !.off = x.off + n]
  BY <1>1, <1>3, Zenon DEF Consume, Buffers
<1> HIDE DEF d
<1>6. /\ Consume(x, n) \in Buffers /\ Consume(x, n).data = d /\ Consume(x, n).off = x.off + n
      /\ Consume(x, n).cap = x.cap
  <2>1. x.off + n \in Nat /\ d \in Seq(Nat) /\ x \in Buffers
    BY <1>1, <1>4
  <2>2. PICK o : o = x.off + n
    OBVIOUS
  <2> QED  BY ONLY <2>1, <2>2, <1>5, Zenon DEF Buffers
<1>7. Size(Consume(x, n)) = k - n /\ End(Consume(x, n)) = (x.off + n) + (k - n)
  BY <1>4, <1>6 DEF Size, End
<1>8. q - (k - n) = p + n /\ k - n <= q /\ (x.off + n) + (k - n) <= x.cap
  BY <1>1, <1>2, <1>3
<1> QED  BY <1>2, <1>4, <1>6, <1>7, <1>8 DEF Holds

\* n more bytes of the source, where there is room for them.
LEMMA HoldsMore ==
  ASSUME NEW x, NEW q \in Nat, Holds(x, q), NEW n \in Nat, n <= Room(x)
  PROVE  LET y == [x EXCEPT !.data = @ \o Bytes(q, n)] IN
         Holds(y, q + n) /\ Size(y) = Size(x) + n /\ y.cap = x.cap /\ y.off = x.off
<1> DEFINE y == [x EXCEPT !.data = @ \o Bytes(q, n)]
<1>1. /\ x \in Buffers /\ x.data \in Seq(Nat) /\ x.off \in Nat /\ x.cap \in Nat
      /\ Size(x) \in Nat /\ x.off + Size(x) + n <= x.cap
      /\ Size(x) <= q /\ x.data = Bytes(q - Size(x), Size(x))
  BY HoldsTypes
<1>2. PICK k, p : k = Size(x) /\ p = q - Size(x)
  OBVIOUS
<1>3. p \in Nat /\ k \in Nat /\ p + k = q /\ x.data = Bytes(p, k) /\ k + n \in Nat
  BY <1>1, <1>2
<1>4. x.data \o Bytes(q, n) = Bytes(p, k + n)
  <2>1. Bytes(p, k) \o Bytes(p + k, n) = Bytes(p, k + n)
    BY <1>3, BytesMore, Zenon
  <2> QED  BY ONLY <2>1, <1>3, Zenon
<1>5. Bytes(p, k + n) \in Seq(Nat) /\ Len(Bytes(p, k + n)) = k + n
  BY <1>3, BytesSeq, Zenon
<1>6. y \in Buffers /\ y.data = Bytes(p, k + n) /\ y.off = x.off /\ y.cap = x.cap
  BY <1>1, <1>4, <1>5, Zenon DEF Buffers
<1> HIDE DEF y
<1>7. Size(y) = k + n /\ End(y) = x.off + (k + n)
  BY <1>5, <1>6 DEF Size, End
<1>8. (q + n) - (k + n) = p /\ k + n <= q + n /\ x.off + (k + n) <= x.cap
  <2>1. PICK o, m : o = x.off /\ m = x.cap
    OBVIOUS
  <2>2. o \in Nat /\ m \in Nat /\ o + k + n <= m
    BY <2>1, <1>1, <1>2
  <2> QED  BY ONLY <2>1, <2>2, <1>3, n \in Nat, q \in Nat
<1>9. Holds(y, q + n)
  BY <1>6, <1>7, <1>8 DEF Holds
<1> QED  BY <1>2, <1>6, <1>7, <1>9 DEF y

\* A larger array.
LEMMA HoldsGrown ==
  ASSUME NEW x, NEW q \in Nat, Holds(x, q), NEW m \in Nat, x.cap <= m
  PROVE  LET y == [data |-> x.data, off |-> 0, cap |-> m] IN
         /\ Holds(y, q) /\ Size(y) = Size(x) /\ y.off = 0 /\ y.cap = m
         /\ Room(y) = m - Size(x)
<1> DEFINE y == [data |-> x.data, off |-> 0, cap |-> m]
<1>1. x.data \in Seq(Nat) /\ x.cap \in Nat /\ Size(x) \in Nat /\ Size(x) <= x.cap
  BY HoldsTypes
<1>2. y \in Buffers /\ y.data = x.data /\ y.off = 0 /\ y.cap = m
  BY <1>1 DEF Buffers
<1> HIDE DEF y
<1>3. Size(y) = Size(x) /\ End(y) = Size(x) /\ Room(y) = m - Size(x)
  BY <1>1, <1>2 DEF Size, End, Room
<1>4. Holds(y, q)
  BY <1>1, <1>2, <1>3, HoldsMoved
<1> QED  BY <1>2, <1>3, <1>4 DEF y

\* grow keeps the bytes; what it returns has room for n more unless n is longer than the
\* array was.
LEMMA HoldsGrow ==
  ASSUME NEW x, NEW q \in Nat, Holds(x, q), NEW n \in Int
  PROVE  /\ Holds(grow(x, n), q) /\ Size(grow(x, n)) = Size(x) /\ x.cap <= grow(x, n).cap
         /\ n <= x.cap \/ Size(x) = 0 => n <= Room(grow(x, n))
         /\ grow(x, n) = x \/ Room(x) <= n
<1> DEFINE m == Max({n, 2 * x.cap})
<1>1. x.cap \in Nat /\ Room(x) \in Nat /\ Size(x) \in Nat /\ Size(x) <= x.cap
  BY HoldsTypes
<1>2. CASE Room(x) > n
  <2>1. grow(x, n) = x
    BY <1>2 DEF grow
  <2> QED  BY <1>1, <1>2, <2>1
<1>3. CASE ~(Room(x) > n)
  <2>1. m \in Nat /\ x.cap <= m /\ 2 * x.cap <= m /\ n <= m
    <3>1. 2 * x.cap \in Int /\ 2 * x.cap >= x.cap /\ 2 * x.cap >= 0
      BY <1>1
    <3>2. m \in {n, 2 * x.cap} /\ m >= 2 * x.cap /\ m >= n
      BY <3>1, MaxOfTwo, Zenon
    <3> HIDE DEF m
    <3>3. m \in Int
      BY <3>1, <3>2
    <3> QED  BY <3>1, <3>2, <3>3, <1>1
  <2>2. grow(x, n) = [data |-> x.data, off |-> 0, cap |-> m]
    BY <1>3 DEF grow
  <2> HIDE DEF m
  <2>3. /\ Holds(grow(x, n), q) /\ Size(grow(x, n)) = Size(x) /\ grow(x, n).cap = m
        /\ Room(grow(x, n)) = m - Size(x)
    BY <2>1, <2>2, HoldsGrown
  <2>4. n <= x.cap \/ Size(x) = 0 => n <= m - Size(x)
    BY <1>1, <2>1
  <2> QED  BY <1>1, <1>3, <2>1, <2>3, <2>4
<1> QED  BY <1>2, <1>3

\* Fill leaves the bytes as they are before it reads.
LEMMA HoldsPrepared ==
  ASSUME NEW x, NEW q \in Nat, Holds(x, q), NEW i \in Nat
  PROVE  /\ Holds(Prepared(x, i), q) /\ Size(Prepared(x, i)) = Size(x)
         /\ x.cap <= Prepared(x, i).cap
         /\ i = 0 /\ Size(x) = 0 => Room(Prepared(x, i)) > 0
<1> DEFINE y == IF Size(x) = 0 THEN Compact(x) ELSE x
<1>1. Holds(y, q) /\ Size(y) = Size(x) /\ y.cap = x.cap /\ x.cap \in Nat /\ y.off \in Nat
  <2>1. x.cap \in Nat /\ x.off \in Nat
    BY HoldsTypes
  <2> QED  BY <2>1, HoldsCompact
<1> HIDE DEF y
<1>2. Prepared(x, i) \in {y, grow(y, MinRoom), grow(y, i - y.off)}
  BY DEF Prepared, y
<1>3. ASSUME NEW n \in Int
      PROVE  Holds(grow(y, n), q) /\ Size(grow(y, n)) = Size(x) /\ x.cap <= grow(y, n).cap
  BY <1>1, HoldsGrow, Zenon
<1>4. MinRoom \in Int /\ i - y.off \in Int
  BY <1>1, BufReaderAssumption
<1>5. ASSUME i = 0, Size(x) = 0
      PROVE  Room(Prepared(x, i)) > 0
  <2>1. CASE Room(y) < MinRoom
    <3>1. Prepared(x, i) = grow(y, MinRoom)
      BY <2>1, <1>5 DEF Prepared, y
    <3>2. MinRoom <= Room(grow(y, MinRoom)) /\ Room(grow(y, MinRoom)) \in Nat
      BY <1>1, <1>3, <1>4, <1>5, HoldsGrow, HoldsTypes, Zenon
    <3> QED  BY <3>1, <3>2, BufReaderAssumption
  <2>2. CASE ~(Room(y) < MinRoom)
    <3>1. Prepared(x, i) = y
      BY <2>2, <1>5 DEF Prepared, y
    <3>2. Room(y) \in Nat
      BY <1>1, HoldsTypes
    <3> QED  BY <2>2, <3>1, <3>2, BufReaderAssumption
  <2> QED  BY <2>1, <2>2
<1> QED  BY <1>1, <1>2, <1>3, <1>4, <1>5

-----------------------------------------------------------------------------
(* Steps of a buffer that is read.                                         *)

\* A Read of the source gives no more than there is room for and than the source has, and
\* reports the end only with its last byte.
LEMMA SourceGives ==
  ASSUME NEW room \in Nat, src \in 0..total, total \in Nat, together \in BOOLEAN,
         NEW r \in SourceReads(room)
  PROVE  /\ r.n \in Nat /\ r.n <= room /\ src + r.n \in 0..total
         /\ r.err \in BOOLEAN /\ (r.err => src + r.n = total) /\ (room > 0 /\ ~r.err => r.n > 0)
<1>1. CASE room = 0
  <2>1. r = [n |-> 0, err |-> FALSE]
    BY <1>1 DEF SourceReads
  <2>2. r.n = 0 /\ ~r.err /\ r.err \in BOOLEAN
    BY <2>1
  <2>3. src + 0 \in 0..total /\ 0 <= room
    OBVIOUS
  <2> QED  BY <1>1, <2>2, <2>3
<1>2. CASE room # 0 /\ src = total
  <2>1. r = [n |-> 0, err |-> TRUE]
    BY <1>2 DEF SourceReads
  <2>2. r.n = 0 /\ r.err /\ r.err \in BOOLEAN
    BY <2>1
  <2>3. src + 0 = total /\ src + 0 \in 0..total /\ 0 <= room
    BY <1>2
  <2> QED  BY <2>2, <2>3
<1>3. CASE room # 0 /\ src # total
  <2>1. PICK k \in 1..Min({room, total - src}) : r = [n |-> k, err |-> together /\ src + k = total]
    BY <1>3 DEF SourceReads
  <2>2. k \in Nat \ {0} /\ k <= room /\ k <= total - src
    <3>1. total - src \in Int /\ room \in Int
      OBVIOUS
    <3>2. /\ Min({room, total - src}) \in {room, total - src}
          /\ Min({room, total - src}) <= room /\ Min({room, total - src}) <= total - src
      BY <3>1, MinOfTwo, Zenon
    <3>3. PICK m : m = Min({room, total - src})
      OBVIOUS
    <3>4. m \in Int /\ m <= room /\ m <= total - src /\ k \in 1..m
      BY <3>1, <3>2, <3>3
    <3> QED  BY ONLY <3>1, <3>4, room \in Nat, total \in Nat, src \in 0..total
  <2>3. r.n = k /\ r.err = (together /\ src + k = total)
    BY <2>1
  <2>4. r.err \in BOOLEAN /\ (r.err => src + k = total)
    BY <2>3, Zenon
  <2>5. src + k \in 0..total
    BY <2>2
  <2> QED  BY <2>2, <2>3, <2>4, <2>5
<1> QED  BY <1>1, <1>2, <1>3

\* A call on a buffer that is read starts, goes on or returns.
LEMMA ReadStep ==
  ASSUME IInv, use \in {"read", "stream"}, UNCHANGED <<use, over, total, together>>,
         closer' \in BOOLEAN, ~closer' => eof', eof' \in BOOLEAN, src' \in 0..total,
         Holds(b', src'), b.cap <= b'.cap,
         \/ pc' = "idle" /\ op' = "none" /\ want' = 0 /\ from' = 0
         \/ /\ pc' = "fill" /\ op' \in Looks \cup {"discard", "skip", "readbyte"}
            /\ want' \in Nat /\ from' \in Nat /\ CallInv'
  PROVE  IInv'
<1>1. total \in Nat /\ src' \in Nat /\ b.cap \in Nat
  BY BufReaderAssumption DEF IInv, TypeOK
<1>2. /\ b'.off \in Nat /\ b'.cap \in Nat /\ End(b') <= b'.cap /\ Holds(b, src)'
  BY <1>1, HoldsTypes
<1>3. FirstCap' <= b'.cap
  <2>1. FirstCap' = FirstCap /\ FirstCap <= b.cap /\ FirstCap \in Nat
    BY BufReaderAssumption DEF FirstCap, IInv
  <2> QED  BY <2>1, <1>1, <1>2
<1>4. CallInv' /\ pc' \in {"idle", "fill"} /\ want' \in Nat /\ from' \in Nat
      /\ op' \in Looks \cup {"none", "discard", "skip", "readbyte"}
  BY DEF CallInv
<1>5. (pc' # "fill") = (op' = "none")
  BY DEF Looks
<1>6. use \in {"read", "write", "stream", "frame"} /\ over \in BOOLEAN
      /\ total \in 0..MaxInput /\ together \in BOOLEAN
  BY DEF IInv, TypeOK
<1>7. End(b)' = End(b')
  BY DEF End
<1>8. TypeOK'
  BY <1>2, <1>4, <1>5, <1>6, <1>7 DEF TypeOK
<1>9. FrameInv' /\ UseInv'
  BY <1>4 DEF FrameInv, UseInv
<1> QED  BY <1>2, <1>3, <1>4, <1>8, <1>9 DEF IInv

\* A step of a call that looks ahead leaves the position.
LookStep ==
  (pc = "fill" /\ op \in Looks) \/ (pc' = "fill" /\ op' \in Looks) => Position' = Position

\* What Peek returns.
PeekStep ==
  pc = "fill" /\ op = "peek" /\ pc' = "idle" =>
    /\ ~reply'.err => Len(reply'.data) >= want
    /\ reply'.err => src' = total /\ (want = 0 \/ Len(reply'.data) < want)

\* Where Discard and InOutStream.Skip leave the position.
SkipStep ==
  pc = "fill" /\ pc' = "idle" =>
    /\ op = "discard" /\ ~reply'.err => Position' = from
    /\ op = "skip" => Position' <= from

\* The facts about the state that the steps below start from.
LEMMA Start ==
  ASSUME IInv
  PROVE  /\ src \in 0..total /\ total \in Nat /\ src \in Nat /\ together \in BOOLEAN /\ eof \in BOOLEAN
         /\ closer \in BOOLEAN /\ (~closer => eof) /\ want \in Nat /\ from \in Nat
         /\ Holds(b, src) /\ b.cap \in Nat /\ b.data \in Seq(Nat) /\ Size(b) \in Nat
         /\ Size(b) <= src /\ Position \in Nat /\ Position + Size(b) = src /\ Room(b) \in Nat
<1>1. src \in 0..total /\ total \in Nat /\ src \in Nat
  BY BufReaderAssumption DEF IInv, TypeOK
<1>2. Holds(b, src) /\ together \in BOOLEAN /\ eof \in BOOLEAN /\ closer \in BOOLEAN
      /\ (~closer => eof) /\ want \in Nat /\ from \in Nat
  BY DEF IInv, TypeOK
<1>3. b.cap \in Nat /\ b.data \in Seq(Nat) /\ Size(b) \in Nat /\ Size(b) <= src /\ Room(b) \in Nat
  BY <1>1, <1>2, HoldsTypes
<1>4. Position \in Nat /\ Position + Size(b) = src
  BY <1>1, <1>3 DEF Position
<1> QED  BY <1>1, <1>2, <1>3, <1>4

\* Peek and SniffClientHello.
LEMMA LookIInv ==
  ASSUME IInv, use \in {"read", "stream"}, UNCHANGED <<use, over, closer>>,
         (\E i \in 0..MaxArg : Peek(i)) \/ Sniff
  PROVE  IInv' /\ LookStep
<1>1. PICK i \in Nat : /\ b' = Prepared(b, i) /\ UNCHANGED <<total, together, src, eof, reply>>
                       /\ Enter("peek", i, Position) \/ Enter("sniff1", i, Position)
  BY BufReaderAssumption DEF Peek, Sniff
<1>2. Holds(b, src) /\ src \in Nat /\ Position \in Nat
  BY Start
<1>3. Holds(b', src') /\ Size(b') = Size(b) /\ b.cap <= b'.cap
  BY <1>1, <1>2, HoldsPrepared
<1>4. pc' = "fill" /\ op' \in Looks /\ want' \in Nat /\ from' \in Nat /\ CallInv'
  BY <1>1, <1>2 DEF Enter, Looks, CallInv
<1>5. IInv'
  BY <1>1, <1>3, <1>4, Start, ReadStep
<1>6. Position' = Position
  BY <1>1, <1>3 DEF Position, Size
<1> QED  BY <1>5, <1>6 DEF LookStep

\* Read.
LEMMA ReadIInv ==
  ASSUME IInv, use \in {"read", "stream"}, UNCHANGED <<use, over>>, NEW n \in 1..MaxArg,
         \/ ReadBuffered(n) /\ closer' = closer
         \/ ReadSource(n) /\ (closer' = closer \/ closer' = (closer /\ ~reply'.err))
  PROVE  IInv' /\ LookStep
<1>0. n \in Nat
  BY BufReaderAssumption
<1>1. CASE ReadBuffered(n) /\ closer' = closer
  <2> DEFINE k == Min({n, Size(b)})
  <2>1. Holds(b, src) /\ src \in Nat /\ Size(b) \in Nat
    BY Start
  <2>2. k \in 0..Size(b)
    <3>1. k \in {n, Size(b)} /\ k <= Size(b)
      BY <2>1, <1>0, MinOfTwo
    <3> QED  BY <3>1, <2>1, <1>0
  <2>3. b' = Consume(b, k) /\ UNCHANGED <<total, together, src, eof>> /\ pc = "idle"
        /\ Return("read", SubSeq(b.data, 1, k), FALSE)
    BY <1>1, Zenon DEF ReadBuffered
  <2> HIDE DEF k
  <2>4. Holds(b', src') /\ b'.cap = b.cap
    BY <2>1, <2>2, <2>3, HoldsConsume
  <2>5. pc' = "idle" /\ op' = "none" /\ want' = 0 /\ from' = 0
    BY <2>3 DEF Return
  <2>6. b.cap <= b'.cap
    BY <2>4, Start
  <2>7. IInv'
    BY <1>1, <2>3, <2>4, <2>5, <2>6, Start, ReadStep
  <2> QED  BY <2>3, <2>5, <2>7 DEF LookStep
<1>2. CASE ReadSource(n) /\ (closer' = closer \/ closer' = (closer /\ ~reply'.err))
  <2>1. Holds(b, src) /\ src \in Nat /\ Size(b) = 0 /\ src \in 0..total /\ total \in Nat
        /\ together \in BOOLEAN
    BY <1>2, Start DEF ReadSource
  <2>2. PICK r \in SourceReads(n) : /\ src' = src + r.n /\ eof' = (eof \/ r.err)
                                    /\ Return("read", Bytes(src, r.n), r.err)
    BY <1>2 DEF ReadSource
  <2>3. UNCHANGED <<total, together, b>> /\ pc = "idle"
    BY <1>2 DEF ReadSource
  <2>4. r.n \in Nat /\ src' \in 0..total /\ r.err \in BOOLEAN
    BY <2>1, <2>2, <1>0, SourceGives
  <2>5. Holds(b', src')
    <3>1. b \in Buffers /\ End(b) <= b.cap
      BY <2>1, HoldsTypes
    <3>2. b.data = <<>>
      BY <2>1 DEF Size, Holds, Bytes
    <3>3. src' \in Nat /\ Bytes(src' - 0, 0) = <<>>
      BY <2>1, <2>4 DEF Bytes
    <3> QED  BY <2>1, <2>3, <3>1, <3>2, <3>3 DEF Holds
  <2>6. pc' = "idle" /\ op' = "none" /\ want' = 0 /\ from' = 0 /\ reply'.err = r.err
    BY <2>2 DEF Return
  <2>7. closer' \in BOOLEAN /\ (~closer' => eof') /\ eof' \in BOOLEAN /\ b.cap <= b'.cap
    <3>1. closer \in BOOLEAN /\ eof \in BOOLEAN /\ (~closer => eof) /\ b.cap \in Nat
      BY Start
    <3>2. eof' = (eof \/ r.err) /\ r.err \in BOOLEAN
      BY <2>2, <2>4
    <3>3. closer' = closer \/ closer' = (closer /\ ~r.err)
      BY <1>2, <2>6, Zenon
    <3>4. closer' \in BOOLEAN /\ (~closer' => eof') /\ eof' \in BOOLEAN
      BY ONLY <3>1, <3>2, <3>3, Zenon
    <3>5. b.cap <= b'.cap
      BY ONLY <3>1, <2>3
    <3> QED  BY <3>4, <3>5
  <2>8. IInv'
    BY <2>3, <2>4, <2>5, <2>6, <2>7, ReadStep
  <2> QED  BY <2>3, <2>6, <2>8 DEF LookStep
<1> QED  BY <1>1, <1>2

\* A call that takes n of the buffered bytes and returns.
LEMMA TakeIInv ==
  ASSUME IInv, use \in {"read", "stream"}, UNCHANGED <<use, over, closer>>,
         UNCHANGED <<total, together, src, eof>>, NEW n \in 0..Size(b),
         b' = Consume(b, n) \/ (n = Size(b) /\ b' = Clear(b)),
         pc = "idle", pc' = "idle", op' = "none", want' = 0, from' = 0
  PROVE  IInv' /\ LookStep
<1>1. Holds(b, src) /\ src \in Nat /\ b.cap \in Nat
  BY Start
<1>2. Holds(b', src') /\ b'.cap = b.cap
  BY <1>1, HoldsConsume, HoldsClear
<1>3. b.cap <= b'.cap
  BY <1>1, <1>2
<1>4. IInv'
  BY <1>2, <1>3, Start, ReadStep
<1> QED  BY <1>4 DEF LookStep

\* ReadByte, Discard and InOutStream.Skip.
LEMMA ReadByteIInv ==
  ASSUME IInv, use \in {"read", "stream"}, UNCHANGED <<use, over, closer>>, ReadByte
  PROVE  IInv' /\ LookStep
<1>1. Holds(b, src) /\ src \in Nat /\ Position \in Nat /\ Size(b) \in Nat
  BY Start
<1>2. UNCHANGED <<total, together, src, eof>> /\ pc = "idle"
  BY DEF ReadByte
<1>3. CASE Size(b) = 0
  <2>1. b' = Prepared(b, 0) /\ Enter("readbyte", 0, Position)
    BY <1>3 DEF ReadByte
  <2>2. Holds(b', src') /\ Room(b') > 0 /\ b.cap <= b'.cap
    BY <1>1, <1>2, <1>3, <2>1, HoldsPrepared
  <2>3. pc' = "fill" /\ op' = "readbyte" /\ want' \in Nat /\ from' \in Nat
    BY <1>1, <2>1 DEF Enter
  <2>4. CallInv'
    <3>1. Room(b)' = Room(b')
      BY DEF Room, End
    <3> QED  BY <2>2, <2>3, <3>1 DEF CallInv
  <2>5. IInv'
    BY <1>2, <2>2, <2>3, <2>4, Start, ReadStep
  <2> QED  BY <1>2, <2>3, <2>5 DEF LookStep, Looks
<1>4. CASE Size(b) # 0
  <2>1. b' = Consume(b, 1) /\ pc' = "idle" /\ op' = "none" /\ want' = 0 /\ from' = 0
    BY <1>4 DEF ReadByte, Return
  <2>2. 1 \in 0..Size(b)
    BY <1>1, <1>4
  <2> QED  BY <1>2, <2>1, <2>2, TakeIInv
<1> QED  BY <1>3, <1>4

\* The buffer is dropped, and Fill(0) is to read on.
LEMMA DropIInv ==
  ASSUME IInv, use \in {"read", "stream"}, UNCHANGED <<use, over, closer>>,
         UNCHANGED <<total, together, src, eof>>, pc = "idle", NEW o \in {"discard", "skip"},
         NEW w \in Nat, b' = Prepared(Clear(b), 0), Enter(o, w, Position + Size(b) + w)
  PROVE  IInv' /\ LookStep
<1>1. Holds(b, src) /\ src \in Nat /\ Position \in Nat /\ Size(b) \in Nat /\ b.cap \in Nat
      /\ Position + Size(b) = src
  BY Start
<1>2. Holds(Clear(b), src) /\ Size(Clear(b)) = 0 /\ Clear(b).cap = b.cap
  BY <1>1, HoldsClear
<1>3. Holds(b', src') /\ Size(b') = 0 /\ b.cap <= b'.cap
  <2>1. PICK x : x = Clear(b)
    OBVIOUS
  <2>2. Holds(x, src) /\ Size(x) = 0 /\ x.cap = b.cap /\ b' = Prepared(x, 0)
    BY <1>2, <2>1
  <2>3. Holds(Prepared(x, 0), src) /\ Size(Prepared(x, 0)) = 0 /\ x.cap <= Prepared(x, 0).cap
    <3>1. 0 \in Nat /\ src \in Nat /\ Holds(x, src) /\ Size(x) = 0
      BY <1>1, <2>2
    <3> QED  BY ONLY <3>1, HoldsPrepared
  <2> QED  BY <2>2, <2>3
<1>4. pc' = "fill" /\ op' = o /\ want' = w /\ from' = src + w
  BY <1>1 DEF Enter
<1>5. Position' = src
  BY <1>1, <1>3 DEF Position, Size
<1>6. CallInv' /\ from' \in Nat
  <2>1. Size(b)' = 0
    BY <1>3 DEF Size
  <2> QED  BY <1>1, <1>4, <1>5, <2>1 DEF CallInv
<1>7. IInv'
  BY <1>3, <1>4, <1>6, Start, ReadStep
<1> QED  BY <1>4, <1>7 DEF LookStep, Looks

\* Discard preserves the invariant.
LEMMA DiscardIInv ==
  ASSUME IInv, use \in {"read", "stream"}, UNCHANGED <<use, over, closer>>,
         NEW n \in 1..MaxArg, Discard(n)
  PROVE  IInv' /\ LookStep
<1>1. Position \in Nat /\ Size(b) \in Nat /\ n \in Nat
  BY Start, BufReaderAssumption
<1>2. UNCHANGED <<total, together, src, eof>> /\ pc = "idle"
  BY DEF Discard
<1>3. CASE n > Size(b)
  <2>1. b' = Prepared(Clear(b), 0) /\ Enter("discard", n - Size(b), Position + n)
    BY <1>3 DEF Discard
  <2>2. n - Size(b) \in Nat /\ Position + n = Position + Size(b) + (n - Size(b))
    BY <1>1, <1>3
  <2>3. Enter("discard", n - Size(b), Position + Size(b) + (n - Size(b)))
    BY ONLY <2>1, <2>2
  <2> QED  BY <1>2, <2>1, <2>2, <2>3, DropIInv
<1>4. CASE ~(n > Size(b))
  <2>1. /\ b' = IF n = Size(b) THEN Clear(b) ELSE Consume(b, n)
        /\ pc' = "idle" /\ op' = "none" /\ want' = 0 /\ from' = 0
    BY <1>4 DEF Discard, Return
  <2>2. n \in 0..Size(b)
    BY <1>1, <1>4
  <2> QED  BY <1>2, <2>1, <2>2, TakeIInv
<1> QED  BY <1>3, <1>4

\* StreamSkip preserves the invariant.
LEMMA StreamSkipIInv ==
  ASSUME IInv, use \in {"read", "stream"}, UNCHANGED <<use, over, closer>>,
         NEW n \in 1..MaxArg, StreamSkip(n)
  PROVE  IInv' /\ LookStep
<1>1. Position \in Nat /\ Size(b) \in Nat /\ n \in Nat
  BY Start, BufReaderAssumption
<1>2. UNCHANGED <<total, together, src, eof>> /\ pc = "idle"
  BY DEF StreamSkip
<1>3. CASE n >= Size(b)
  <2> DEFINE w == n - (Size(b) - n)
  <2>1. b' = Prepared(Clear(b), 0) /\ Enter("skip", w, Position + 2 * n)
    BY <1>3 DEF StreamSkip
  <2>2. w \in Nat /\ Position + 2 * n = Position + Size(b) + w
    BY <1>1, <1>3
  <2> HIDE DEF w
  <2>3. Enter("skip", w, Position + Size(b) + w)
    BY ONLY <2>1, <2>2
  <2> QED  BY <1>2, <2>1, <2>2, <2>3, DropIInv
<1>4. CASE ~(n >= Size(b))
  <2>1. b' = Consume(b, n) /\ pc' = "idle" /\ op' = "none" /\ want' = 0 /\ from' = 0
    BY <1>4 DEF StreamSkip, Return
  <2>2. n \in 0..Size(b)
    BY <1>1, <1>4
  <2> QED  BY <1>2, <2>1, <2>2, TakeIInv
<1> QED  BY <1>3, <1>4

-----------------------------------------------------------------------------
(* What Fill's callers do once it has y, the buffer with what was read.    *)

\* The facts Fill establishes: y holds the stream from the reader's position on, an error
\* says that the source is at its end, and without one ReadByte has something to return.
FillGave(y, e) ==
  /\ pc = "fill" /\ use \in {"read", "stream"} /\ UNCHANGED <<use, over, closer, total, together>>
  /\ src' \in 0..total /\ eof' \in BOOLEAN /\ (eof => eof') /\ e \in BOOLEAN
  /\ Holds(y, src') /\ b.cap <= y.cap /\ src' - Size(y) = Position
  /\ e => src' = total
  /\ ~e /\ op = "readbyte" => Size(y) > 0

\* What follows for a step that goes on with, or returns from, the call.
LEMMA FillStep ==
  ASSUME IInv, NEW y, NEW e, FillGave(y, e), Holds(b', src'), y.cap <= b'.cap,
         \/ pc' = "idle" /\ op' = "none" /\ want' = 0 /\ from' = 0
         \/ /\ pc' = "fill" /\ op' \in Looks \cup {"discard", "skip", "readbyte"}
            /\ want' \in Nat /\ from' \in Nat /\ CallInv'
  PROVE  IInv'
<1>1. b.cap \in Nat /\ closer \in BOOLEAN /\ (~closer => eof) /\ total \in Nat /\ src' \in Nat
  BY Start DEF FillGave
<1>2. y.cap \in Nat /\ b'.cap \in Nat
  BY <1>1, HoldsTypes DEF FillGave
<1>3. b.cap <= b'.cap
  BY <1>1, <1>2 DEF FillGave
<1>4. /\ use \in {"read", "stream"} /\ UNCHANGED <<use, over, total, together>>
      /\ closer' \in BOOLEAN /\ (~closer' => eof') /\ eof' \in BOOLEAN /\ src' \in 0..total
  BY <1>1 DEF FillGave
<1> QED  BY <1>3, <1>4, ReadStep

\* What Fill leaves to the call that waits for it.
LEMMA FillFacts ==
  ASSUME IInv, NEW y, NEW e, FillGave(y, e)
  PROVE  /\ pc = "fill" /\ src' \in Nat /\ total \in Nat /\ y.cap \in Nat /\ Size(y) \in Nat
         /\ Size(y) <= src' /\ y.data \in Seq(Nat) /\ want \in Nat /\ from \in Nat /\ Position \in Nat
         /\ Holds(y, src') /\ src' = Position + Size(y)
<1>1. pc = "fill" /\ src' \in Nat /\ total \in Nat /\ Holds(y, src') /\ want \in Nat /\ from \in Nat
      /\ Position \in Nat /\ src' - Size(y) = Position
  BY Start DEF FillGave
<1>2. y.cap \in Nat /\ Size(y) \in Nat /\ Size(y) <= src' /\ y.data \in Seq(Nat)
  BY <1>1, HoldsTypes
<1> QED  BY <1>1, <1>2

\* Peek goes on after Fill with the invariant kept.
LEMMA PeekFilledIInv ==
  ASSUME IInv, NEW y, NEW e, FillGave(y, e), PeekFilled(y, e)
  PROVE  IInv' /\ LookStep /\ PeekStep /\ SkipStep
<1>1. op = "peek" /\ b' = y /\ Position' = Position
  <2>1. op = "peek" /\ b' = y
    BY DEF PeekFilled
  <2> QED  BY <2>1, FillFacts DEF Position, FillGave, Size
<1>2. Holds(b', src') /\ y.cap <= b'.cap
  BY <1>1, FillFacts
<1>3. CASE want > 0 /\ Size(y) < want /\ ~e
  <2>1. UNCHANGED <<pc, op, want, from>>
    BY <1>3 DEF PeekFilled
  <2>2. CallInv' /\ op' \in Looks /\ want' \in Nat /\ from' \in Nat /\ pc' = "fill"
    BY <1>1, <2>1, FillFacts DEF CallInv, Looks
  <2>3. IInv'
    BY <1>2, <2>2, FillStep
  <2> QED  BY <1>1, <2>2, <2>3 DEF LookStep, PeekStep, SkipStep
<1>4. CASE ~(want > 0 /\ Size(y) < want /\ ~e)
  <2>1. Return("peek", y.data, e /\ (want = 0 \/ Size(y) < want))
    BY <1>4 DEF PeekFilled
  <2>2. pc' = "idle" /\ op' = "none" /\ want' = 0 /\ from' = 0
        /\ reply'.data = y.data /\ reply'.err = (e /\ (want = 0 \/ Size(y) < want))
    BY <2>1 DEF Return
  <2>3. IInv'
    BY <1>2, <2>2, FillStep
  <2>4. ~(e /\ (want = 0 \/ Size(y) < want)) => Size(y) >= want
    BY <1>4, FillFacts DEF FillGave
  <2>5. e => src' = total
    BY DEF FillGave
  <2>6. PeekStep
    BY <2>2, <2>4, <2>5, Zenon DEF PeekStep, Size
  <2> QED  BY <1>1, <2>3, <2>6 DEF LookStep, SkipStep
<1> QED  BY <1>3, <1>4

\* ReadByte goes on after Fill with the invariant kept.
LEMMA ReadByteFilledIInv ==
  ASSUME IInv, NEW y, NEW e, FillGave(y, e), ReadByteFilled(y, e)
  PROVE  IInv' /\ LookStep /\ PeekStep /\ SkipStep
<1>1. op = "readbyte" /\ pc' = "idle" /\ op' = "none" /\ want' = 0 /\ from' = 0
  BY DEF ReadByteFilled, Return
<1>2. Holds(b', src') /\ y.cap <= b'.cap
  <2>1. CASE e
    <3>1. b' = y
      BY <2>1 DEF ReadByteFilled
    <3> QED  BY <3>1, FillFacts
  <2>2. CASE ~e
    <3>1. b' = Consume(y, 1)
      BY <2>2 DEF ReadByteFilled
    <3>2. 1 \in 0..Size(y)
      BY <1>1, <2>2, FillFacts DEF FillGave
    <3> QED  BY <3>1, <3>2, FillFacts, HoldsConsume
  <2> QED  BY <2>1, <2>2
<1>3. IInv'
  BY <1>1, <1>2, FillStep
<1> QED  BY <1>1, <1>3 DEF LookStep, PeekStep, SkipStep, Looks

\* Fill(0) on a buffer that has been dropped, and on one that has been kept.
LEMMA PreparedAgain ==
  ASSUME NEW y, NEW q \in Nat, Holds(y, q)
  PROVE  /\ Holds(Prepared(Clear(y), 0), q) /\ Size(Prepared(Clear(y), 0)) = 0
         /\ y.cap <= Prepared(Clear(y), 0).cap
         /\ Holds(Prepared(Compact(y), 0), q) /\ Size(Prepared(Compact(y), 0)) = Size(y)
         /\ y.cap <= Prepared(Compact(y), 0).cap
<1>1. PICK x, z : x = Clear(y) /\ z = Compact(y)
  OBVIOUS
<1>2. Holds(x, q) /\ Size(x) = 0 /\ x.cap = y.cap
  BY <1>1, HoldsClear
<1>3. Holds(z, q) /\ Size(z) = Size(y) /\ z.cap = y.cap
  BY <1>1, HoldsCompact
<1>4. 0 \in Nat /\ q \in Nat
  OBVIOUS
<1>5. Holds(Prepared(x, 0), q) /\ Size(Prepared(x, 0)) = 0 /\ y.cap <= Prepared(x, 0).cap
  BY ONLY <1>2, <1>4, HoldsPrepared
<1>6. Holds(Prepared(z, 0), q) /\ Size(Prepared(z, 0)) = Size(y) /\ y.cap <= Prepared(z, 0).cap
  BY ONLY <1>3, <1>4, HoldsPrepared
<1> QED  BY <1>1, <1>5, <1>6

\* Discard goes on after Fill with the invariant kept.
LEMMA DiscardFilledIInv ==
  ASSUME IInv, NEW y, NEW e, FillGave(y, e), DiscardFilled(y, e)
  PROVE  IInv' /\ LookStep /\ PeekStep /\ SkipStep
<1>1. op = "discard" /\ from = Position + want /\ Size(b)' = Size(b')
  BY DEF DiscardFilled, IInv, CallInv, Size
<1>2. CASE e
  <2>1. b' = y /\ pc' = "idle" /\ op' = "none" /\ want' = 0 /\ from' = 0 /\ reply'.err
    BY <1>2 DEF DiscardFilled, Return
  <2>2. Holds(b', src') /\ y.cap <= b'.cap
    BY <2>1, FillFacts
  <2>3. IInv'
    BY <2>1, <2>2, FillStep
  <2> QED  BY <1>1, <2>1, <2>3 DEF LookStep, PeekStep, SkipStep, Looks
<1>3. CASE ~e /\ Size(y) < want
  <2>1. /\ b' = Prepared(Clear(y), 0) /\ want' = want - Size(y)
        /\ UNCHANGED <<pc, op, from>>
    BY <1>3 DEF DiscardFilled
  <2>2. Holds(b', src') /\ Size(b') = 0 /\ y.cap <= b'.cap
    <3>1. src' \in Nat /\ Holds(y, src')
      BY FillFacts
    <3> QED  BY ONLY <2>1, <3>1, PreparedAgain
  <2>3. Position' = src' /\ want' \in Nat /\ from' = Position' + want'
    <3>1. Position' = src' - Size(b')
      BY <1>1 DEF Position
    <3>2. src' \in Nat /\ Position \in Nat /\ want \in Nat /\ Size(y) \in Nat /\ src' = Position + Size(y)
      BY FillFacts
    <3> QED  BY ONLY <1>1, <1>3, <2>1, <2>2, <3>1, <3>2
  <2>4. CallInv' /\ pc' = "fill" /\ op' = "discard" /\ from' \in Nat
    <3>1. pc' = "fill" /\ op' = "discard" /\ from' \in Nat
      BY <1>1, <2>1, FillFacts
    <3> QED  BY <1>1, <2>2, <2>3, <3>1 DEF CallInv
  <2>5. IInv'
    BY <2>2, <2>3, <2>4, FillStep
  <2> QED  BY <1>1, <2>4, <2>5 DEF LookStep, PeekStep, SkipStep, Looks
<1>4. CASE ~e /\ ~(Size(y) < want)
  <2>1. /\ b' = IF Size(y) = want THEN Clear(y) ELSE Consume(y, want)
        /\ pc' = "idle" /\ op' = "none" /\ want' = 0 /\ from' = 0
    BY <1>4 DEF DiscardFilled, Return
  <2>2. want \in 0..Size(y) /\ src' \in Nat /\ Holds(y, src') /\ Size(y) \in Nat /\ y.cap \in Nat
    BY <1>4, FillFacts
  <2>3. Holds(b', src') /\ b'.cap = y.cap /\ Size(b') = Size(y) - want
    BY <2>1, <2>2, HoldsClear, HoldsConsume
  <2>4. y.cap <= b'.cap
    BY <2>2, <2>3
  <2>5. IInv'
    BY <2>1, <2>3, <2>4, FillStep
  <2>6. Position' = from
    <3>1. Position' = src' - Size(b')
      BY <1>1 DEF Position
    <3>2. src' \in Nat /\ Position \in Nat /\ want \in Nat /\ Size(y) \in Nat /\ src' = Position + Size(y)
      BY FillFacts
    <3> QED  BY ONLY <1>1, <2>3, <3>1, <3>2
  <2> QED  BY <1>1, <2>1, <2>5, <2>6 DEF LookStep, PeekStep, SkipStep, Looks
<1>5. e \in BOOLEAN
  BY DEF FillGave
<1> QED  BY <1>2, <1>3, <1>4, <1>5

\* StreamSkip goes on after Fill with the invariant kept.
LEMMA StreamSkipFilledIInv ==
  ASSUME IInv, NEW y, NEW e, FillGave(y, e), StreamSkipFilled(y, e)
  PROVE  IInv' /\ LookStep /\ PeekStep /\ SkipStep
<1>1. op = "skip" /\ Position + want <= from /\ Size(b)' = Size(b')
  BY DEF StreamSkipFilled, IInv, CallInv, Size
<1>2. /\ src' \in Nat /\ Position \in Nat /\ want \in Nat /\ from \in Nat /\ Size(y) \in Nat
      /\ src' = Position + Size(y) /\ Holds(y, src') /\ y.cap \in Nat
  BY FillFacts
<1>3. Position' = src' - Size(b')
  BY <1>1 DEF Position
<1>4. CASE ~e /\ Size(y) < want
  <2>1. /\ b' = Prepared(Compact(y), 0) /\ want' = want - Size(y)
        /\ UNCHANGED <<pc, op, from>>
    BY <1>4 DEF StreamSkipFilled
  <2>2. Holds(b', src') /\ Size(b') = Size(y) /\ y.cap <= b'.cap
    BY ONLY <2>1, <1>2, PreparedAgain
  <2>3. want' \in Nat /\ Position' + want' <= from
    BY ONLY <1>1, <1>2, <1>3, <1>4, <2>1, <2>2
  <2>4. CallInv' /\ pc' = "fill" /\ op' = "skip" /\ from' \in Nat
    <3>1. pc' = "fill" /\ op' = "skip" /\ from' \in Nat /\ from' = from
      BY <1>1, <2>1, FillFacts
    <3> QED  BY <1>1, <2>3, <3>1 DEF CallInv
  <2>5. IInv'
    BY <2>2, <2>3, <2>4, FillStep
  <2> QED  BY <1>1, <2>4, <2>5 DEF LookStep, PeekStep, SkipStep, Looks
<1>5. CASE ~(~e /\ Size(y) < want)
  <2>1. /\ b' = CASE e -> y [] ~e /\ Size(y) = want -> Compact(y) [] OTHER -> Consume(y, want)
        /\ pc' = "idle" /\ op' = "none" /\ want' = 0 /\ from' = 0
    BY <1>5 DEF StreamSkipFilled, Return
  <2>2. /\ Holds(b', src') /\ b'.cap = y.cap
        /\ Size(b') = Size(y) \/ Size(b') = Size(y) - want
    <3>1. CASE e
      <4>1. b' = y
        BY <2>1, <3>1
      <4> QED  BY <4>1, <1>2
    <3>2. CASE ~e /\ Size(y) = want
      <4>1. b' = Compact(y)
        BY <2>1, <3>2
      <4> QED  BY <4>1, <1>2, HoldsCompact
    <3>3. CASE ~e /\ Size(y) # want
      <4>1. b' = Consume(y, want)
        BY <2>1, <3>3
      <4>2. want \in 0..Size(y)
        BY <1>2, <1>5, <3>3
      <4> QED  BY <4>1, <4>2, <1>2, HoldsConsume
    <3> QED  BY <3>1, <3>2, <3>3
  <2>3. y.cap <= b'.cap
    BY <1>2, <2>2
  <2>4. IInv'
    BY <2>1, <2>2, <2>3, FillStep
  <2>5. Position' <= from
    BY ONLY <1>1, <1>2, <1>3, <2>2
  <2> QED  BY <1>1, <2>1, <2>4, <2>5 DEF LookStep, PeekStep, SkipStep, Looks
<1> QED  BY <1>4, <1>5

\* Sniff goes on after Fill with the invariant kept.
LEMMA SniffFilledIInv ==
  ASSUME IInv, NEW y, NEW e, FillGave(y, e), SniffFilled(y, e)
  PROVE  IInv' /\ LookStep /\ PeekStep /\ SkipStep
<1>1. op \in {"sniff1", "sniff2", "sniff3"}
  BY DEF SniffFilled
<1>2. src' \in Nat /\ Position \in Nat /\ Size(y) \in Nat /\ src' = Position + Size(y)
      /\ Holds(y, src') /\ y.cap \in Nat /\ want \in Nat /\ from \in Nat /\ pc = "fill"
  BY FillFacts
<1>3. Position' = src' - Size(b')
  BY DEF Position, Size
<1>4. PICK i \in Nat :
        /\ b' = y \/ b' = Prepared(y, i)
        /\ \/ pc' = "idle" /\ op' = "none" /\ want' = 0 /\ from' = 0
           \/ /\ pc' = "fill" /\ op' \in {"sniff1", "sniff2", "sniff3"}
              /\ want' \in Nat /\ from' \in Nat
  <2>1. CASE Size(y) < want
    <3>1. b' = y
      BY <2>1 DEF SniffFilled
    <3>2. CASE e
      <4>1. pc' = "idle" /\ op' = "none" /\ want' = 0 /\ from' = 0
        BY <2>1, <3>2 DEF SniffFilled, Return
      <4> QED  BY <3>1, <4>1
    <3>3. CASE ~e
      <4>1. UNCHANGED <<pc, op, want, from>>
        BY <2>1, <3>3 DEF SniffFilled
      <4> QED  BY <1>1, <1>2, <3>1, <4>1
    <3> QED  BY <3>2, <3>3
  <2>2. CASE ~(Size(y) < want)
    <3>1. CASE b' = y /\ Return("sniff", y.data, FALSE)
      BY <3>1 DEF Return
    <3>2. CASE b' = Prepared(y, 2) /\ op' = "sniff2" /\ want' = 2 /\ UNCHANGED <<pc, from>>
      <4>1. 2 \in Nat
        OBVIOUS
      <4> QED  BY <1>2, <3>2, <4>1
    <3>3. CASE /\ \E rlen \in 1..MaxArg : b' = Prepared(y, 2 + rlen) /\ want' = 2 + rlen
               /\ op' = "sniff3" /\ UNCHANGED <<pc, from>>
      <4>1. PICK i \in Nat : b' = Prepared(y, i) /\ want' = i
        BY <3>3, BufReaderAssumption
      <4> QED  BY <1>2, <3>3, <4>1
    <3> QED  BY <2>2, <3>1, <3>2, <3>3, Zenon DEF SniffFilled
  <2> QED  BY <2>1, <2>2
<1>5. Holds(b', src') /\ Size(b') = Size(y) /\ y.cap <= b'.cap
  <2>1. CASE b' = y
    BY <1>2, <2>1
  <2>2. CASE b' = Prepared(y, i)
    BY ONLY <1>2, <2>2, i \in Nat, HoldsPrepared, Zenon
  <2> QED  BY <1>4, <2>1, <2>2
<1>6. Position' = Position
  BY ONLY <1>2, <1>3, <1>5
<1>7. IInv'
  <2>1. op' \in {"sniff1", "sniff2", "sniff3"} => op' \in Looks /\ CallInv'
    BY DEF Looks, CallInv
  <2> QED  BY <1>4, <1>5, <2>1, FillStep
<1> QED  BY <1>1, <1>6, <1>7 DEF LookStep, PeekStep, SkipStep, Looks

\* Whatever call waits for Fill, it goes on with the invariant kept.
LEMMA FilledIInv ==
  ASSUME IInv, NEW y, NEW e, FillGave(y, e), Filled(y, e)
  PROVE  IInv' /\ LookStep /\ PeekStep /\ SkipStep
  BY PeekFilledIInv, ReadByteFilledIInv, DiscardFilledIInv, StreamSkipFilledIInv,
     SniffFilledIInv DEF Filled

\* The two ways Fill ends.
LEMMA FillHasIInv ==
  ASSUME IInv, use \in {"read", "stream"}, UNCHANGED <<use, over, closer>>, FillHas
  PROVE  IInv' /\ LookStep /\ PeekStep /\ SkipStep
<1>1. pc = "fill" /\ op # "readbyte" /\ UNCHANGED <<total, together, src, eof>> /\ Filled(b, FALSE)
  BY Zenon DEF FillHas, Satisfied
<1>2. b.cap <= b.cap /\ src - Size(b) = Position /\ src \in 0..total /\ eof \in BOOLEAN
      /\ Holds(b, src)
  BY Start DEF Position
<1>3. FillGave(b, FALSE)
  BY <1>1, <1>2 DEF FillGave
<1> QED  BY <1>1, <1>3, FilledIInv, Zenon

\* FillRead preserves the invariant.
LEMMA FillReadIInv ==
  ASSUME IInv, use \in {"read", "stream"}, UNCHANGED <<use, over, closer>>, FillRead
  PROVE  IInv' /\ LookStep /\ PeekStep /\ SkipStep
<1>1. PICK r \in SourceReads(Room(b)) :
        /\ src' = src + r.n /\ eof' = (eof \/ r.err)
        /\ Filled([b EXCEPT !.data = @ \o Bytes(src, r.n)], r.err)
  BY Zenon DEF FillRead
<1>2. pc = "fill" /\ UNCHANGED <<total, together>>
  BY DEF FillRead
<1>3. /\ src \in Nat /\ src \in 0..total /\ total \in Nat /\ together \in BOOLEAN /\ Room(b) \in Nat
      /\ Holds(b, src) /\ Size(b) \in Nat /\ b.cap \in Nat /\ Position + Size(b) = src
      /\ Position \in Nat /\ eof \in BOOLEAN
  BY Start
<1>4. /\ r.n \in Nat /\ r.n <= Room(b) /\ src + r.n \in 0..total /\ r.err \in BOOLEAN
      /\ (r.err => src + r.n = total) /\ (Room(b) > 0 /\ ~r.err => r.n > 0)
  BY <1>3, SourceGives
<1>5. PICK y : y = [b EXCEPT !.data = @ \o Bytes(src, r.n)]
  BY Zenon
<1>6. Holds(y, src + r.n) /\ Size(y) = Size(b) + r.n /\ y.cap = b.cap
  BY <1>3, <1>4, <1>5, HoldsMore, Zenon
<1>7. b.cap <= y.cap /\ src' - Size(y) = Position
  BY <1>1, <1>3, <1>4, <1>6
<1>8. ~r.err /\ op = "readbyte" => Size(y) > 0
  <2>1. op = "readbyte" => Room(b) > 0
    BY DEF IInv, CallInv
  <2> QED  BY <1>3, <1>4, <1>6, <2>1
<1>9. FillGave(y, r.err)
  <2>1. eof' \in BOOLEAN /\ (eof => eof')
    BY <1>1, <1>3, <1>4
  <2> QED  BY <1>1, <1>2, <1>4, <1>6, <1>7, <1>8, <2>1 DEF FillGave
<1> QED  BY <1>1, <1>5, <1>9, FilledIInv

\* Every step of a buffer that is read, alone or inside a stream.
LEMMA ReadingIInv ==
  ASSUME IInv,
         \/ use = "read" /\ Reading /\ UNCHANGED <<use, over, closer>>
         \/ use = "stream" /\ Streaming /\ UNCHANGED <<use, over>>
  PROVE  IInv' /\ LookStep /\ PeekStep /\ SkipStep
<1>1. use \in {"read", "stream"} /\ UNCHANGED <<use, over>>
  OBVIOUS
<1>2. ASSUME pc = "idle"
      PROVE  IInv' /\ LookStep
  <2>1. ~FillHas /\ ~FillRead
    BY <1>2 DEF FillHas, FillRead
  <2>2. CASE use = "read" /\ Reading /\ UNCHANGED closer
    BY <1>1, <2>1, <2>2, LookIInv, ReadIInv, DiscardIInv, ReadByteIInv DEF Reading
  <2>3. CASE use = "stream" /\ Streaming
    <3>1. CASE UNCHANGED closer /\ \E i \in 0..MaxArg : Peek(i)
      BY <1>1, <3>1, LookIInv
    <3>2. CASE UNCHANGED closer /\ \E n \in 1..MaxArg : StreamSkip(n)
      BY <1>1, <3>2, StreamSkipIInv
    <3>3. CASE UNCHANGED closer /\ ReadByte
      BY <1>1, <3>3, ReadByteIInv
    <3>4. CASE \E n \in 1..MaxArg : StreamRead(n)
      BY <1>1, <3>4, ReadIInv DEF StreamRead
    <3> QED  BY <2>1, <2>3, <3>1, <3>2, <3>3, <3>4 DEF Streaming
  <2> QED  BY <2>2, <2>3
<1>3. CASE pc = "idle"
  BY <1>2, <1>3 DEF PeekStep, SkipStep
<1>4. CASE pc # "idle"
  <2>1. UNCHANGED closer /\ (FillHas \/ FillRead)
    BY <1>4, Zenon DEF Reading, Streaming, Peek, Sniff, ReadBuffered, ReadSource, ReadByte, Discard,
                StreamSkip, StreamRead
  <2> QED  BY <1>1, <2>1, FillHasIInv, FillReadIInv
<1> QED  BY <1>3, <1>4

-----------------------------------------------------------------------------
(* Steps of a buffer that is written into, alone or as a frame.            *)

\* A write that does not fit, or a frame without its space.
FitStep ==
  over' /\ ~over =>
    \/ reply'.op = "write" /\ Len(reply'.data) > b.cap
    \/ reply'.op = "varint" /\ Len(reply'.data) > VarRoom + 1
    \/ reply'.op = "frame" /\ Prefix + Len(reply'.data) + VarRoom >= FrameSize

\* Every array is larger than the room asked for a varint, as in the code (32K and 8).
ArraysLarger == VarRoom < BufSize /\ VarRoom < FrameSize

\* Grow keeps the bytes, and makes room for one byte more than it was asked for as long
\* as the array was larger than that.
LEMMA HoldsGrowTwice ==
  ASSUME NEW x, NEW q \in Nat, Holds(x, q), NEW n \in Nat
  PROVE  /\ Holds(Grow(x, n), q) /\ Size(Grow(x, n)) = Size(x) /\ x.cap <= Grow(x, n).cap
         /\ n < x.cap => n + 1 <= Room(Grow(x, n))
         /\ Grow(x, n) = x \/ Room(x) <= n
<1>1. x.cap \in Nat /\ Room(x) \in Nat /\ Size(x) \in Nat /\ Size(x) <= x.cap
  BY HoldsTypes
<1>2. CASE Room(x) > n
  <2>1. Grow(x, n) = x
    BY <1>2 DEF Grow
  <2> QED  BY <1>1, <1>2, <2>1
<1>3. CASE ~(Room(x) > n)
  <2>1. PICK m : m = 2 * x.cap
    OBVIOUS
  <2>2. m \in Nat /\ x.cap <= m
    BY <1>1, <2>1
  <2>3. Grow(x, n) = [data |-> x.data, off |-> 0, cap |-> m]
    BY <1>3, <2>1 DEF Grow
  <2>4. /\ Holds(Grow(x, n), q) /\ Size(Grow(x, n)) = Size(x) /\ Grow(x, n).cap = m
        /\ Room(Grow(x, n)) = m - Size(x)
    BY <2>2, <2>3, HoldsGrown
  <2>5. n < x.cap => n + 1 <= m - Size(x)
    BY <1>1, <2>1
  <2> QED  BY <1>1, <1>3, <2>2, <2>4, <2>5
<1> QED  BY <1>2, <1>3

\* What a writer has to show of its step.
LEMMA WriteStep ==
  ASSUME IInv, pc # "fill", UNCHANGED <<use, closer, total, together, eof, op, want, from>>,
         over' \in BOOLEAN, src' \in 0..total, Holds(b', src'), FirstCap <= b'.cap,
         pc' = "idle" \/ (pc' = "recycled" /\ use = "frame"), FrameInv'
  PROVE  IInv'
<1>1. total \in Nat /\ src' \in Nat
  BY BufReaderAssumption DEF IInv, TypeOK
<1>2. /\ b'.off \in Nat /\ b'.cap \in Nat /\ End(b') <= b'.cap /\ Holds(b, src)' /\ End(b)' = End(b')
  BY <1>1, HoldsTypes DEF End
<1>3. FirstCap' <= b'.cap
  BY DEF FirstCap
<1>4. op = "none" /\ CallInv'
  BY DEF IInv, TypeOK, CallInv
<1>5. TypeOK'
  BY <1>2, <1>4 DEF IInv, TypeOK
<1>6. UseInv'
  BY DEF UseInv
<1> QED  BY <1>2, <1>3, <1>4, <1>5, <1>6 DEF IInv

\* n bytes after those of y, an array that holds what b does.
LEMMA PutIInv ==
  ASSUME IInv, NEW o, NEW y, NEW n \in Nat, Put(o, y, n), Holds(y, src), Size(y) = Size(b),
         b.cap <= y.cap, y = b \/ Room(b) <= n \/ Room(b) <= VarRoom
  PROVE  IInv'
<1>1. /\ pc = "idle" /\ src + n <= total
      /\ UNCHANGED <<use, closer, total, together, eof, pc, op, want, from>>
  BY DEF Put
<1>2. /\ src \in Nat /\ total \in Nat /\ Size(b) \in Nat /\ b.cap \in Nat /\ Room(b) \in Nat
      /\ src \in 0..total /\ Holds(b, src)
  BY Start
<1>3. FirstCap <= b.cap /\ FirstCap \in Nat /\ FrameInv /\ over \in BOOLEAN
  BY BufReaderAssumption DEF IInv, FirstCap, TypeOK
<1>4. CASE n <= Room(y)
  <2>1. b' = [y EXCEPT !.data = @ \o Bytes(src, n)] /\ src' = src + n /\ over' = over
    BY <1>4 DEF Put
  <2>2. Holds(b', src') /\ Size(b') = Size(b) + n /\ b'.cap = y.cap /\ b'.off = y.off
    <3>1. PICK z : z = [y EXCEPT !.data = @ \o Bytes(src, n)]
      BY Zenon
    <3>2. src \in Nat /\ n \in Nat /\ n <= Room(y) /\ Holds(y, src)
      BY <1>2, <1>4
    <3>3. Holds(z, src + n) /\ Size(z) = Size(y) + n /\ z.cap = y.cap /\ z.off = y.off
      BY ONLY <3>1, <3>2, HoldsMore, Zenon
    <3> QED  BY <2>1, <3>1, <3>3
  <2>3. FirstCap <= b'.cap /\ src' \in 0..total
    <3>1. y.cap \in Nat
      BY <1>2, HoldsTypes
    <3> QED  BY <1>1, <1>2, <1>3, <2>1, <2>2, <3>1
  <2>4. FrameInv'
    <3>1. SUFFICES ASSUME use = "frame"
                   PROVE  \/ b'.off = Prefix /\ b'.cap = FrameSize
                          \/ Prefix + Size(b') + VarRoom >= FrameSize
      BY <1>1 DEF FrameInv, Size
    <3>2. Prefix \in Nat /\ FrameSize \in Nat /\ VarRoom \in Nat
      BY BufReaderAssumption
    <3>3. CASE Prefix + Size(b) + VarRoom >= FrameSize
      BY <1>2, <2>2, <3>2, <3>3
    <3>4. CASE b.off = Prefix /\ b.cap = FrameSize /\ y = b
      BY <2>2, <3>4
    <3>5. CASE b.off = Prefix /\ b.cap = FrameSize /\ (Room(b) <= n \/ Room(b) <= VarRoom)
      <4>1. Room(b) = FrameSize - (Prefix + Size(b))
        BY <3>5 DEF Room, End, Size
      <4>2. PICK k : k = Size(b)
        OBVIOUS
      <4>3. k \in Nat /\ Size(b') = k + n /\ Room(b) = FrameSize - (Prefix + k)
        BY <1>2, <2>2, <4>1, <4>2
      <4> QED  BY <3>2, <3>5, <4>3
    <3> QED  BY <1>1, <1>3, <3>1, <3>3, <3>4, <3>5 DEF FrameInv
  <2> QED  BY <1>1, <1>3, <2>1, <2>2, <2>3, <2>4, WriteStep
<1>5. CASE ~(n <= Room(y))
  <2>1. over' \in BOOLEAN /\ UNCHANGED <<b, src>>
    BY <1>5 DEF Put
  <2>2. FrameInv'
    BY <1>1, <1>3, <2>1 DEF FrameInv, Size
  <2> QED  BY <1>1, <1>2, <1>3, <2>1, <2>2, WriteStep
<1> QED  BY <1>4, <1>5

\* Write preserves the invariant.
LEMMA WriteIInv ==
  ASSUME IInv, NEW n \in 1..MaxArg, Write(n)
  PROVE  IInv' /\ FitStep
<1>1. n \in Nat /\ n \in Int /\ src \in Nat /\ Holds(b, src) /\ Room(b) \in Nat /\ b.cap \in Nat
  BY Start, BufReaderAssumption
<1>2. PICK y : y = grow(b, n)
  OBVIOUS
<1>3. /\ Holds(y, src) /\ Size(y) = Size(b) /\ b.cap <= y.cap
      /\ n <= b.cap => n <= Room(y)
      /\ y = b \/ Room(b) <= n
  BY ONLY <1>1, <1>2, HoldsGrow, Zenon
<1>4. Put("write", y, n)
  BY <1>2 DEF Write
<1>5. IInv'
  BY <1>1, <1>3, <1>4, PutIInv
<1>6. FitStep
  <2>1. over' /\ ~over => ~(n <= Room(y))
    BY <1>4, Zenon DEF Put
  <2>2. reply'.op = "write" /\ reply'.data = Bytes(src, n)
    BY <1>4 DEF Put
  <2>3. Len(Bytes(src, n)) = n
    BY <1>1, BytesSeq
  <2> QED  BY <1>1, <1>3, <2>1, <2>2, <2>3 DEF FitStep
<1> QED  BY <1>5, <1>6

\* WriteVarint preserves the invariant.
LEMMA WriteVarintIInv ==
  ASSUME IInv, NEW n \in 1..VarMax, WriteVarint(n)
  PROVE  IInv' /\ (ArraysLarger => FitStep)
<1>1. n \in Nat /\ src \in Nat /\ Holds(b, src) /\ Room(b) \in Nat /\ b.cap \in Nat /\ VarRoom \in Nat
  BY Start, BufReaderAssumption
<1>2. PICK y : y = Grow(b, VarRoom)
  OBVIOUS
<1>3. /\ Holds(y, src) /\ Size(y) = Size(b) /\ b.cap <= y.cap
      /\ VarRoom < b.cap => VarRoom + 1 <= Room(y)
      /\ y = b \/ Room(b) <= VarRoom
  BY ONLY <1>1, <1>2, HoldsGrowTwice, Zenon
<1>4. Put("varint", y, n)
  BY <1>2 DEF WriteVarint
<1>5. IInv'
  BY <1>1, <1>3, <1>4, PutIInv
<1>6. ASSUME ArraysLarger
      PROVE  FitStep
  <2>1. over' /\ ~over => ~(n <= Room(y))
    BY <1>4, Zenon DEF Put
  <2>2. reply'.op = "varint" /\ reply'.data = Bytes(src, n)
    BY <1>4 DEF Put
  <2>3. Len(Bytes(src, n)) = n
    BY <1>1, BytesSeq
  <2>4. VarRoom < b.cap
    BY <1>1, <1>6, BufReaderAssumption DEF IInv, FirstCap, ArraysLarger
  <2>5. Room(y) \in Nat
    BY <1>1, <1>3, HoldsTypes
  <2> QED  BY <1>1, <1>3, <2>1, <2>2, <2>3, <2>4, <2>5 DEF FitStep
<1> QED  BY <1>5, <1>6

\* Skip preserves the invariant.
LEMMA SkipIInv ==
  ASSUME IInv, use = "write", NEW n \in 1..MaxArg, Skip(n)
  PROVE  IInv' /\ FitStep
<1>1. n \in Nat /\ src \in Nat /\ Holds(b, src) /\ b.cap \in Nat /\ Size(b) \in Nat /\ src \in 0..total
  BY Start, BufReaderAssumption
<1>2. /\ pc = "idle" /\ pc' = "idle" /\ op' = "none" /\ want' = 0 /\ from' = 0
      /\ UNCHANGED <<use, over, closer, total, together, src, eof>>
      /\ b' = IF n >= Size(b) THEN Clear(b) ELSE Consume(b, n)
  BY DEF Skip, Return
<1>3. Holds(b', src') /\ b'.cap = b.cap
  <2>1. CASE n >= Size(b)
    BY <1>1, <1>2, <2>1, HoldsClear
  <2>2. CASE ~(n >= Size(b))
    <3>1. n \in 0..Size(b)
      BY <1>1, <2>2
    <3> QED  BY <1>1, <1>2, <2>2, <3>1, HoldsConsume
  <2> QED  BY <2>1, <2>2
<1>4. FirstCap' <= b'.cap /\ FirstCap' \in Nat
  BY <1>2, <1>3, BufReaderAssumption DEF IInv, FirstCap
<1>5. CallInv' /\ FrameInv' /\ UseInv' /\ Holds(b, src)'
  BY <1>2, <1>3 DEF CallInv, FrameInv, UseInv
<1>6. b'.off \in Nat /\ b'.cap \in Nat /\ End(b') <= b'.cap /\ End(b)' = End(b')
  BY <1>1, <1>2, <1>3, HoldsTypes DEF End
<1>7. TypeOK'
  BY <1>1, <1>2, <1>6 DEF IInv, TypeOK, Looks
<1> QED  BY <1>2, <1>4, <1>5, <1>7 DEF IInv, FitStep

\* Send finds the space before the message, or the message had come close to the size.
LEMMA SendFrameIInv ==
  ASSUME IInv, use = "frame", SendFrame
  PROVE  IInv' /\ FitStep
<1>1. src \in Nat /\ Holds(b, src) /\ b.cap \in Nat /\ Size(b) \in Nat /\ src \in 0..total
  BY Start
<1>2. /\ pc = "idle" /\ UNCHANGED <<use, closer, total, together, src, eof, op, want, from>>
      /\ FirstCap <= b.cap /\ FrameInv /\ over \in BOOLEAN
  BY DEF SendFrame, IInv, TypeOK
<1>3. CASE b.off < Header
  <2>1. over' \in BOOLEAN /\ UNCHANGED <<pc, b>> /\ reply'.op = "frame" /\ reply'.data = b.data
    BY <1>3 DEF SendFrame
  <2>2. FrameInv'
    BY <1>2, <2>1 DEF FrameInv, Size
  <2>3. IInv'
    BY <1>1, <1>2, <2>1, <2>2, WriteStep
  <2>4. b.off # Prefix
    <3>1. b.off \in Nat
      BY <1>1, HoldsTypes
    <3> QED  BY <1>3, <3>1, BufReaderAssumption
  <2> QED  BY <1>2, <2>1, <2>3, <2>4 DEF FrameInv, FitStep, Size
<1>4. CASE ~(b.off < Header)
  <2>1. pc' = "recycled" /\ b' = Clear(b) /\ over' = over
    BY <1>4 DEF SendFrame
  <2>2. Holds(b', src') /\ b'.cap = b.cap
    BY <1>1, <1>2, <2>1, HoldsClear
  <2>3. FrameInv'
    BY <2>1 DEF FrameInv
  <2>4. IInv'
    BY <1>1, <1>2, <2>1, <2>2, <2>3, WriteStep
  <2> QED  BY <2>1, <2>4 DEF FitStep
<1> QED  BY <1>3, <1>4

\* GetWriteFrame preserves the invariant.
LEMMA GetWriteFrameIInv ==
  ASSUME IInv, use = "frame", GetWriteFrame
  PROVE  IInv' /\ FitStep
<1>1. src \in Nat /\ src \in 0..total /\ over \in BOOLEAN
  BY Start DEF IInv, TypeOK
<1>2. /\ pc = "recycled" /\ pc' = "idle" /\ b' = Frame
      /\ UNCHANGED <<use, over, closer, total, together, src, eof, op, want, from>>
  BY DEF GetWriteFrame
<1>3. Frame.off = Prefix /\ Frame.cap = FrameSize /\ Holds(Frame, src)
  <2>1. Frame \in Buffers /\ Frame.data = <<>> /\ Frame.off = Prefix /\ Frame.cap = FrameSize
    BY BufReaderAssumption DEF Frame, Buffers
  <2>2. Size(Frame) = 0 /\ End(Frame) = Prefix
    BY <2>1, BufReaderAssumption DEF Size, End
  <2>3. Bytes(src - 0, 0) = <<>>
    BY <1>1 DEF Bytes
  <2> QED  BY <1>1, <2>1, <2>2, <2>3, BufReaderAssumption DEF Holds
<1>4. FrameInv' /\ FirstCap <= b'.cap
  BY <1>2, <1>3, BufReaderAssumption DEF FrameInv, FirstCap
<1>5. IInv'
  BY <1>1, <1>2, <1>3, <1>4, WriteStep
<1> QED  BY <1>2, <1>5 DEF FitStep

-----------------------------------------------------------------------------
(* The theorems.                                                           *)

\* A new buffer satisfies the invariant.
LEMMA InitIInv == Init => IInv
<1> SUFFICES ASSUME Init
             PROVE  IInv
  OBVIOUS
<1>1. /\ use \in {"read", "write", "stream", "frame"} /\ ~over /\ over \in BOOLEAN
      /\ closer /\ closer \in BOOLEAN /\ total \in 0..MaxInput /\ together \in BOOLEAN
      /\ src = 0 /\ eof \in BOOLEAN /\ pc = "idle" /\ op = "none" /\ want = 0 /\ from = 0
  BY Zenon DEF Init
<1>2. b = IF use = "frame" THEN Frame ELSE [data |-> <<>>, off |-> 0, cap |-> BufSize]
  BY DEF Init
<1>3. /\ b \in Buffers /\ b.data = <<>> /\ b.off \in Nat /\ b.cap = FirstCap /\ b.off <= b.cap
      /\ b.cap \in Nat /\ (use = "frame" => b.off = Prefix /\ b.cap = FrameSize)
  <2>1. CASE use = "frame"
    BY <1>2, <2>1, BufReaderAssumption DEF Frame, FirstCap, Buffers
  <2>2. CASE use # "frame"
    BY <1>2, <2>2, BufReaderAssumption DEF FirstCap, Buffers
  <2> QED  BY <2>1, <2>2
<1>4. Size(b) = 0 /\ End(b) = b.off
  BY <1>3 DEF Size, End
<1>5. Bytes(0 - 0, 0) = <<>>
  BY DEF Bytes
<1>6. Holds(b, src) /\ FirstCap <= b.cap
  BY <1>1, <1>3, <1>4, <1>5 DEF Holds
<1>7. CallInv /\ FrameInv /\ UseInv
  BY <1>1, <1>3 DEF CallInv, FrameInv, UseInv
<1>8. TypeOK
  BY <1>1, <1>3, <1>4, BufReaderAssumption DEF TypeOK, Looks
<1> QED  BY <1>6, <1>7, <1>8 DEF IInv

\* One step: what it keeps, and what it may do to the position and the array.
LEMMA NextIInv ==
  ASSUME IInv, Next
  PROVE  IInv' /\ LookStep /\ PeekStep /\ SkipStep /\ (ArraysLarger => FitStep)
<1>1. CASE \/ use = "read" /\ Reading /\ UNCHANGED <<use, over, closer>>
           \/ use = "stream" /\ Streaming /\ UNCHANGED <<use, over>>
  <2>1. FitStep
    BY <1>1, Zenon DEF FitStep
  <2> QED  BY <1>1, <2>1, ReadingIInv
<1>2. CASE \/ use = "write" /\ Writing
           \/ use = "frame" /\ Framing
  <2>1. IInv' /\ (ArraysLarger => FitStep)
    BY <1>2, WriteIInv, WriteVarintIInv, SkipIInv, SendFrameIInv, GetWriteFrameIInv
       DEF Writing, Framing
  <2>2. pc # "fill" /\ pc' # "fill"
    BY <1>2 DEF Writing, Framing, Write, WriteVarint, Put, Skip, Return, SendFrame, GetWriteFrame
  <2> QED  BY <2>1, <2>2 DEF LookStep, PeekStep, SkipStep
<1> QED  BY <1>1, <1>2 DEF Next

\* A step that changes nothing.
LEMMA StutterIInv ==
  ASSUME IInv, UNCHANGED vars
  PROVE  IInv'
<1>1. UNCHANGED <<use, over, closer, total, together, b, src, eof, pc, op, want, from, reply>>
  BY DEF vars, bufVars
<1>2. TypeOK'
  BY <1>1 DEF IInv, TypeOK, End
<1>3. CallInv' /\ FrameInv' /\ UseInv'
  BY <1>1 DEF IInv, CallInv, FrameInv, UseInv, Room, End, Size, Position
<1>4. (Holds(b, src) /\ FirstCap <= b.cap)'
  BY <1>1 DEF IInv, FirstCap
<1> QED  BY <1>2, <1>3, <1>4 DEF IInv

\* The inductive invariant of BufferReader and of the buffers of InOutStream.
THEOREM Invariance == Spec => []IInv
<1>1. IInv /\ [Next]_vars => IInv'
  BY NextIInv, StutterIInv
<1> QED  BY <1>1, InitIInv, PTL DEF Spec

\* off <= end <= cap, whatever the sizes of the arrays and the counts of the callers
\* (nio/buf.go:24-29).
THEOREM Types == Spec => []TypeOK
<1>1. IInv => TypeOK
  BY DEF IInv
<1> QED  BY <1>1, Invariance, PTL

\* The buffer always holds exactly the bytes that follow the reader's position: Fill,
\* grow and the consumers lose, repeat and reorder none (nio/buf.go:205-333).
THEOREM BufferStaysStream == Spec => []BufferIsStream
<1>1. IInv => BufferIsStream
  BY DEF IInv, Holds, BufferIsStream, Position
<1> QED  BY <1>1, Invariance, PTL

\* Looking ahead never moves the position, Peek shows what it was asked for or all the
\* source had, Discard moves by its count and InOutStream.Skip by at most twice its
\* (nio/buf.go:354-404, nio/sni.go:36, nio/stream_in_out.go:286-309).
THEOREM PositionsAreMeant == Spec => PositionsMeant
<1>1. IInv /\ [Next]_vars => [LookStep]_bufVars /\ [PeekStep]_bufVars /\ [SkipStep]_bufVars
  <2>1. UNCHANGED vars => UNCHANGED bufVars
    BY DEF vars
  <2> QED  BY <2>1, NextIInv
<1>2. Spec => [][LookStep]_bufVars /\ [][PeekStep]_bufVars /\ [][SkipStep]_bufVars
  BY <1>1, Invariance, PTL DEF Spec
<1> QED  BY <1>2 DEF PositionsMeant, LookStep, PeekStep, SkipStep

\* A write goes beyond the array only when it is longer than the array was, or a varint
\* more than one byte longer than its room; Send finds its space unless the message came
\* close to the size of the frame (nio/buf.go:157-219, nio/stream_in_out.go:1120-1135).
\* For any arrays larger than the room asked for a varint.
THEOREM WritesDoFit == ArraysLarger => (Spec => WritesFit)
<1> SUFFICES ASSUME ArraysLarger
             PROVE  Spec => WritesFit
  OBVIOUS
<1>1. IInv /\ [Next]_vars => [FitStep]_vars
  BY NextIInv
<1>2. Spec => [][FitStep]_vars
  BY <1>1, Invariance, PTL DEF Spec
<1> QED  BY <1>2 DEF WritesFit, FitStep
=============================================================================
