------------------------------ MODULE TunnelInv ------------------------------
(***************************************************************************)
(* The inductive invariant of Tunnel, for any number of bytes, any lengths *)
(* of headers and any sets of faults: where the bytes of each direction    *)
(* are, and what that says of the copiers, the handler and Proxy.  Peers   *)
(* and handlers preserve it.                                               *)
(***************************************************************************)
EXTENDS Tunnel, TLAPS

\* Time for each leaf of the proofs.
USE SMTT(30), ZenonT(20)

\* The n bytes after position a.
Run(a, n) == [i \in 1..n |-> a + i]

\* Queue q holds the n bytes after position a, and behind them nothing but FIN and RST.
Queue(q, a, n) ==
  /\ q \in Seq(Items) /\ n \in 0..Len(q)
  /\ \A i \in 1..n : q[i] = a + i
  /\ \A i \in (n + 1)..Len(q) : q[i] \in {FIN, RST}

\* Where the bytes of the peer that copier s reads from are: the first base of them were
\* taken before it started, w have been written, buf[s] holds the next one or none, r are
\* in the queue after position p.  Bytes are missing only between buf and the queue, once a
\* Write has failed, and behind the queue, once the peer has reset; after an EOF, none.
Dir(s, base, w, p, r) ==
  /\ w \in Nat /\ p \in Nat /\ r \in Nat
  /\ Queue(tx[Out(s)], base, w) /\ Queue(rx[In(s)], p, r)
  /\ buf[s] \in {<<>>, <<base + w + 1>>}
  /\ base + w + Len(buf[s]) <= p /\ (err[s] # "out" => p = base + w + Len(buf[s]))
  /\ p + r <= sent[In(s)] /\ (peer[In(s)] # "reset" => p + r = sent[In(s)])
  /\ Carries(rx[In(s)], FIN) => p + r = sent[In(s)] /\ peer[In(s)] # "open"
  /\ Carries(rx[In(s)], RST) => peer[In(s)] = "reset"
  /\ rerr[s] = "EOF" /\ "quic" \notin faults => peer[In(s)] # "open" /\ p = sent[In(s)]

\* FIN or RST has been sent on no connection that is open for writing.
SocketInv ==
  \A x \in Sides : conn[x] \in {"none", "open"} => ~Carries(tx[x], FIN) /\ ~Carries(tx[x], RST)

-----------------------------------------------------------------------------
(* Queues.                                                                 *)

\* FIN and RST are not bytes.
LEMMA MarkItems == FIN \in Items /\ RST \in Items /\ ~IsByte(FIN) /\ ~IsByte(RST) /\ FIN # RST
  BY DEF FIN, RST, Items, IsByte

\* A queue, item by item.
LEMMA QueueTypes ==
  ASSUME NEW q, NEW a \in Nat, NEW n, Queue(q, a, n)
  PROVE  /\ q \in Seq(Items) /\ n \in Nat /\ Len(q) \in Nat /\ n <= Len(q) /\ DOMAIN q = 1..Len(q)
         /\ \A i \in 1..Len(q) : q[i] \in Items
         /\ \A i \in 1..n : q[i] = a + i /\ IsByte(q[i]) /\ q[i] # FIN /\ q[i] # RST
         /\ \A i \in 1..Len(q) : ~(i <= n) => q[i] \in {FIN, RST}
<1>1. q \in Seq(Items) /\ n \in 0..Len(q)
  BY DEF Queue
<1>2. Len(q) \in Nat /\ DOMAIN q = 1..Len(q) /\ \A i \in 1..Len(q) : q[i] \in Items
  BY <1>1
<1>3. n \in Nat /\ n <= Len(q)
  BY <1>1, <1>2
<1>4. ASSUME NEW i \in 1..n
      PROVE  q[i] = a + i /\ IsByte(q[i]) /\ q[i] # FIN /\ q[i] # RST
  <2>1. q[i] = a + i
    BY DEF Queue
  <2> QED  BY <2>1, <1>3 DEF IsByte, FIN, RST
<1>5. ASSUME NEW i \in 1..Len(q), ~(i <= n)
      PROVE  q[i] \in {FIN, RST}
  <2>1. i \in (n + 1)..Len(q)
    BY <1>2, <1>3, <1>5
  <2> QED  BY <2>1 DEF Queue
<1> QED  BY <1>1, <1>2, <1>3, <1>4, <1>5

\* Data returns the bytes of a queue.
LEMMA QueueData ==
  ASSUME NEW q, NEW a \in Nat, NEW n, Queue(q, a, n)
  PROVE  Data(q) = Run(a, n) /\ Len(Data(q)) = n /\ n \in Nat
<1>1. /\ q \in Seq(Items) /\ n \in 0..Len(q) /\ Len(q) \in Nat /\ n \in Nat
      /\ (\A i \in 1..n : q[i] = a + i /\ IsByte(q[i]))
      /\ \A i \in 1..Len(q) : ~(i <= n) => q[i] \in {FIN, RST}
  BY QueueTypes
<1> DEFINE P(m) == \A i \in 1..Len(q) : IsByte(q[i]) <=> i <= m
           m == CHOOSE k \in 0..Len(q) : P(k)
<1>2. P(n)
  <2>1. ASSUME NEW i \in 1..Len(q)
        PROVE  IsByte(q[i]) <=> i <= n
    <3>1. CASE i <= n
      <4>1. i \in 1..n
        BY <3>1, <1>1
      <4> QED  BY <3>1, <4>1, <1>1
    <3>2. CASE ~(i <= n)
      BY <3>2, <1>1, MarkItems
    <3> QED  BY <3>1, <3>2
  <2> QED  BY <2>1
<1>3. m \in 0..Len(q) /\ P(m)
  BY <1>1, <1>2, Zenon
<1>4. m = n
  <2> HIDE DEF m
  <2>1. CASE m < n
    <3>1. n \in 1..Len(q) /\ ~(n <= m)
      BY <1>1, <1>3, <2>1
    <3> QED  BY <1>2, <1>3, <3>1, <1>1
  <2>2. CASE n < m
    <3>1. m \in 1..Len(q) /\ ~(m <= n) /\ m <= m
      BY <1>1, <1>3, <2>2
    <3> QED  BY <1>2, <1>3, <3>1
  <2> QED  BY <1>1, <1>3, <2>1, <2>2
<1>5. Data(q) = SubSeq(q, 1, n)
  BY <1>4, Zenon DEF Data
<1>6. SubSeq(q, 1, n) = [i \in 1..n |-> q[i]] /\ Len(SubSeq(q, 1, n)) = n
  BY <1>1
<1>7. [i \in 1..n |-> q[i]] = Run(a, n)
  BY <1>1 DEF Run
<1> QED  BY <1>1, <1>5, <1>6, <1>7

\* One more byte.
LEMMA QueueByte ==
  ASSUME NEW q, NEW a \in Nat, NEW n, Queue(q, a, n), Len(q) = n
  PROVE  Queue(Append(q, a + n + 1), a, n + 1)
<1>1. q \in Seq(Items) /\ n \in Nat /\ \A i \in 1..n : q[i] = a + i
  BY QueueTypes
<1>2. a + n + 1 \in Items
  BY <1>1 DEF Items
<1>3. PICK v : v = a + n + 1
  OBVIOUS
<1>4. v \in Items
  BY <1>2, <1>3
<1>5. /\ Append(q, v) \in Seq(Items) /\ Len(Append(q, v)) = n + 1
      /\ (\A i \in 1..n : Append(q, v)[i] = q[i]) /\ Append(q, v)[n + 1] = v
  BY ONLY <1>1, <1>4, Len(q) = n
<1>6. ASSUME NEW i \in 1..(n + 1)
      PROVE  Append(q, v)[i] = a + i
  <2>1. i \in 1..n \/ i = n + 1
    BY <1>1
  <2> QED  BY <1>1, <1>3, <1>5, <2>1
<1>7. Queue(Append(q, v), a, n + 1)
  BY <1>1, <1>5, <1>6 DEF Queue
<1> QED  BY <1>3, <1>7

\* A FIN or RST behind it.
LEMMA QueueMark ==
  ASSUME NEW q, NEW a \in Nat, NEW n, Queue(q, a, n), NEW v \in {FIN, RST}
  PROVE  /\ Queue(Append(q, v), a, n)
         /\ \A u : Carries(Append(q, v), u) <=> Carries(q, u) \/ u = v
<1>1. /\ q \in Seq(Items) /\ n \in Nat /\ Len(q) \in Nat /\ n <= Len(q) /\ DOMAIN q = 1..Len(q)
      /\ \A i \in 1..n : q[i] = a + i
      /\ \A i \in 1..Len(q) : ~(i <= n) => q[i] \in {FIN, RST}
  BY QueueTypes
<1>2. v \in Items
  BY MarkItems
<1>3. PICK c : c = Append(q, v)
  BY Zenon
<1>4. /\ c \in Seq(Items) /\ Len(c) = Len(q) + 1
      /\ (\A i \in 1..Len(q) : c[i] = q[i]) /\ c[Len(q) + 1] = v
      /\ DOMAIN c = 1..(Len(q) + 1)
  BY ONLY <1>1, <1>2, <1>3
<1>5. \A i \in 1..n : c[i] = a + i
  BY <1>1, <1>4
<1>6. ASSUME NEW i \in (n + 1)..(Len(q) + 1)
      PROVE  c[i] \in {FIN, RST}
  <2>1. (i \in 1..Len(q) /\ ~(i <= n)) \/ i = Len(q) + 1
    BY <1>1
  <2> QED  BY <1>1, <1>4, <2>1
<1>7. Queue(c, a, n)
  BY <1>1, <1>4, <1>5, <1>6 DEF Queue
<1>8. \A u : Carries(c, u) <=> Carries(q, u) \/ u = v
  <2>1. \A i : i \in 1..(Len(q) + 1) <=> i \in 1..Len(q) \/ i = Len(q) + 1
    BY <1>1
  <2> QED  BY <1>1, <1>4, <2>1 DEF Carries
<1> QED  BY <1>3, <1>7, <1>8

\* The first k bytes are taken.
LEMMA QueueRest ==
  ASSUME NEW q, NEW a \in Nat, NEW n, Queue(q, a, n), NEW k \in 0..n, NEW c \in Seq(Items),
         Len(c) = Len(q) - k, \A i \in 1..Len(c) : c[i] = q[i + k]
  PROVE  /\ Queue(c, a + k, n - k)
         /\ \A u \in {FIN, RST} : Carries(c, u) <=> Carries(q, u)
<1>1. /\ n \in Nat /\ Len(q) \in Nat /\ n <= Len(q) /\ DOMAIN q = 1..Len(q)
      /\ \A i \in 1..n : q[i] = a + i /\ q[i] # FIN /\ q[i] # RST
      /\ \A i \in 1..Len(q) : ~(i <= n) => q[i] \in {FIN, RST}
  BY QueueTypes
<1>2. Len(c) \in Nat /\ DOMAIN c = 1..Len(c) /\ n - k \in 0..Len(c) /\ k \in Nat
  BY <1>1
<1>3. ASSUME NEW i \in 1..(n - k)
      PROVE  c[i] = (a + k) + i
  <2>1. i \in 1..Len(c) /\ i + k \in 1..n
    BY <1>1, <1>2
  <2>2. c[i] = q[i + k] /\ q[i + k] = a + (i + k)
    BY <2>1, <1>1
  <2> QED  BY <2>2, <1>1, <1>2
<1>4. ASSUME NEW i \in ((n - k) + 1)..Len(c)
      PROVE  c[i] \in {FIN, RST}
  <2>1. i \in 1..Len(c) /\ i + k \in 1..Len(q) /\ ~(i + k <= n)
    BY <1>1, <1>2
  <2> QED  BY <2>1, <1>1
<1>5. Queue(c, a + k, n - k)
  BY <1>2, <1>3, <1>4 DEF Queue
<1>6. ASSUME NEW u \in {FIN, RST}
      PROVE  Carries(c, u) <=> Carries(q, u)
  <2>1. ASSUME Carries(c, u)
        PROVE  Carries(q, u)
    <3>1. PICK i \in 1..Len(c) : c[i] = u
      BY <2>1, <1>2 DEF Carries
    <3>2. i + k \in 1..Len(q) /\ q[i + k] = u
      BY <3>1, <1>1, <1>2
    <3> QED  BY <3>2, <1>1 DEF Carries
  <2>2. ASSUME Carries(q, u)
        PROVE  Carries(c, u)
    <3>1. PICK i \in 1..Len(q) : q[i] = u
      BY <2>2, <1>1 DEF Carries
    <3>2. ~(i <= n)
      <4>1. ASSUME i <= n
            PROVE  FALSE
        <5>1. i \in 1..n
          BY <4>1, <1>1
        <5> QED  BY <5>1, <3>1, <1>1
      <4> QED  BY <4>1
    <3>3. i - k \in 1..Len(c) /\ (i - k) + k = i
      BY <3>2, <1>1, <1>2
    <3> QED  BY <3>1, <3>3, <1>2, Zenon DEF Carries
  <2> QED  BY <2>1, <2>2
<1> QED  BY <1>5, <1>6

\* Tail, one by one.
LEMMA TailOf ==
  ASSUME NEW q \in Seq(Items), q # <<>>
  PROVE  /\ Tail(q) \in Seq(Items) /\ Len(Tail(q)) = Len(q) - 1 /\ Len(q) \in Nat \ {0}
         /\ (\A i \in 1..Len(Tail(q)) : Tail(q)[i] = q[i + 1]) /\ Head(q) = q[1]
  OBVIOUS

\* A suffix, one by one.
LEMMA DropOf ==
  ASSUME NEW q \in Seq(Items), NEW k \in 0..Len(q)
  PROVE  /\ SubSeq(q, k + 1, Len(q)) \in Seq(Items) /\ Len(SubSeq(q, k + 1, Len(q))) = Len(q) - k
         /\ \A i \in 1..Len(SubSeq(q, k + 1, Len(q))) : SubSeq(q, k + 1, Len(q))[i] = q[i + k]
<1>1. Len(q) \in Nat /\ k \in Nat
  OBVIOUS
<1>2. PICK c : c = SubSeq(q, k + 1, Len(q))
  BY Zenon
<1>3. c \in Seq(Items) /\ Len(c) = Len(q) - k /\ \A i \in 1..(Len(q) - k) : c[i] = q[k + i]
  BY <1>1, <1>2
<1>4. \A i \in 1..(Len(q) - k) : k + i = i + k
  BY <1>1
<1> QED  BY <1>2, <1>3, <1>4

\* The head of a queue with bytes, or without.
LEMMA QueueHead ==
  ASSUME NEW q, NEW a \in Nat, NEW n, Queue(q, a, n), q # <<>>
  PROVE  /\ IsByte(Head(q)) => n > 0 /\ Head(q) = a + 1 /\ Queue(Tail(q), a + 1, n - 1)
                               /\ \A u \in {FIN, RST} : Carries(Tail(q), u) <=> Carries(q, u)
         /\ ~IsByte(Head(q)) => n = 0
         /\ Head(q) \in {FIN, RST} => n = 0 /\ Carries(q, Head(q))
         /\ Len(q) > 1 /\ q[2] = FIN => n <= 1 /\ Carries(q, FIN)
<1>1. /\ q \in Seq(Items) /\ n \in Nat /\ Len(q) \in Nat /\ n <= Len(q) /\ DOMAIN q = 1..Len(q)
      /\ \A i \in 1..n : q[i] = a + i /\ IsByte(q[i]) /\ q[i] # FIN /\ q[i] # RST
      /\ \A i \in 1..Len(q) : ~(i <= n) => q[i] \in {FIN, RST}
  BY QueueTypes
<1>2. /\ Tail(q) \in Seq(Items) /\ Len(Tail(q)) = Len(q) - 1 /\ Len(q) >= 1
      /\ (\A i \in 1..Len(Tail(q)) : Tail(q)[i] = q[i + 1]) /\ Head(q) = q[1]
  BY <1>1, TailOf
<1>3. CASE n = 0
  <2>1. 1 \in 1..Len(q) /\ ~(1 <= n)
    BY <1>2, <1>3, <1>1
  <2>2. Head(q) \in {FIN, RST} /\ ~IsByte(Head(q)) /\ Carries(q, Head(q))
    BY <2>1, <1>1, <1>2, MarkItems DEF Carries
  <2>3. Len(q) > 1 /\ q[2] = FIN => Carries(q, FIN)
    BY <1>1 DEF Carries
  <2> QED  BY <1>3, <2>2, <2>3
<1>4. CASE n > 0
  <2>1. 1 \in 1..n /\ 1 \in 0..n
    BY <1>1, <1>4
  <2>2. Head(q) = a + 1 /\ IsByte(Head(q)) /\ Head(q) \notin {FIN, RST}
    BY <2>1, <1>1, <1>2
  <2>3. /\ Queue(Tail(q), a + 1, n - 1)
        /\ \A u \in {FIN, RST} : Carries(Tail(q), u) <=> Carries(q, u)
    BY <2>1, <1>2, QueueRest, Zenon
  <2>4. Len(q) > 1 /\ q[2] = FIN => n <= 1 /\ Carries(q, FIN)
    <3>1. ASSUME Len(q) > 1, q[2] = FIN, n > 1
          PROVE  FALSE
      <4>1. 2 \in 1..n
        BY <3>1, <1>1
      <4> QED  BY <3>1, <4>1, <1>1
    <3> QED  BY <3>1, <1>1 DEF Carries
  <2> QED  BY <1>4, <2>2, <2>3, <2>4
<1> QED  BY <1>1, <1>3, <1>4

\* A queue without FIN and RST is only bytes.
LEMMA QueueBytes ==
  ASSUME NEW q, NEW a \in Nat, NEW n, Queue(q, a, n), ~Carries(q, FIN), ~Carries(q, RST)
  PROVE  Len(q) = n
<1>1. /\ n \in Nat /\ Len(q) \in Nat /\ n <= Len(q) /\ DOMAIN q = 1..Len(q)
      /\ \A i \in 1..Len(q) : ~(i <= n) => q[i] \in {FIN, RST}
  BY QueueTypes
<1>2. ASSUME n < Len(q)
      PROVE  FALSE
  <2>1. Len(q) \in 1..Len(q) /\ ~(Len(q) <= n)
    BY <1>1, <1>2
  <2> QED  BY <2>1, <1>1 DEF Carries
<1>3. PICK k : k = Len(q)
  BY Zenon
<1>4. k \in Nat /\ n <= k /\ ~(n < k)
  BY <1>1, <1>2, <1>3
<1>5. n = k
  BY ONLY <1>1, <1>4
<1> QED  BY <1>3, <1>5

\* The empty queue.
LEMMA QueueEmpty ==
  ASSUME NEW a \in Nat
  PROVE  Queue(<<>>, a, 0) /\ ~Carries(<<>>, FIN) /\ ~Carries(<<>>, RST)
  BY DEF Queue, Carries

\* What CloseSends may send.
Closings == {<<>>, <<FIN>>, <<RST>>}

\* Closing puts FIN, RST or nothing behind the bytes.
LEMMA QueueClosing ==
  ASSUME NEW q, NEW a \in Nat, NEW n, Queue(q, a, n), NEW m \in Closings
  PROVE  Queue(q \o m, a, n) /\ (Carries(q \o m, FIN) => Carries(q, FIN) \/ m = <<FIN>>)
<1>1. q \in Seq(Items)
  BY QueueTypes
<1>2. q \o <<>> = q /\ (\A v : q \o <<v>> = Append(q, v))
  BY <1>1
<1>3. m = <<>> \/ \E v \in {FIN, RST} : m = <<v>>
  BY DEF Closings
<1>4. CASE m = <<>>
  BY <1>2, <1>4
<1>5. ASSUME NEW v \in {FIN, RST}, m = <<v>>
      PROVE  Queue(q \o m, a, n) /\ (Carries(q \o m, FIN) => Carries(q, FIN) \/ m = <<FIN>>)
  <2>1. q \o m = Append(q, v)
    BY <1>2, <1>5
  <2>2. Queue(Append(q, v), a, n) /\ (Carries(Append(q, v), FIN) => Carries(q, FIN) \/ FIN = v)
    BY QueueMark
  <2> QED  BY <2>1, <2>2, <1>5
<1> QED  BY <1>3, <1>4, <1>5

-----------------------------------------------------------------------------
(* One direction.                                                          *)

\* The numbers of a direction.
LEMMA DirTypes ==
  ASSUME NEW s, NEW a \in Nat, NEW w, NEW p, NEW r, Dir(s, a, w, p, r)
  PROVE  /\ w \in Nat /\ p \in Nat /\ r \in Nat /\ Len(buf[s]) \in {0, 1}
         /\ (buf[s] = <<>> <=> Len(buf[s]) = 0)
<1>1. w \in Nat /\ p \in Nat /\ r \in Nat /\ buf[s] \in {<<>>, <<a + w + 1>>}
  BY DEF Dir
<1>2. Len(<<>>) = 0 /\ Len(<<a + w + 1>>) = 1 /\ <<>> # <<a + w + 1>>
  OBVIOUS
<1> QED  BY <1>1, <1>2

\* The other end is closed, or nothing happens; a failure may be recorded.
LEMMA DirKept ==
  ASSUME NEW s, NEW a \in Nat, NEW w, NEW p, NEW r, Dir(s, a, w, p, r),
         NEW m \in Closings, tx'[Out(s)] = tx[Out(s)] \o m, rx'[In(s)] = rx[In(s)],
         buf'[s] = buf[s] \/ (buf'[s] = <<>> /\ err'[s] = "out"),
         err'[s] # "out" => err[s] # "out",
         sent'[In(s)] = sent[In(s)], peer'[In(s)] = peer[In(s)], faults' = faults,
         rerr'[s] = "EOF" /\ "quic" \notin faults =>
            peer[In(s)] # "open" /\ p = sent[In(s)]
  PROVE  Dir(s, a, w, p, r)'
<1>1. w \in Nat /\ p \in Nat /\ r \in Nat /\ Len(buf[s]) \in {0, 1}
  BY DirTypes
<1>2. Queue(tx'[Out(s)], a, w)
  <2>1. Queue(tx[Out(s)], a, w)
    BY Zenon DEF Dir
  <2> QED  BY <1>1, <2>1, QueueClosing, Zenon
<1>3. /\ buf'[s] \in {<<>>, <<a + w + 1>>}
      /\ a + w + Len(buf'[s]) <= p /\ (err'[s] # "out" => p = a + w + Len(buf'[s]))
  <2>1. /\ buf[s] \in {<<>>, <<a + w + 1>>}
        /\ a + w + Len(buf[s]) <= p /\ (err[s] # "out" => p = a + w + Len(buf[s]))
    BY Zenon DEF Dir
  <2>2. PICK d, f : d = buf'[s] /\ f = err'[s]
    OBVIOUS
  <2>3. d = buf[s] \/ (d = <<>> /\ f = "out")
    BY <2>2
  <2>4. f # "out" => err[s] # "out"
    BY <2>2
  <2>5. d \in {<<>>, <<a + w + 1>>} /\ a + w + Len(d) <= p /\ (f # "out" => p = a + w + Len(d))
    <3>1. CASE d = buf[s]
      BY <2>1, <2>4, <3>1
    <3>2. CASE d = <<>> /\ f = "out"
      <4>1. Len(d) = 0
        BY <3>2
      <4>2. PICK k : k = Len(buf[s])
        BY Zenon
      <4>3. k \in Nat /\ a + w + k <= p
        BY <1>1, <2>1, <4>2, Zenon
      <4>4. a + w + 0 <= p
        BY ONLY <4>3, <1>1, a \in Nat
      <4> QED  BY <3>2, <4>1, <4>4
    <3> QED  BY <2>3, <3>1, <3>2
  <2> QED  BY <2>2, <2>5
<1>4. Queue(rx'[In(s)], p, r)
  BY DEF Dir
<1>5. /\ p + r <= sent'[In(s)] /\ (peer'[In(s)] # "reset" => p + r = sent'[In(s)])
      /\ Carries(rx'[In(s)], FIN) => p + r = sent'[In(s)] /\ peer'[In(s)] # "open"
      /\ Carries(rx'[In(s)], RST) => peer'[In(s)] = "reset"
      /\ rerr'[s] = "EOF" /\ "quic" \notin faults' => peer'[In(s)] # "open" /\ p = sent'[In(s)]
  BY DEF Dir
<1> QED  BY <1>1, <1>2, <1>3, <1>4, <1>5, Zenon DEF Dir

\* A Read returns a byte, perhaps together with the end.
LEMMA DirRead ==
  ASSUME NEW s, NEW a \in Nat, NEW w, NEW p, NEW r, Dir(s, a, w, p, r),
         sent[In(s)] \in Nat, buf[s] = <<>>, err[s] # "out", rx[In(s)] # <<>>, IsByte(Head(rx[In(s)])),
         tx'[Out(s)] = tx[Out(s)], rx'[In(s)] = Tail(rx[In(s)]), buf'[s] = <<Head(rx[In(s)])>>,
         err'[s] = err[s], sent'[In(s)] = sent[In(s)], peer'[In(s)] = peer[In(s)], faults' = faults,
         rerr'[s] = rerr[s] \/ (Len(rx[In(s)]) > 1 /\ rx[In(s)][2] = FIN)
  PROVE  r > 0 /\ Dir(s, a, w, p + 1, r - 1)'
<1>1. PICK q, n, e : q = rx[In(s)] /\ n = sent[In(s)] /\ e = peer[In(s)]
  OBVIOUS
<1>2. /\ w \in Nat /\ p \in Nat /\ r \in Nat /\ n \in Nat /\ Len(buf[s]) = 0
      /\ Queue(q, p, r) /\ q # <<>> /\ IsByte(Head(q))
  BY <1>1, DirTypes DEF Dir
<1>3. /\ p = a + w /\ p + r <= n /\ (e # "reset" => p + r = n)
      /\ (Carries(q, FIN) => p + r = n /\ e # "open") /\ (Carries(q, RST) => e = "reset")
      /\ (rerr[s] = "EOF" /\ "quic" \notin faults => e # "open" /\ p = n)
      /\ Queue(tx[Out(s)], a, w)
  BY <1>1, <1>2 DEF Dir
<1>4. /\ r > 0 /\ Head(q) = p + 1 /\ Queue(Tail(q), p + 1, r - 1)
      /\ (Carries(Tail(q), FIN) <=> Carries(q, FIN)) /\ (Carries(Tail(q), RST) <=> Carries(q, RST))
      /\ Len(q) > 1 /\ q[2] = FIN => r <= 1 /\ Carries(q, FIN)
  BY <1>2, QueueHead
<1>5. p + 1 \in Nat /\ r - 1 \in Nat /\ (p + 1) + (r - 1) = p + r
  BY <1>2, <1>4
<1>6. buf'[s] = <<a + w + 1>> /\ Len(buf'[s]) = 1 /\ a + w + 1 = p + 1
  BY <1>1, <1>2, <1>3, <1>4
<1>7. rerr'[s] = "EOF" /\ "quic" \notin faults => e # "open" /\ p + 1 = n
  BY <1>1, <1>2, <1>3, <1>4
<1> QED  BY <1>1, <1>2, <1>3, <1>4, <1>5, <1>6, <1>7 DEF Dir

\* What was read is written.
LEMMA DirWrite ==
  ASSUME NEW s, NEW a \in Nat, NEW w, NEW p, NEW r, Dir(s, a, w, p, r),
         sent[In(s)] \in Nat, buf[s] # <<>>, ~Carries(tx[Out(s)], FIN), ~Carries(tx[Out(s)], RST),
         tx'[Out(s)] = tx[Out(s)] \o buf[s], rx'[In(s)] = rx[In(s)], buf'[s] = <<>>,
         err'[s] = err[s], sent'[In(s)] = sent[In(s)], peer'[In(s)] = peer[In(s)], faults' = faults,
         rerr'[s] = rerr[s]
  PROVE  /\ Dir(s, a, w + 1, p, r)' /\ a + w + 1 <= sent[In(s)]
         /\ ~Carries(tx'[Out(s)], FIN) /\ ~Carries(tx'[Out(s)], RST)
<1>1. PICK q, v : q = tx[Out(s)] /\ v = a + w + 1
  OBVIOUS
<1>2. w \in Nat /\ p \in Nat /\ r \in Nat /\ buf[s] = <<v>> /\ Len(buf[s]) = 1 /\ Queue(q, a, w)
  BY <1>1, DirTypes DEF Dir
<1>3. Len(q) = w /\ q \in Seq(Items)
  BY <1>1, <1>2, QueueBytes, QueueTypes
<1>4. tx'[Out(s)] = Append(q, v)
  <2>1. tx'[Out(s)] = q \o <<v>>
    BY <1>1, <1>2
  <2> QED  BY ONLY <2>1, <1>3
<1>5. Queue(tx'[Out(s)], a, w + 1)
  BY <1>1, <1>2, <1>3, <1>4, QueueByte, Zenon
<1>6. /\ p \in Nat /\ r \in Nat /\ Queue(rx[In(s)], p, r)
      /\ a + w + 1 <= p /\ (err[s] # "out" => p = a + w + 1)
      /\ p + r <= sent[In(s)] /\ (peer[In(s)] # "reset" => p + r = sent[In(s)])
      /\ Carries(rx[In(s)], FIN) => p + r = sent[In(s)] /\ peer[In(s)] # "open"
      /\ Carries(rx[In(s)], RST) => peer[In(s)] = "reset"
      /\ rerr[s] = "EOF" /\ "quic" \notin faults => peer[In(s)] # "open" /\ p = sent[In(s)]
  BY <1>2 DEF Dir
<1>7. w + 1 \in Nat /\ Len(<<>>) = 0 /\ a + (w + 1) + 0 = a + w + 1
  BY <1>2
<1>8. Dir(s, a, w + 1, p, r)'
  BY <1>5, <1>6, <1>7 DEF Dir
<1>9. ~Carries(tx'[Out(s)], FIN) /\ ~Carries(tx'[Out(s)], RST)
  <2>1. PICK c : c = tx'[Out(s)]
    BY Zenon
  <2>2. Queue(c, a, w + 1)
    BY <1>5, <2>1
  <2>3. Len(c) = w + 1
    BY <1>2, <1>3, <1>4, <2>1
  <2>4. DOMAIN c = 1..(w + 1) /\ \A i \in 1..(w + 1) : c[i] # FIN /\ c[i] # RST
    BY <2>2, <2>3, QueueTypes
  <2> QED  BY <2>1, <2>4, Zenon DEF Carries
<1>10. a + w + 1 <= sent[In(s)]
  BY <1>2, <1>6
<1> QED  BY <1>8, <1>9, <1>10

\* The peer that s reads from sends a byte, ends its stream or resets.
LEMMA DirPeer ==
  ASSUME NEW s \in Copiers, NEW a \in Nat, NEW w, NEW p, NEW r, Dir(s, a, w, p, r),
         sent \in [Sides -> Nat], peer \in [Sides -> {"open", "fin", "reset"}],
         rx \in [Sides -> Seq(Items)], faults' = faults,
         PeerSend(In(s)) \/ PeerFin(In(s)) \/ PeerReset(In(s))
  PROVE  \E k \in Nat : Dir(s, a, w, p, k)'
<1>1. PICK x : x = In(s)
  OBVIOUS
<1>2. PICK q, n, e : q = rx[x] /\ n = sent[x] /\ e = peer[x]
  BY Zenon
<1>3. x \in Sides /\ n \in Nat /\ q \in Seq(Items) /\ w \in Nat /\ p \in Nat /\ r \in Nat
  BY <1>1, <1>2, DirTypes, Zenon DEF In, Sides, Copiers
<1>4. /\ Queue(q, p, r) /\ p + r <= n /\ (e # "reset" => p + r = n)
      /\ (Carries(q, FIN) => p + r = n /\ e # "open") /\ (Carries(q, RST) => e = "reset")
      /\ (rerr[s] = "EOF" /\ "quic" \notin faults => e # "open" /\ p = n)
  BY <1>1, <1>2 DEF Dir
<1>5. UNCHANGED <<tx, buf, rerr, err>>
  BY DEF PeerSend, PeerFin, PeerReset, copyVars
<1>6. ASSUME NEW k \in Nat, NEW q1, NEW n1, NEW e1, rx'[x] = q1, sent'[x] = n1, peer'[x] = e1,
             Queue(q1, p, k), p + k <= n1, e1 # "reset" => p + k = n1,
             Carries(q1, FIN) => p + k = n1 /\ e1 # "open", Carries(q1, RST) => e1 = "reset",
             rerr[s] = "EOF" /\ "quic" \notin faults => e1 # "open" /\ p = n1
      PROVE  Dir(s, a, w, p, k)'
  <2>1. /\ w \in Nat /\ p \in Nat /\ Queue(tx[Out(s)], a, w) /\ buf[s] \in {<<>>, <<a + w + 1>>}
        /\ a + w + Len(buf[s]) <= p /\ (err[s] # "out" => p = a + w + Len(buf[s]))
    BY Zenon DEF Dir
  <2> QED  BY <1>1, <1>5, <1>6, <2>1, Zenon DEF Dir
<1>7. CASE PeerSend(x)
  <2>1. e = "open" /\ rx'[x] = Append(q, n + 1) /\ sent'[x] = n + 1 /\ peer'[x] = e
    BY <1>2, <1>3, <1>7 DEF PeerSend
  <2>2. Len(q) = r /\ p + r = n
    BY <1>3, <1>4, <2>1, QueueBytes
  <2>3. Queue(Append(q, p + r + 1), p, r + 1)
    BY <1>3, <1>4, <2>2, QueueByte, Zenon
  <2>4. PICK c : c = Append(q, n + 1)
    BY Zenon
  <2>5. Queue(c, p, r + 1) /\ Len(c) = r + 1 /\ p + (r + 1) = n + 1 /\ r + 1 \in Nat
    <3>1. n + 1 = p + r + 1 /\ p + (r + 1) = n + 1 /\ r + 1 \in Nat
      BY <1>3, <2>2
    <3>2. PICK v : v = n + 1
      OBVIOUS
    <3>3. c = Append(q, v) /\ Queue(c, p, r + 1)
      BY <2>3, <2>4, <3>1, <3>2
    <3>4. Len(c) = r + 1
      BY ONLY <1>3, <2>2, <3>3
    <3> QED  BY <3>1, <3>3, <3>4
  <2>6. ~Carries(c, FIN) /\ ~Carries(c, RST)
    BY <1>3, <2>5, QueueTypes DEF Carries
  <2>7. p + (r + 1) <= n + 1
    BY <1>3, <2>5
  <2>8. Dir(s, a, w, p, r + 1)'
    BY <1>4, <1>6, <2>1, <2>4, <2>5, <2>6, <2>7, Zenon
  <2> QED  BY <2>5, <2>8
<1>8. CASE PeerFin(x)
  <2>1. e = "open" /\ rx'[x] = Append(q, FIN) /\ sent'[x] = n /\ peer'[x] = "fin"
    BY <1>2, <1>3, <1>8 DEF PeerFin
  <2>2. Queue(Append(q, FIN), p, r) /\ (Carries(Append(q, FIN), RST) => Carries(q, RST) \/ RST = FIN)
    BY <1>3, <1>4, QueueMark
  <2>3. Dir(s, a, w, p, r)'
    BY <1>3, <1>4, <1>6, <2>1, <2>2, MarkItems, Zenon
  <2> QED  BY <1>3, <2>3
<1>9. CASE PeerReset(x)
  <2>1. sent'[x] = n /\ peer'[x] = "reset"
        /\ (rx'[x] = Append(q, RST) \/ rx'[x] = Append(<<>>, RST))
    BY <1>2, <1>3, <1>9, Zenon DEF PeerReset
  <2>2. CASE rx'[x] = Append(q, RST)
    <3>1. Queue(Append(q, RST), p, r) /\ (Carries(Append(q, RST), FIN) => Carries(q, FIN) \/ FIN = RST)
      BY <1>3, <1>4, QueueMark, Zenon
    <3>2. Dir(s, a, w, p, r)'
      BY <1>3, <1>4, <1>6, <2>1, <2>2, <3>1, MarkItems, Zenon
    <3> QED  BY <1>3, <3>2
  <2>3. CASE rx'[x] = Append(<<>>, RST)
    <3>1. Queue(Append(<<>>, RST), p, 0)
          /\ (Carries(Append(<<>>, RST), FIN) => Carries(<<>>, FIN) \/ FIN = RST)
      BY <1>3, QueueEmpty, QueueMark, Zenon
    <3>2. p + 0 <= n /\ 0 \in Nat
      BY <1>3, <1>4
    <3>3. Dir(s, a, w, p, 0)'
      BY <1>4, <1>6, <2>1, <2>3, <3>1, <3>2, QueueEmpty, MarkItems
    <3> QED  BY <3>2, <3>3
  <2> QED  BY <2>1, <2>2, <2>3
<1> QED  BY <1>1, <1>7, <1>8, <1>9

-----------------------------------------------------------------------------
(* Closing connections.                                                    *)

Conns == {"none", "open", "wclosed", "closed"}

\* What any mix of Close and CloseWrite does to the sockets.
CloseStep ==
  /\ tx' \in [Sides -> Seq(Items)] /\ conn' \in [Sides -> Conns]
  /\ \A x \in Sides :
       /\ \E m \in Closings : tx'[x] = tx[x] \o m
       /\ conn'[x] = "none" <=> conn[x] = "none"
       /\ conn'[x] \in {"none", "open"} => conn'[x] = conn[x] /\ tx'[x] = tx[x]

\* Items behind items.
LEMMA Joins ==
  ASSUME NEW q \in Seq(Items), NEW m \in Closings
  PROVE  q \o m \in Seq(Items) /\ q \o <<>> = q
<1>1. FIN \in Items /\ RST \in Items
  BY MarkItems
<1>2. <<>> \in Seq(Items) /\ \A v \in Items : <<v>> \in Seq(Items)
  OBVIOUS
<1>3. m \in Seq(Items)
  BY <1>1, <1>2, Zenon DEF Closings
<1> QED  BY <1>3

\* Close of some connections.
LEMMA CloseAllStep ==
  ASSUME tx \in [Sides -> Seq(Items)], conn \in [Sides -> Conns], NEW xs, CloseAll(xs)
  PROVE  CloseStep
<1>1. conn' = [x \in Sides |-> IF x \in xs THEN Shut(x) ELSE conn[x]]
      /\ tx' = [x \in Sides |-> IF x \in xs THEN tx[x] \o CloseSends(x) ELSE tx[x]]
  BY DEF CloseAll
<1>2. ASSUME NEW x \in Sides
      PROVE  /\ tx'[x] \in Seq(Items) /\ conn'[x] \in Conns
             /\ \E m \in Closings : tx'[x] = tx[x] \o m
             /\ conn'[x] = "none" <=> conn[x] = "none"
             /\ conn'[x] \in {"none", "open"} => conn'[x] = conn[x] /\ tx'[x] = tx[x]
  <2>1. tx[x] \in Seq(Items) /\ conn[x] \in Conns
    OBVIOUS
  <2>2. CASE x \in xs
    <3>1. conn'[x] = Shut(x) /\ tx'[x] = tx[x] \o CloseSends(x)
      BY <1>1, <2>2
    <3>2. CloseSends(x) \in Closings /\ (conn[x] = "none" => CloseSends(x) = <<>>)
      BY DEF CloseSends, Closings
    <3>3. Shut(x) \in {"none", "wclosed", "closed"} /\ (Shut(x) = "none" <=> conn[x] = "none")
      BY DEF Shut
    <3>4. tx'[x] \in Seq(Items) /\ tx[x] \o <<>> = tx[x]
      BY <2>1, <3>1, <3>2, Joins
    <3> QED  BY <3>1, <3>2, <3>3, <3>4, Zenon DEF Conns
  <2>3. CASE x \notin xs
    <3>1. conn'[x] = conn[x] /\ tx'[x] = tx[x]
      BY <1>1, <2>3
    <3>2. <<>> \in Closings
      BY DEF Closings
    <3>3. tx[x] \o <<>> = tx[x]
      BY <2>1, <3>2, Joins
    <3> QED  BY <2>1, <3>1, <3>2, <3>3, Zenon
  <2> QED  BY <2>2, <2>3, Zenon
<1> QED  BY <1>1, <1>2, Zenon DEF CloseStep

\* No connection is closed.
LEMMA SameStep ==
  ASSUME tx \in [Sides -> Seq(Items)], conn \in [Sides -> Conns], UNCHANGED <<conn, tx>>
  PROVE  CloseStep
<1>1. <<>> \in Closings
  BY DEF Closings
<1>2. \A x \in Sides : tx[x] \o <<>> = tx[x]
  BY <1>1, Joins
<1> QED  BY <1>1, <1>2 DEF CloseStep

\* closeWriter ends one connection.
LEMMA CloseWriterStep ==
  ASSUME tx \in [Sides -> Seq(Items)], conn \in [Sides -> Conns], NEW x \in Sides, closeWriter(x)
  PROVE  CloseStep
<1>1. CASE /\ conn[x] = "open" /\ conn' = [conn EXCEPT ![x] = "wclosed"]
           /\ tx' = [tx EXCEPT ![x] = Append(@, FIN)]
  <2>1. <<>> \in Closings /\ <<FIN>> \in Closings
    BY DEF Closings
  <2>2. \A y \in Sides : tx[y] \o <<>> = tx[y] /\ tx[y] \o <<FIN>> = Append(tx[y], FIN)
                         /\ tx[y] \o <<FIN>> \in Seq(Items) /\ tx[y] \in Seq(Items)
    <3>1. ASSUME NEW q \in Seq(Items)
          PROVE  q \o <<FIN>> = Append(q, FIN)
      OBVIOUS
    <3> QED  BY <2>1, <3>1, Joins, Zenon
  <2>3. tx'[x] = tx[x] \o <<FIN>> /\ conn'[x] = "wclosed"
        /\ \A y \in Sides : y # x => tx'[y] = tx[y] \o <<>> /\ conn'[y] = conn[y]
    BY <1>1, <2>2
  <2>4. tx' \in [Sides -> Seq(Items)] /\ conn' \in [Sides -> Conns]
    BY <1>1, <2>2, <2>3 DEF Conns
  <2> QED  BY <1>1, <2>1, <2>2, <2>3, <2>4, Zenon DEF CloseStep
<1>2. CASE UNCHANGED <<conn, tx>>
  BY <1>2, SameStep
<1>3. CASE CloseAll({x})
  BY <1>3, CloseAllStep
<1> QED  BY <1>1, <1>2, <1>3 DEF closeWriter

\* Nothing is sent.
LEMMA SameTx ==
  ASSUME tx \in [Sides -> Seq(Items)], UNCHANGED tx
  PROVE  \A x \in Sides : \E m \in Closings : tx'[x] = tx[x] \o m
<1>1. <<>> \in Closings
  BY DEF Closings
<1>2. \A x \in Sides : tx[x] \o <<>> = tx[x]
  BY <1>1, Joins
<1> QED  BY <1>1, <1>2

\* Closing keeps the states of the sockets right.
LEMMA SocketKept ==
  ASSUME SocketInv, CloseStep
  PROVE  SocketInv'
<1> SUFFICES ASSUME NEW x \in Sides, conn'[x] \in {"none", "open"}
             PROVE  ~Carries(tx'[x], FIN) /\ ~Carries(tx'[x], RST)
  BY DEF SocketInv, Carries
<1>1. conn'[x] = conn[x] /\ tx'[x] = tx[x]
  BY DEF CloseStep
<1> QED  BY <1>1 DEF SocketInv

\* The two copiers and the two sides.
LEMMA SideOf ==
  ASSUME NEW s \in Copiers
  PROVE  /\ In(s) \in Sides /\ Out(s) \in Sides /\ In(s) # Out(s) /\ Other(s) \in Copiers
         /\ In(Other(s)) = Out(s) /\ Out(Other(s)) = In(s) /\ Copiers = {s, Other(s)} /\ Other(s) # s
         /\ Sides = {In(s), Out(s)}
  BY DEF In, Out, Other, Copiers, Sides

-----------------------------------------------------------------------------
(* The invariant.                                                          *)

Base(s) == IF s = "s1" THEN skip ELSE 0

DirInv == \A s \in Copiers : \E w, p, r \in Nat : Dir(s, Base(s), w, p, r)

\* What a copier has at each place of its Copy.
CopierInv ==
  \A s \in Copiers :
    /\ pc[s] = "read" => buf[s] = <<>> /\ rerr[s] = "nil"
    /\ pc[s] = "write" => buf[s] # <<>> /\ rerr[s] # "err"
    /\ pc[s] = "readErr" => buf[s] = <<>> /\ rerr[s] # "nil"
    /\ pc[s] \in {"read", "write", "readErr"} => err[s] = "nil"
    /\ pc[s] \in {"signal", "done"} => buf[s] = <<>> /\ (err[s] = "nil" => rerr[s] = "EOF")
    /\ s \in got <=> pc[s] = "done"

\* Proxy returns what the copiers report, once it has both.
ResultInv ==
  /\ ret # "none" => got = Copiers
  /\ ret = "nil" => \A s \in Copiers : err[s] = "nil"

\* The handler up to the call of Proxy.
HandlerInv ==
  /\ hpc # "relay" => tx["out"] = <<>> /\ \A s \in Copiers : pc[s] = "read"
  /\ hpc \notin {"relay", "failed"} => resp = "none" /\ conn["in"] = "open" /\ tx["in"] = <<>>
  /\ hpc = "answer" => conn["out"] = "open"
  /\ conn["out"] = "none" => /\ rx["out"] = <<>> /\ peer["out"] = "open" /\ sent["out"] = 0
                             /\ hpc \notin {"answer", "relay"}
  /\ conn["out"] # "none" => hpc \in {"answer", "relay"}
  /\ hpc \in {"sniff", "hijack", "prefix"} => skip = 0
  /\ hpc \in {"prefix", "text"} => kind = "quic"
  /\ hpc = "text" => skip \in 1..hlen
  /\ hpc = "hijack" => IsConnect
  /\ kind # "quic" /\ ~eager => skip = 0
  /\ eager => kind = "connect"
  /\ hpc \in {"answer", "relay"} => HasDest
  /\ IsConnect /\ ~eager /\ resp # "200" => sent["in"] = 0

\* With no faults, and connections that can be half-closed, nothing fails.
Healthy ==
  /\ ret = "none" => \A x \in Sides : conn[x] \in {"open", "wclosed"}
  /\ \A s \in Copiers :
       /\ err[s] = "nil" /\ rerr[s] # "err"
       /\ pc[s] \in {"read", "write", "readErr"} => conn[Out(s)] = "open"

HealthyInv ==
  /\ \A x \in Sides : peer[x] = "reset" => "rst" \in faults
  /\ "quic" \in faults => kind = "quic"
  /\ faults = {} /\ kind # "plain" /\ hpc = "relay" => Healthy

IInv == TypeOK /\ DirInv /\ SocketInv /\ CopierInv /\ ResultInv /\ HandlerInv /\ HealthyInv

-----------------------------------------------------------------------------
\* A direction whose copier stays where it is.
LEMMA DirsKept ==
  ASSUME DirInv, \A x \in Sides : \E m \in Closings : tx'[x] = tx[x] \o m, skip \in Nat,
         UNCHANGED <<faults, peer, sent, rx, buf, rerr, err, skip>>
  PROVE  DirInv'
<1> SUFFICES ASSUME NEW s \in Copiers
             PROVE  \E w, p, r \in Nat : Dir(s, Base(s), w, p, r)'
  BY DEF DirInv
<1>1. PICK a : a = Base(s)
  OBVIOUS
<1>2. PICK w, p, r \in Nat : Dir(s, a, w, p, r)
  BY <1>1 DEF DirInv
<1>3. a \in Nat /\ Base(s)' = a /\ Out(s) \in Sides
  BY <1>1 DEF Base, Out, Sides
<1>4. PICK m \in Closings : tx'[Out(s)] = tx[Out(s)] \o m
  BY <1>3
<1>5. rerr[s] = "EOF" /\ "quic" \notin faults => peer[In(s)] # "open" /\ p = sent[In(s)]
  BY <1>2 DEF Dir
<1>6. Dir(s, a, w, p, r)'
  BY <1>2, <1>3, <1>4, <1>5, DirKept
<1> QED  BY <1>3, <1>6

-----------------------------------------------------------------------------
(* The steps of Tunnel.                                                    *)

\* What the invariant says of the types.
LEMMA Typed ==
  ASSUME IInv
  PROVE  /\ tx \in [Sides -> Seq(Items)] /\ conn \in [Sides -> Conns] /\ rx \in [Sides -> Seq(Items)]
         /\ sent \in [Sides -> Nat] /\ peer \in [Sides -> {"open", "fin", "reset"}] /\ skip \in Nat
         /\ pc \in [Copiers -> {"read", "write", "readErr", "signal", "done"}]
         /\ buf \in [Copiers -> Seq(Nat)] /\ rerr \in [Copiers -> {"nil", "EOF", "err"}]
         /\ err \in [Copiers -> {"nil", "in", "out"}] /\ got \subseteq Copiers /\ hlen \in Nat
  BY DEF IInv, TypeOK, ProxyTypeOK, Conns

\* What a peer does preserves the invariant.
LEMMA PeersIInv ==
  ASSUME IInv, Peers, UNCHANGED hVars, UNCHANGED fixedVars
  PROVE  IInv'
<1>1. PICK x \in Sides : /\ conn[x] # "none"
                         /\ (MaySend(x) /\ PeerSend(x)) \/ PeerFin(x) \/ PeerReset(x)
  BY DEF Peers
<1>2. UNCHANGED <<tx, conn, pc, buf, rerr, err, got, ret, hpc, skip, resp, kind, faults, eager, framed, hlen>>
  BY <1>1 DEF PeerSend, PeerFin, PeerReset, copyVars, hVars, fixedVars, kindVars
<1>3. /\ \A y \in Sides : y # x => rx'[y] = rx[y] /\ sent'[y] = sent[y] /\ peer'[y] = peer[y]
      /\ rx' \in [Sides -> Seq(Items)] /\ sent' \in [Sides -> Nat]
      /\ peer' \in [Sides -> {"open", "fin", "reset"}]
      /\ sent'[x] # sent[x] => MaySend(x)
      /\ peer'[x] = "reset" => peer[x] = "reset" \/ "rst" \in faults
  <2>1. ASSUME NEW q \in Seq(Items), NEW v \in Items
        PROVE  Append(q, v) \in Seq(Items)
    OBVIOUS
  <2>2. <<>> \in Seq(Items) /\ FIN \in Items /\ RST \in Items /\ \A n \in Nat : n + 1 \in Items /\ n + 1 \in Nat
    BY MarkItems DEF Items
  <2>3. CASE MaySend(x) /\ PeerSend(x)
    BY <2>1, <2>2, <2>3, Typed DEF PeerSend
  <2>4. CASE PeerFin(x)
    BY <2>1, <2>2, <2>4, Typed DEF PeerFin
  <2>5. CASE PeerReset(x)
    <3>1. PICK keep \in {rx[x], <<>>} : rx' = [rx EXCEPT ![x] = Append(keep, RST)]
      BY <2>5, Zenon DEF PeerReset
    <3>2. PICK c : c = Append(keep, RST)
      BY Zenon
    <3>3. c \in Seq(Items) /\ rx' = [rx EXCEPT ![x] = c]
      <4>0. rx[x] \in Seq(Items)
        BY Typed
      <4>1. keep \in Seq(Items)
        BY ONLY <2>2, <4>0, keep \in {rx[x], <<>>}, Zenon
      <4> QED  BY <4>1, <2>1, <2>2, <3>1, <3>2
    <3>4. UNCHANGED sent /\ peer' = [peer EXCEPT ![x] = "reset"] /\ "rst" \in faults
      BY <2>5 DEF PeerReset
    <3> QED  BY <3>3, <3>4, Typed
  <2> QED  BY <1>1, <2>3, <2>4, <2>5
<1>4. TypeOK'
  BY <1>2, <1>3 DEF IInv, TypeOK, ProxyTypeOK
<1>5. DirInv'
  <2> SUFFICES ASSUME NEW s \in Copiers
               PROVE  \E w, p, r \in Nat : Dir(s, Base(s), w, p, r)'
    BY DEF DirInv
  <2>1. PICK a : a = Base(s)
    OBVIOUS
  <2>2. PICK w, p, r \in Nat : Dir(s, a, w, p, r)
    BY <2>1 DEF IInv, DirInv
  <2>3. a \in Nat /\ Base(s)' = a
    BY <1>2, <2>1, Typed DEF Base
  <2>4. CASE In(s) = x
    <3>1. \E k \in Nat : Dir(s, a, w, p, k)'
      BY <1>1, <1>2, <2>2, <2>3, <2>4, Typed, DirPeer, Zenon
    <3> QED  BY <2>2, <2>3, <3>1
  <2>5. CASE In(s) # x
    <3>1. rx'[In(s)] = rx[In(s)] /\ sent'[In(s)] = sent[In(s)] /\ peer'[In(s)] = peer[In(s)]
      BY <1>3, <2>5, SideOf
    <3>2. <<>> \in Closings /\ tx'[Out(s)] = tx[Out(s)] \o <<>>
      <4>1. <<>> \in Closings /\ tx[Out(s)] \in Seq(Items)
        BY Typed, SideOf DEF Closings
      <4> QED  BY <1>2, <4>1, Joins
    <3>3. rerr[s] = "EOF" /\ "quic" \notin faults => peer[In(s)] # "open" /\ p = sent[In(s)]
      BY <2>2 DEF Dir
    <3>4. Dir(s, a, w, p, r)'
      BY <1>2, <2>2, <2>3, <3>1, <3>2, <3>3, DirKept, Zenon
    <3> QED  BY <2>3, <3>4
  <2> QED  BY <2>4, <2>5
<1>6. SocketInv' /\ CopierInv' /\ ResultInv'
  BY <1>2 DEF IInv, SocketInv, CopierInv, ResultInv
<1>7. HandlerInv'
  <2>1. HandlerInv /\ x \in {"in", "out"}
    BY DEF IInv, Sides
  <2>2. conn["out"] = "none" => x = "in"
    BY <1>1, <2>1
  <2>3. conn["out"] = "none" => rx'["out"] = rx["out"] /\ peer'["out"] = peer["out"] /\ sent'["out"] = sent["out"]
    BY <1>3, <2>2 DEF Sides
  <2>4. IsConnect /\ ~eager /\ resp # "200" => sent'["in"] = sent["in"]
    <3>1. CASE x = "in"
      BY <1>3, <3>1 DEF MaySend
    <3>2. CASE x = "out"
      BY <1>3, <3>2 DEF Sides
    <3> QED  BY <2>1, <3>1, <3>2
  <2> QED  BY <1>2, <2>1, <2>3, <2>4 DEF HandlerInv, IsConnect, HasDest
<1>8. HealthyInv'
  <2>1. \A y \in Sides : peer'[y] = "reset" => "rst" \in faults
    <3>1. ASSUME NEW y \in Sides, peer'[y] = "reset"
          PROVE  "rst" \in faults
      <4>1. peer[y] = "reset" \/ "rst" \in faults
        BY <1>3, <3>1
      <4> QED  BY <4>1 DEF IInv, HealthyInv, Healthy
    <3> QED  BY <3>1
  <2> QED  BY <1>2, <2>1 DEF IInv, HealthyInv, Healthy
<1> QED  BY <1>4, <1>5, <1>6, <1>7, <1>8 DEF IInv

\* A step of the handler leaves the copiers, which have not started, alone.
LEMMA HandlerStep ==
  ASSUME IInv, hpc # "relay", UNCHANGED fixedVars, UNCHANGED <<copyVars, got, ret>>,
         \A x \in Sides : peer'[x] = "reset" => peer[x] = "reset",
         TypeOK', DirInv', SocketInv', HandlerInv',
         hpc' = "relay" => conn'["in"] = "open" /\ conn'["out"] = "open"
  PROVE  IInv'
<1>1. UNCHANGED <<kind, faults, eager, framed, hlen, pc, buf, rerr, err, got, ret>>
  BY DEF copyVars, fixedVars, kindVars
<1>2. CopierInv' /\ ResultInv'
  BY <1>1 DEF IInv, CopierInv, ResultInv
<1>3. \A s \in Copiers : pc[s] = "read" /\ rerr[s] = "nil" /\ err[s] = "nil"
  BY DEF IInv, HandlerInv, CopierInv
<1>4. HealthyInv'
  <2>1. hpc' = "relay" => \A x \in Sides : conn'[x] = "open"
    BY DEF Sides
  <2>2. \A s \in Copiers : Out(s) \in Sides
    BY SideOf
  <2>3. \A x \in Sides : peer'[x] = "reset" => "rst" \in faults
    BY DEF IInv, HealthyInv, Healthy
  <2>4. "quic" \in faults => kind = "quic"
    BY DEF IInv, HealthyInv, Healthy
  <2> QED  BY <1>1, <1>3, <2>1, <2>2, <2>3, <2>4 DEF HealthyInv, Healthy
<1> QED  BY <1>2, <1>4 DEF IInv

\* Sniff, HijackFails, DialFails, CopyToFails and Answer: no byte moves.
LEMMA AnswerIInv ==
  ASSUME IInv, Sniff \/ HijackFails \/ DialFails \/ CopyToFails \/ Answer, UNCHANGED fixedVars
  PROVE  IInv'
<1>1. /\ UNCHANGED <<peer, sent, rx, copyVars, got, ret, skip>> /\ hpc # "relay"
      /\ UNCHANGED <<kind, faults, eager, framed, hlen, pc, buf, rerr, err>>
  BY DEF Sniff, HijackFails, DialFails, CopyToFails, Answer, sysVars, netVars, copyVars, fixedVars,
         kindVars
<1>2. CloseStep
  <2>1. CASE UNCHANGED <<conn, tx>>
    BY <2>1, Typed, SameStep
  <2>2. CASE CloseAll({"in"})
    BY <2>2, Typed, CloseAllStep
  <2> QED  BY <2>1, <2>2, Zenon
           DEF Sniff, HijackFails, DialFails, CopyToFails, Answer, sysVars, netVars
<1>3. HandlerInv /\ tx["out"] = <<>> /\ "in" \in Sides /\ "out" \in Sides
  BY <1>1 DEF IInv, HandlerInv, Sides
<1>4. hpc' \in {"dial", "failed", "relay"} /\ resp' \in {"none", "200", "503"}
  BY Typed DEF Sniff, HijackFails, DialFails, CopyToFails, Answer, IInv, TypeOK
<1>5. TypeOK'
  BY <1>1, <1>2, <1>4 DEF IInv, TypeOK, ProxyTypeOK, CloseStep, Conns
<1>6. DirInv'
  <2>1. \A x \in Sides : \E m \in Closings : tx'[x] = tx[x] \o m
    BY <1>2, Zenon DEF CloseStep
  <2> QED  BY <1>1, <2>1, Typed, DirsKept, Zenon DEF IInv
<1>7. SocketInv'
  BY <1>2, SocketKept DEF IInv
<1>8. tx'["out"] = tx["out"] /\ conn'["out"] = conn["out"]
  BY <1>3, Typed DEF Sniff, HijackFails, DialFails, CopyToFails, Answer, CloseAll, sysVars, netVars
<1>9. /\ hpc' \in {"dial", "relay"} => UNCHANGED <<conn, tx>>
      /\ hpc' = "dial" => hpc = "sniff" /\ resp' = resp
      /\ hpc' = "relay" => hpc = "answer"
      /\ hpc = "answer" => hpc' = "relay"
  BY DEF Sniff, HijackFails, DialFails, CopyToFails, Answer, sysVars, netVars
<1>10. IsConnect /\ ~eager => sent["in"] = 0
  BY <1>3, <1>9, <1>1 DEF HandlerInv, Sniff, HijackFails, DialFails, CopyToFails, Answer
<1>11. HandlerInv'
  <2>1. conn["out"] # "none" => hpc = "answer"
    BY <1>1, <1>3 DEF HandlerInv
  <2> QED  BY <1>1, <1>3, <1>4, <1>8, <1>9, <1>10, <2>1 DEF HandlerInv, IsConnect, HasDest
<1>12. hpc' = "relay" => conn'["in"] = "open" /\ conn'["out"] = "open"
  BY <1>3, <1>9 DEF HandlerInv
<1> QED  BY <1>1, <1>5, <1>6, <1>7, <1>11, <1>12, HandlerStep

\* The handler takes k bytes of the client.
LEMMA DirsTaken ==
  ASSUME IInv, hpc # "relay", NEW k \in Nat, NEW c \in Seq(Items),
         k <= Len(Data(rx["in"])), Len(c) = Len(rx["in"]) - k, \A i \in 1..Len(c) : c[i] = rx["in"][i + k],
         rx' = [rx EXCEPT !["in"] = c], skip' = skip + k,
         UNCHANGED <<faults, peer, sent, tx, buf, rerr, err>>
  PROVE  DirInv' /\ rx' \in [Sides -> Seq(Items)] /\ skip' \in Nat /\ rx'["out"] = rx["out"]
<1>1. rx' \in [Sides -> Seq(Items)] /\ skip' \in Nat /\ rx'["out"] = rx["out"] /\ rx'["in"] = c
  BY Typed DEF Sides
<1>2. ASSUME NEW s \in Copiers
      PROVE  \E w, p, r \in Nat : Dir(s, Base(s), w, p, r)'
  <2>1. PICK a : a = Base(s)
    OBVIOUS
  <2>2. PICK w, p, r \in Nat : Dir(s, a, w, p, r)
    BY <2>1 DEF IInv, DirInv
  <2>3. a \in Nat /\ rerr[s] = "nil" /\ err[s] = "nil" /\ buf[s] = <<>> /\ skip \in Nat
    BY <2>1, Typed DEF Base, IInv, HandlerInv, CopierInv
  <2>4. CASE s = "s1"
    <3>1. In(s) = "in" /\ Out(s) = "out" /\ a = skip /\ Base(s)' = a + k /\ "in" \in Sides
      BY <2>1, <2>4 DEF In, Out, Base, Sides
    <3>2. tx["out"] = <<>>
      BY DEF IInv, HandlerInv
    <3>3. PICK q, n, e : q = rx["in"] /\ n = sent["in"] /\ e = peer["in"]
      OBVIOUS
    <3>4. /\ Queue(tx["out"], a, w) /\ Queue(q, p, r) /\ Len(buf[s]) = 0 /\ p = a + w + Len(buf[s])
          /\ p + r <= n /\ (e # "reset" => p + r = n)
          /\ (Carries(q, FIN) => p + r = n /\ e # "open") /\ (Carries(q, RST) => e = "reset")
      BY <2>2, <2>3, <3>1, <3>3, DirTypes, Zenon DEF Dir
    <3>5. w = 0 /\ p = a
      <4>1. w \in 0..Len(<<>>) /\ Len(<<>>) = 0
        BY <3>2, <3>4 DEF Queue
      <4>2. w = 0
        BY ONLY <4>1
      <4>3. a \in Nat /\ p = a + w + Len(buf[s]) /\ Len(buf[s]) = 0
        BY <2>3, <3>4, Zenon
      <4> QED  BY ONLY <4>2, <4>3
    <3>6. k \in 0..r
      <4>1. Len(Data(q)) = r
        BY <3>4, QueueData
      <4> QED  BY <3>3, <4>1
    <3>7. /\ Queue(c, p + k, r - k) /\ (Carries(c, FIN) <=> Carries(q, FIN))
          /\ (Carries(c, RST) <=> Carries(q, RST))
      <4>1. Len(c) = Len(q) - k /\ \A i \in 1..Len(c) : c[i] = q[i + k]
        BY <3>3
      <4>2. p \in Nat /\ Queue(q, p, r)
        BY <3>4
      <4>3. /\ Queue(c, p + k, r - k)
            /\ \A u \in {FIN, RST} : Carries(c, u) <=> Carries(q, u)
        BY <3>6, <4>1, <4>2, QueueRest, Zenon
      <4> QED  BY <4>3
    <3>8. a + k \in Nat /\ p + k \in Nat /\ r - k \in Nat /\ (p + k) + (r - k) = p + r
          /\ p + k = (a + k) + 0 + 0
      BY <2>3, <3>5, <3>6
    <3>9. Queue(tx["out"], a + k, 0)
      BY <3>2, <3>8, QueueEmpty
    <3>10. Dir(s, a + k, 0, p + k, r - k)'
      <4>1. p + k <= p + k /\ rerr'[s] # "EOF" /\ buf'[s] = <<>> /\ Len(buf'[s]) = 0
        BY <2>3, <3>4, <3>8
      <4>2. Queue(tx'[Out(s)], a + k, 0) /\ Queue(rx'[In(s)], p + k, r - k)
        BY <1>1, <3>1, <3>7, <3>9
      <4>3. /\ (p + k) + (r - k) <= sent'[In(s)]
            /\ (peer'[In(s)] # "reset" => (p + k) + (r - k) = sent'[In(s)])
            /\ Carries(rx'[In(s)], FIN) => (p + k) + (r - k) = sent'[In(s)] /\ peer'[In(s)] # "open"
            /\ Carries(rx'[In(s)], RST) => peer'[In(s)] = "reset"
        BY <1>1, <3>1, <3>3, <3>4, <3>7, <3>8
      <4> QED  BY <3>8, <4>1, <4>2, <4>3, Zenon DEF Dir
    <3> QED  BY <3>1, <3>8, <3>10
  <2>5. CASE s # "s1"
    <3>1. In(s) = "out" /\ Out(s) = "in" /\ Base(s)' = a
      BY <2>1, <2>5 DEF In, Out, Base
    <3>2. PICK m \in Closings : tx'[Out(s)] = tx[Out(s)] \o m
      BY Typed, SameTx, SideOf, Zenon
    <3>3. Dir(s, a, w, p, r)'
      BY <1>1, <2>2, <2>3, <3>1, <3>2, DirKept, Zenon
    <3> QED  BY <3>1, <3>3
  <2> QED  BY <2>4, <2>5
<1> QED  BY <1>1, <1>2 DEF DirInv

\* Hijack, ReadPrefix and ReadText.
LEMMA TakeIInv ==
  ASSUME IInv, Hijack \/ ReadPrefix \/ ReadText, UNCHANGED fixedVars
  PROVE  IInv'
<1>1. /\ UNCHANGED <<peer, sent, tx, conn, copyVars, got, ret, resp>> /\ hpc \in {"hijack", "prefix", "text"}
      /\ UNCHANGED <<kind, faults, eager, framed, hlen, pc, buf, rerr, err>>
  BY DEF Hijack, ReadPrefix, ReadText, copyVars, fixedVars, kindVars
<1>2. HandlerInv /\ conn["out"] = "none" /\ tx["out"] = <<>> /\ "in" \in Sides
  BY <1>1 DEF IInv, HandlerInv, Sides
<1>3. /\ rx["in"] \in Seq(Items) /\ skip \in Nat /\ hlen \in Nat
      /\ MaxHeader \in Nat
  BY <1>2, Typed, TunnelAssumption
<1>4. DirInv' /\ rx' \in [Sides -> Seq(Items)] /\ skip' \in Nat /\ rx'["out"] = rx["out"]
  <2>1. CASE Hijack
    <3>1. PICK k \in 0..Len(Data(rx["in"])) : /\ rx' = [rx EXCEPT !["in"] = SubSeq(@, k + 1, Len(@))]
                                              /\ skip' = k
      BY <2>1, Zenon DEF Hijack
    <3>2. Len(Data(rx["in"])) \in Nat /\ Len(Data(rx["in"])) <= Len(rx["in"])
      <4>1. PICK w, p, r \in Nat : Dir("s1", Base("s1"), w, p, r)
        BY DEF IInv, DirInv, Copiers
      <4>2. Queue(rx["in"], p, r)
        BY <4>1 DEF Dir, In
      <4> QED  BY <4>2, QueueData, QueueTypes
    <3>3. PICK c : c = SubSeq(rx["in"], k + 1, Len(rx["in"]))
      BY Zenon
    <3>4. k \in 0..Len(rx["in"]) /\ k \in Nat /\ k <= Len(Data(rx["in"]))
      BY <1>3, <3>2
    <3>5. c \in Seq(Items) /\ Len(c) = Len(rx["in"]) - k /\ \A i \in 1..Len(c) : c[i] = rx["in"][i + k]
      BY <1>3, <3>3, <3>4, DropOf
    <3>6. skip = 0 /\ skip' = skip + k
      BY <1>2, <2>1, <3>1, <3>4 DEF HandlerInv, Hijack
    <3>7. rx' = [rx EXCEPT !["in"] = c]
      BY <1>2, <3>1, <3>3, Typed
    <3> QED  BY <1>1, <3>4, <3>5, <3>6, <3>7, DirsTaken, Zenon
  <2>2. CASE (ReadPrefix \/ ReadText) /\ UNCHANGED <<rx, skip>>
    BY <1>1, <2>2, Typed, DirsKept, SameTx, Zenon DEF IInv
  <2>3. CASE (ReadPrefix \/ ReadText) /\ ~UNCHANGED <<rx, skip>>
    <3>1. /\ rx["in"] # <<>> /\ IsByte(Head(rx["in"]))
          /\ rx' = [rx EXCEPT !["in"] = Tail(@)] /\ skip' = skip + 1
      BY <1>2, <2>3 DEF ReadPrefix, ReadText, HandlerInv
    <3>2. PICK c : c = Tail(rx["in"])
      BY Zenon
    <3>3. c \in Seq(Items) /\ Len(c) = Len(rx["in"]) - 1 /\ \A i \in 1..Len(c) : c[i] = rx["in"][i + 1]
      BY <1>3, <3>1, <3>2, TailOf
    <3>4. rx' = [rx EXCEPT !["in"] = c]
      BY <1>2, <3>1, <3>2, Typed
    <3>5. 1 <= Len(Data(rx["in"])) /\ 1 \in Nat
      <4>1. PICK w, p, r \in Nat : Dir("s1", Base("s1"), w, p, r)
        BY DEF IInv, DirInv, Copiers
      <4>2. Queue(rx["in"], p, r)
        BY <4>1 DEF Dir, In
      <4>3. r > 0 /\ Len(Data(rx["in"])) = r
        <5>1. r > 0
          BY <3>1, <4>2, QueueHead, Zenon
        <5> QED  BY <4>2, <5>1, QueueData, Zenon
      <4> QED  BY <4>3
    <3> QED  BY <1>1, <3>1, <3>3, <3>4, <3>5, DirsTaken, Zenon
  <2> QED  BY <2>1, <2>2, <2>3
<1>5. hpc' \in {"dial", "text", "failed"}
  BY DEF Hijack, ReadPrefix, ReadText
<1>6. TypeOK'
  BY <1>1, <1>4, <1>5 DEF IInv, TypeOK, ProxyTypeOK
<1>7. SocketInv'
  BY <1>1 DEF IInv, SocketInv
<1>8. kind # "quic" /\ ~eager => skip' = 0
  <2>1. CASE Hijack
    <3>1. ASSUME kind # "quic", ~eager
          PROVE  skip' = 0
      <4>1. sent["in"] = 0
        BY <1>1, <1>2, <2>1, <3>1 DEF HandlerInv, Hijack
      <4>2. PICK w, p, r \in Nat : Dir("s1", Base("s1"), w, p, r)
        BY DEF IInv, DirInv, Copiers
      <4>3. Queue(rx["in"], p, r) /\ p + r <= sent["in"]
        BY <4>2 DEF Dir, In
      <4>4. Len(Data(rx["in"])) = r
        BY <4>3, QueueData
      <4>5. r = 0
        BY <4>1, <4>3
      <4>6. \E k \in 0..r : skip' = k
        BY <2>1, <4>4 DEF Hijack
      <4> QED  BY <4>5, <4>6
    <3> QED  BY <3>1
  <2>2. CASE ReadPrefix \/ ReadText
    BY <1>2, <2>2 DEF HandlerInv, ReadPrefix, ReadText
  <2> QED  BY <2>1, <2>2
<1>9. hpc' = "text" => kind = "quic" /\ skip' \in 1..hlen
  <2>1. CASE Hijack
    BY <2>1 DEF Hijack
  <2>2. CASE ReadPrefix
    <3>1. kind = "quic"
      BY <1>2, <2>2 DEF HandlerInv, ReadPrefix
    <3>2. ASSUME hpc' = "text"
          PROVE  skip' = 1 /\ ~(hlen = 0)
      BY <2>2, <3>2, <1>3 DEF ReadPrefix
    <3> QED  BY <1>3, <3>1, <3>2
  <2>3. CASE ReadText
    <3>1. kind = "quic" /\ skip \in 1..hlen
      BY <1>2, <2>3 DEF HandlerInv, ReadText
    <3>2. ASSUME hpc' = "text"
          PROVE  skip' = skip + 1 /\ skip' # 1 + hlen
      BY <2>3, <3>2 DEF ReadText
    <3> QED  BY <1>3, <3>1, <3>2
  <2> QED  BY <2>1, <2>2, <2>3
<1>10. HandlerInv'
  <2>1. \A s \in Copiers : pc'[s] = "read"
    BY <1>1, <1>2 DEF HandlerInv
  <2> QED  BY <1>1, <1>2, <1>4, <1>5, <1>8, <1>9, <2>1 DEF HandlerInv, IsConnect
<1> QED  BY <1>1, <1>4, <1>5, <1>6, <1>7, <1>10, HandlerStep

\* Dial and H2Dial.
LEMMA DialIInv ==
  ASSUME IInv, Dial \/ H2Dial, UNCHANGED fixedVars
  PROVE  IInv'
<1>1. /\ UNCHANGED <<sent, tx, copyVars, got, ret, skip, resp>> /\ hpc = "dial"
      /\ UNCHANGED <<kind, faults, eager, framed, hlen, pc, buf, rerr, err>>
      /\ conn' = [conn EXCEPT !["out"] = "open"] /\ hpc' \in {"relay", "answer"} /\ HasDest
  BY DEF Dial, H2Dial, copyVars, fixedVars, kindVars, HasDest
<1>2. /\ HandlerInv /\ conn["out"] = "none" /\ conn["in"] = "open" /\ tx["out"] = <<>>
      /\ rx["out"] = <<>> /\ peer["out"] = "open" /\ sent["out"] = 0 /\ "in" \in Sides /\ "out" \in Sides
  BY <1>1 DEF IInv, HandlerInv, Sides
<1>3. conn' \in [Sides -> Conns] /\ conn'["out"] = "open" /\ conn'["in"] = "open"
  BY <1>1, <1>2, Typed DEF Conns
<1>4. \/ UNCHANGED <<peer, rx>>
      \/ peer' = [peer EXCEPT !["out"] = "fin"] /\ rx' = [rx EXCEPT !["out"] = <<FIN>>]
  BY DEF Dial, H2Dial
<1>5. DirInv' /\ rx' \in [Sides -> Seq(Items)] /\ peer' \in [Sides -> {"open", "fin", "reset"}]
      /\ \A x \in Sides : peer'[x] = "reset" => peer[x] = "reset"
  <2>1. CASE UNCHANGED <<peer, rx>>
    BY <1>1, <2>1, Typed, SameTx, DirsKept, Zenon DEF IInv
  <2>2. CASE peer' = [peer EXCEPT !["out"] = "fin"] /\ rx' = [rx EXCEPT !["out"] = <<FIN>>]
    <3>1. FIN \in Items
      BY MarkItems
    <3>2. <<FIN>> \in Seq(Items)
      BY ONLY <3>1
    <3>3. /\ rx' \in [Sides -> Seq(Items)] /\ peer' \in [Sides -> {"open", "fin", "reset"}]
          /\ rx'["in"] = rx["in"] /\ peer'["in"] = peer["in"] /\ rx'["out"] = <<FIN>> /\ peer'["out"] = "fin"
      BY <1>2, <2>2, <3>2, Typed
    <3>4. ASSUME NEW s \in Copiers
          PROVE  \E w, p, r \in Nat : Dir(s, Base(s), w, p, r)'
      <4>1. PICK a : a = Base(s)
        OBVIOUS
      <4>2. PICK w, p, r \in Nat : Dir(s, a, w, p, r)
        BY <4>1 DEF IInv, DirInv
      <4>3. /\ a \in Nat /\ Base(s)' = a /\ rerr[s] = "nil" /\ err[s] = "nil" /\ buf[s] = <<>>
            /\ pc[s] = "read"
        BY <1>1, <1>2, <4>1, Typed DEF Base, IInv, HandlerInv, CopierInv
      <4>4. PICK m \in Closings : tx'[Out(s)] = tx[Out(s)] \o m
        BY <1>1, Typed, SameTx, SideOf, Zenon
      <4>5. CASE s = "s1"
        <5>1. In(s) = "in"
          BY <4>5 DEF In
        <5>2. Dir(s, a, w, p, r)'
          BY <1>1, <3>3, <4>2, <4>3, <4>4, <5>1, DirKept, Zenon
        <5> QED  BY <4>3, <5>2, Zenon
      <4>6. CASE s # "s1"
        <5>1. In(s) = "out" /\ a = 0
          BY <4>1, <4>6 DEF In, Base
        <5>2. /\ Queue(<<>>, p, r) /\ p + r <= 0 /\ 0 + w + Len(buf[s]) <= p /\ Len(buf[s]) = 0
              /\ Queue(tx[Out(s)], 0, w)
          BY <1>2, <4>2, <4>3, <5>1, DirTypes, Zenon DEF Dir
        <5>3. w = 0 /\ p = 0 /\ r = 0
          BY <5>2
        <5>4. PICK c : c = <<FIN>>
          BY Zenon
        <5>5. 0 \in Nat /\ FIN # RST /\ c \in Seq(Items) /\ Len(c) = 1 /\ c[1] = FIN /\ DOMAIN c = 1..1
          BY <3>1, <5>4, MarkItems
        <5>6. Queue(c, 0, 0) /\ ~Carries(c, RST)
          BY ONLY <5>5 DEF Queue, Carries
        <5>7. Dir(s, a, 0, 0, 0)'
          <6>1. Queue(tx'[Out(s)], 0, 0) /\ Queue(rx'[In(s)], 0, 0) /\ ~Carries(rx'[In(s)], RST)
            BY <1>1, <3>3, <5>1, <5>2, <5>3, <5>4, <5>6, Zenon
          <6>2. /\ buf'[s] = <<>> /\ Len(buf'[s]) = 0 /\ peer'[In(s)] = "fin" /\ sent'[In(s)] = 0
                /\ rerr'[s] # "EOF"
            BY <1>1, <1>2, <3>3, <4>3, <5>1, <5>2, Zenon
          <6>3. 0 \in Nat /\ 0 + 0 = 0 /\ 0 <= 0
            BY ONLY TRUE
          <6> QED  BY <5>1, <6>1, <6>2, <6>3, Zenon DEF Dir
        <5> QED  BY <4>3, <5>1, <5>5, <5>7, Zenon
      <4> QED  BY <4>5, <4>6
    <3>5. \A x \in Sides : peer'[x] = "reset" => peer[x] = "reset"
      BY <3>3 DEF Sides
    <3> QED  BY <3>3, <3>4, <3>5 DEF DirInv
  <2> QED  BY <1>4, <2>1, <2>2
<1>6. TypeOK'
  BY <1>1, <1>3, <1>5 DEF IInv, TypeOK, ProxyTypeOK, Conns
<1>7. SocketInv'
  BY <1>1, <1>2, <1>3, Zenon DEF IInv, SocketInv, Sides
<1>8. HandlerInv'
  <2>1. HasDest' <=> HasDest
    BY <1>1 DEF HasDest
  <2>2. hpc' # "relay" => tx'["out"] = <<>> /\ \A s \in Copiers : pc'[s] = "read"
    BY <1>1, <1>2 DEF HandlerInv
  <2>3. hpc' \notin {"relay", "failed"} => resp' = "none" /\ conn'["in"] = "open" /\ tx'["in"] = <<>>
    BY <1>1, <1>2, <1>3 DEF HandlerInv
  <2>4. /\ (kind # "quic" /\ ~eager => skip = 0) /\ (eager => kind = "connect")
        /\ (IsConnect /\ ~eager /\ resp # "200" => sent["in"] = 0)
    BY <1>2 DEF HandlerInv
  <2> QED  BY <1>1, <1>3, <2>1, <2>2, <2>3, <2>4 DEF HandlerInv, IsConnect
<1> QED  BY <1>1, <1>3, <1>5, <1>6, <1>7, <1>8, HandlerStep
=============================================================================
