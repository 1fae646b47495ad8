---------------------------- MODULE UdsFraming -----------------------------
(***************************************************************************)
(* nextMessage (Uds), however the socket cuts and joins the frames, for    *)
(* any number of connections, frames and frame lengths: where the buffer   *)
(* stands in the stream of frames, and that every step keeps it there.     *)
(***************************************************************************)
EXTENDS Uds, TLAPS

\* Time for each leaf of the proofs.
USE SMTT(30), ZenonT(20)

Frames == [at : Nat, len : Nat \ {0}]

\* The variables that TypeOK says nothing about.
MoreTypes ==
  /\ load \in Loads
  /\ proc \in [Conns -> Procs] /\ member \in [Conns -> BOOLEAN]
  /\ peer \in [Conns -> {"none", "open", "closed"}]
  /\ frames \in [Conns -> Seq(Frames)]
  /\ messages \in [Conns -> Seq(Seq(Nat))]
  /\ cnt \in Nat

-----------------------------------------------------------------------------
(***************************************************************************)
(* nextMessage.                                                            *)
(***************************************************************************)

\* A peer writes one frame after the other.
InStream(c) ==
  LET fs == frames[c] IN
  /\ fs # <<>> => fs[1].at = 0
  /\ \A i, k \in 1..Len(fs) : i < k => End(fs[i]) <= fs[k].at
  /\ \A i \in 1..Len(fs) : i + 1 <= Len(fs) => fs[i + 1].at = End(fs[i])

\* Where the frame starts, or will, that follows the messages handed out.
NextAt(c) ==
  IF Len(messages[c]) < Len(frames[c]) THEN frames[c][Len(messages[c]) + 1].at ELSE Written(c)

\* The buffer holds the bytes from position p to the last one taken.
Holds(c, p) ==
  /\ Len(buffer[c]) = taken[c] - p
  /\ \A j \in 1..Len(buffer[c]) : buffer[c][j] = p + j

\* The buffer starts with the next frame.
Synced(c) == Holds(c, NextAt(c))

\* The handshake was too long for the buffer, its error was not looked at, and the
\* buffer starts somewhere inside it.
Lost(c) ==
  /\ pc[c] \in {"add", "serve"}
  /\ Len(messages[c]) < Len(frames[c])
  /\ LET f == frames[c][Len(messages[c]) + 1] IN
       /\ f.len > BufSize
       /\ \E p \in Nat : f.at < p /\ p < End(f) /\ Holds(c, p)

FramingOf(c) ==
  /\ peer[c] = "none" => pc[c] = "none"
  /\ InStream(c)
  /\ NextAt(c) <= taken[c] /\ taken[c] <= Written(c)
  /\ Len(messages[c]) <= Len(frames[c])
  /\ \A i \in 1..Len(messages[c]) : messages[c][i] = Body(c, i)
  /\ pc[c] \in {"none", "hello", "name", "count", "add", "serve"} => Synced(c) \/ Lost(c)
  /\ pc[c] \in {"close", "done"} =>
       \/ ~Fits(c)
       \/ peer[c] = "closed" /\ Len(messages[c]) = Len(frames[c])

Framing == \A c \in Conns : FramingOf(c)

-----------------------------------------------------------------------------
\* What the proofs below need to know of sequences.

\* A length is a natural number.
LEMMA LenNat == ASSUME NEW S, NEW s \in Seq(S) PROVE Len(s) \in Nat
  OBVIOUS

\* The elements of a sequence.
LEMMA Element == ASSUME NEW S, NEW s \in Seq(S), NEW i \in 1..Len(s) PROVE s[i] \in S
  OBVIOUS

\* When a sequence is empty.
LEMMA NonEmpty == ASSUME NEW S, NEW s \in Seq(S) PROVE s # <<>> <=> Len(s) >= 1
  OBVIOUS

\* Append, one by one.
LEMMA Appended ==
  ASSUME NEW S, NEW s \in Seq(S), NEW x \in S
  PROVE  /\ Append(s, x) \in Seq(S) /\ Append(s, x) # <<>>
         /\ Len(Append(s, x)) = Len(s) + 1
         /\ \A i \in 1..Len(s) : Append(s, x)[i] = s[i]
         /\ Append(s, x)[Len(s) + 1] = x
  OBVIOUS

\* A concatenation, one by one.
LEMMA Joined ==
  ASSUME NEW S, NEW s \in Seq(S), NEW t \in Seq(S)
  PROVE  /\ s \o t \in Seq(S) /\ Len(s \o t) = Len(s) + Len(t)
         /\ \A i \in 1..Len(s) + Len(t) :
              (s \o t)[i] = IF i <= Len(s) THEN s[i] ELSE t[i - Len(s)]
  OBVIOUS

\* A part of a sequence, one by one.
LEMMA Cut ==
  ASSUME NEW S, NEW s, NEW a \in Int, NEW b \in Int, \A i \in a..b : s[i] \in S
  PROVE  /\ SubSeq(s, a, b) \in Seq(S)
         /\ Len(SubSeq(s, a, b)) = IF a <= b THEN b - a + 1 ELSE 0
         /\ \A i \in 1..b - a + 1 : SubSeq(s, a, b)[i] = s[a + i - 1]
  OBVIOUS

-----------------------------------------------------------------------------
\* Facts about the frames of a stream and the header at the front of the buffer.

\* The types of one connection.
LEMMA StreamTypes ==
  ASSUME TypeOK, MoreTypes, NEW c \in Conns
  PROVE  /\ Header \in Nat /\ Header >= 1 /\ BufSize \in Nat
         /\ taken[c] \in Nat
         /\ buffer[c] \in Seq(Nat) /\ Len(buffer[c]) \in Nat
         /\ frames[c] \in Seq(Frames) /\ Len(frames[c]) \in Nat
         /\ messages[c] \in Seq(Seq(Nat)) /\ Len(messages[c]) \in Nat
         /\ \A i \in 1..Len(frames[c]) :
              /\ frames[c][i] \in Frames
              /\ frames[c][i].at \in Nat /\ frames[c][i].len \in Nat /\ frames[c][i].len >= 1
              /\ End(frames[c][i]) \in Nat
              /\ End(frames[c][i]) = frames[c][i].at + Header + frames[c][i].len
         /\ Written(c) \in Nat
<1>1. Header \in Nat /\ Header >= 1 /\ BufSize \in Nat
  BY UdsAssumption
<1>2. taken[c] \in Nat /\ buffer[c] \in Seq(Nat) /\ frames[c] \in Seq(Frames)
      /\ messages[c] \in Seq(Seq(Nat))
  BY DEF TypeOK, MoreTypes
<1>3. Len(buffer[c]) \in Nat /\ Len(frames[c]) \in Nat /\ Len(messages[c]) \in Nat
  BY <1>2, LenNat
<1>4. ASSUME NEW i \in 1..Len(frames[c])
      PROVE  /\ frames[c][i] \in Frames
             /\ frames[c][i].at \in Nat /\ frames[c][i].len \in Nat /\ frames[c][i].len >= 1
             /\ End(frames[c][i]) \in Nat
             /\ End(frames[c][i]) = frames[c][i].at + Header + frames[c][i].len
  <2>1. frames[c][i] \in Frames
    BY <1>2, <1>4, Element
  <2> QED BY <1>1, <2>1 DEF Frames, End
<1>5. Written(c) \in Nat
  <2>1. frames[c] # <<>> => Len(frames[c]) \in 1..Len(frames[c])
    BY <1>2, <1>3, NonEmpty
  <2> QED BY <1>4, <2>1 DEF Written
<1> QED BY <1>1, <1>2, <1>3, <1>4, <1>5

\* The frame after the messages handed out ends where the one after it starts.
LEMMA NextFrame ==
  ASSUME TypeOK, MoreTypes, NEW c \in Conns, InStream(c),
         Len(messages[c]) < Len(frames[c])
  PROVE  LET n == Len(messages[c]) + 1
             f == frames[c][n]
         IN  /\ NextAt(c) = f.at
             /\ End(f) = IF n < Len(frames[c]) THEN frames[c][n + 1].at ELSE Written(c)
             /\ End(f) <= Written(c)
<1> DEFINE fs == frames[c]
           n == Len(messages[c]) + 1
           f == fs[n]
<1>0. /\ Len(fs) \in Nat /\ n \in 1..Len(fs) /\ Written(c) \in Nat /\ Header \in Nat
      /\ \A i \in 1..Len(fs) : fs[i].at \in Nat /\ fs[i].len \in Nat
                               /\ End(fs[i]) = fs[i].at + Header + fs[i].len
  BY StreamTypes
<1>1. Written(c) = End(fs[Len(fs)])
  <2>1. fs # <<>>
    BY <1>0
  <2> QED BY <2>1 DEF Written
<1>2. NextAt(c) = f.at
  BY DEF NextAt
<1>3. End(f) = IF n < Len(fs) THEN fs[n + 1].at ELSE Written(c)
  <2>1. CASE n < Len(fs)
    <3>1. n + 1 <= Len(fs)
      BY <1>0, <2>1
    <3> QED BY <1>0, <2>1, <3>1 DEF InStream
  <2>2. CASE ~(n < Len(fs))
    <3>1. n = Len(fs)
      BY <1>0, <2>2
    <3> QED BY <1>1, <2>2, <3>1
  <2> QED BY <2>1, <2>2
<1>4. End(f) <= Written(c)
  <2>1. CASE n = Len(fs)
    BY <1>0, <1>1, <2>1
  <2>2. CASE n < Len(fs)
    <3>1. Len(fs) \in 1..Len(fs)
      BY <1>0
    <3>2. End(f) <= fs[Len(fs)].at
      BY <1>0, <2>2, <3>1, Zenon DEF InStream
    <3>3. fs[Len(fs)].at \in Nat /\ fs[Len(fs)].len \in Nat /\ End(f) \in Nat
          /\ End(fs[Len(fs)]) = fs[Len(fs)].at + Header + fs[Len(fs)].len
      BY <3>1, <1>0, StreamTypes
    <3> QED BY <1>0, <1>1, <3>2, <3>3
  <2> QED BY <1>0, <2>1, <2>2
<1> QED BY <1>2, <1>3, <1>4

\* Different frames start at different positions, and none starts inside another.
LEMMA StartsDiffer ==
  ASSUME TypeOK, MoreTypes, NEW c \in Conns, InStream(c),
         NEW i \in 1..Len(frames[c]), NEW k \in 1..Len(frames[c]),
         frames[c][i].at <= frames[c][k].at, frames[c][k].at < End(frames[c][i])
  PROVE  k = i
<1> DEFINE a == frames[c][i].at
           b == frames[c][k].at
           e == End(frames[c][i])
           g == End(frames[c][k])
<1>1. a \in Nat /\ b \in Nat /\ e \in Nat /\ g \in Nat /\ i \in Int /\ k \in Int
  BY StreamTypes
<1>2. b < g
  <2> DEFINE l == frames[c][k].len
  <2>1. Header \in Nat /\ l \in Nat /\ l >= 1 /\ g = b + Header + l
    BY StreamTypes
  <2> HIDE DEF l, b, g
  <2> QED BY ONLY <1>1, <2>1
<1>3. (i < k => e <= b) /\ (k < i => g <= a)
  BY DEF InStream
<1>4. a <= b /\ b < e
  OBVIOUS
<1> HIDE DEF a, b, e, g
<1> QED BY ONLY <1>1, <1>2, <1>3, <1>4

\* A buffer that starts with a frame shows that frame's length ...
LEMMA LenSynced ==
  ASSUME TypeOK, MoreTypes, NEW c \in Conns, FramingOf(c), Synced(c), HasHeader(c)
  PROVE  /\ Len(messages[c]) < Len(frames[c])
         /\ len1(c) = frames[c][Len(messages[c]) + 1].len
<1> DEFINE fs == frames[c]
           n == Len(messages[c]) + 1
           is == {i \in 1..Len(fs) : \A j \in 1..Header : buffer[c][j] = fs[i].at + j}
<1>0. /\ Len(fs) \in Nat /\ Len(messages[c]) \in Nat /\ Header \in Nat /\ Header >= 1
      /\ taken[c] \in Nat /\ Written(c) \in Nat /\ Len(buffer[c]) \in Nat
      /\ \A i \in 1..Len(fs) : fs[i].at \in Nat /\ fs[i].len \in Nat /\ fs[i].len >= 1
                               /\ End(fs[i]) = fs[i].at + Header + fs[i].len
  BY StreamTypes
<1>1. InStream(c) /\ taken[c] <= Written(c) /\ Len(messages[c]) <= Len(fs)
  BY DEF FramingOf
<1>2. /\ Len(buffer[c]) = taken[c] - NextAt(c) /\ Len(buffer[c]) >= Header
      /\ \A j \in 1..Len(buffer[c]) : buffer[c][j] = NextAt(c) + j
  BY DEF Synced, Holds, HasHeader, endData
<1>3. Len(messages[c]) < Len(fs)
  <2> SUFFICES ASSUME ~(Len(messages[c]) < Len(fs)) PROVE FALSE
    OBVIOUS
  <2>1. NextAt(c) = Written(c)
    BY DEF NextAt
  <2> QED BY <1>0, <1>1, <1>2, <2>1
<1>4. NextAt(c) = fs[n].at /\ n \in 1..Len(fs)
  BY <1>0, <1>3 DEF NextAt
<1>5. n \in is
  <2>1. \A j \in 1..Header : j \in 1..Len(buffer[c])
    BY <1>0, <1>2
  <2> QED BY <1>2, <1>4, <2>1
<1>6. ASSUME NEW i \in is PROVE i = n
  <2>1. 1 \in 1..Header /\ 1 \in 1..Len(buffer[c]) /\ i \in 1..Len(fs)
    BY <1>0, <1>2
  <2>2. buffer[c][1] = fs[i].at + 1 /\ buffer[c][1] = fs[n].at + 1
    BY <1>2, <1>4, <2>1
  <2>3. fs[i].at \in Nat /\ fs[n].at \in Nat /\ fs[n].len \in Nat
        /\ End(fs[n]) = fs[n].at + Header + fs[n].len
    BY <1>0, <1>4, <2>1
  <2> HIDE DEF fs, n, is
  <2>4. fs[i].at = fs[n].at
    BY <2>2, <2>3
  <2>a. Header \in Nat /\ Header >= 1
    BY <1>0
  <2>5. fs[n].at <= fs[i].at /\ fs[i].at < End(fs[n])
    BY ONLY <2>a, <2>3, <2>4
  <2> USE DEF fs, n
  <2> QED BY <1>1, <1>4, <2>1, <2>5, StartsDiffer
<1>7. (CHOOSE i \in is : TRUE) = n /\ is # {}
  BY <1>5, <1>6
<1>8. len1(c) = fs[n].len
  BY <1>7, Zenon DEF len1
<1> QED BY <1>3, <1>8

\* ... and one that starts inside a frame shows none.
LEMMA LenLost ==
  ASSUME TypeOK, MoreTypes, NEW c \in Conns, FramingOf(c), Lost(c), HasHeader(c)
  PROVE  len1(c) = 0
<1> DEFINE fs == frames[c]
           n == Len(messages[c]) + 1
           is == {i \in 1..Len(fs) : \A j \in 1..Header : buffer[c][j] = fs[i].at + j}
<1>0. /\ Len(fs) \in Nat /\ Len(messages[c]) \in Nat /\ Header \in Nat /\ Header >= 1
      /\ Len(buffer[c]) \in Nat
      /\ \A i \in 1..Len(fs) : fs[i].at \in Nat /\ fs[i].len \in Nat
                               /\ End(fs[i]) = fs[i].at + Header + fs[i].len
  BY StreamTypes
<1>1. InStream(c) /\ n \in 1..Len(fs)
  BY <1>0 DEF FramingOf, Lost
<1>2. PICK p \in Nat : fs[n].at < p /\ p < End(fs[n]) /\ Holds(c, p)
  BY DEF Lost
<1>3. ASSUME NEW i \in is PROVE FALSE
  <2>1. 1 \in 1..Header /\ 1 \in 1..Len(buffer[c]) /\ i \in 1..Len(fs)
    BY <1>0 DEF HasHeader, endData
  <2>2. buffer[c][1] = fs[i].at + 1 /\ buffer[c][1] = p + 1
    BY <1>2, <2>1 DEF Holds
  <2>3. fs[i].at \in Nat /\ fs[n].at \in Nat
    BY <1>0, <1>1, <2>1
  <2>4. fs[i].at = p
    BY <2>2, <2>3
  <2>5. fs[n].at <= fs[i].at /\ fs[i].at < End(fs[n])
    BY <1>2, <2>3, <2>4
  <2>6. i = n
    BY <1>1, <2>1, <2>5, StartsDiffer
  <2> QED BY <1>2, <2>3, <2>4, <2>6
<1>4. is = {}
  BY <1>3
<1> QED BY <1>4 DEF len1

-----------------------------------------------------------------------------
\* Facts about buffers of consecutive bytes.

Consecutive(b, p, t) == Len(b) = t - p /\ \A j \in 1..Len(b) : b[j] = p + j

\* Bytes that are read go behind those there are.
LEMMA MoreBytes ==
  ASSUME NEW b \in Seq(Nat), NEW p \in Nat, NEW t \in Nat, NEW k \in Nat, Consecutive(b, p, t)
  PROVE  LET more == b \o [i \in 1..k |-> t + i] IN
         /\ more \in Seq(Nat) /\ Len(more) = Len(b) + k
         /\ Consecutive(more, p, t + k)
<1> DEFINE q == [i \in 1..k |-> t + i]
           more == b \o q
<1>1. q \in Seq(Nat) /\ Len(q) = k /\ Len(b) \in Nat
  OBVIOUS
<1>2. /\ more \in Seq(Nat) /\ Len(more) = Len(b) + k
      /\ \A j \in 1..Len(b) + k : more[j] = IF j <= Len(b) THEN b[j] ELSE q[j - Len(b)]
  BY <1>1, Joined
<1>3. Len(b) = t - p /\ \A j \in 1..Len(b) : b[j] = p + j
  BY DEF Consecutive
<1>4. ASSUME NEW j \in 1..Len(more) PROVE more[j] = p + j
  <2>1. CASE j <= Len(b)
    <3>1. j \in 1..Len(b)
      BY <1>1, <1>2, <2>1
    <3> QED BY <1>2, <1>3, <2>1, <3>1
  <2>2. CASE ~(j <= Len(b))
    <3>1. j - Len(b) \in 1..k
      BY <1>1, <1>2, <2>2
    <3>2. more[j] = q[j - Len(b)] /\ q[j - Len(b)] = t + (j - Len(b))
      BY <1>1, <1>2, <2>2, <3>1
    <3> QED BY <1>1, <1>2, <1>3, <3>2
  <2> QED BY <2>1, <2>2
<1>5. Len(more) = (t + k) - p
  BY <1>1, <1>2, <1>3
<1> HIDE DEF more
<1>6. more \in Seq(Nat) /\ Len(more) = Len(b) + k /\ Consecutive(more, p, t + k)
  BY <1>2, <1>4, <1>5 DEF Consecutive
<1> QED BY <1>6 DEF more

\* Bytes that are handled leave at the front.
LEMMA DropBytes ==
  ASSUME NEW b \in Seq(Nat), NEW p \in Nat, NEW t \in Nat, Consecutive(b, p, t),
         NEW k \in 0..Len(b)
  PROVE  LET rest == SubSeq(b, k + 1, Len(b)) IN
         /\ rest \in Seq(Nat) /\ Len(rest) = Len(b) - k
         /\ Consecutive(rest, p + k, t)
<1> DEFINE rest == SubSeq(b, k + 1, Len(b))
<1>1. Len(b) \in Nat /\ k \in Nat /\ k <= Len(b)
  OBVIOUS
<1>2. \A i \in k + 1 .. Len(b) : b[i] \in Nat
  <2>1. \A i \in k + 1 .. Len(b) : i \in 1..Len(b)
    BY <1>1
  <2> QED BY <2>1, Element
<1>3. /\ rest \in Seq(Nat)
      /\ Len(rest) = IF k + 1 <= Len(b) THEN Len(b) - (k + 1) + 1 ELSE 0
      /\ \A i \in 1 .. Len(b) - (k + 1) + 1 : rest[i] = b[(k + 1) + i - 1]
  BY <1>1, <1>2, Cut
<1>4. Len(rest) = Len(b) - k
  BY <1>1, <1>3
<1>5. ASSUME NEW j \in 1..Len(rest) PROVE rest[j] = (p + k) + j
  <2>1. j \in 1 .. Len(b) - (k + 1) + 1 /\ j \in Nat /\ (k + 1) + j - 1 = k + j /\ k + j \in 1..Len(b)
    BY <1>1, <1>4
  <2>2. rest[j] = b[k + j]
    BY <1>3, <2>1, Zenon
  <2>3. b[k + j] = p + (k + j)
    BY <2>1 DEF Consecutive
  <2> QED BY <1>1, <2>1, <2>2, <2>3
<1>6. Len(rest) = t - (p + k)
  BY <1>1, <1>4 DEF Consecutive
<1> HIDE DEF rest
<1>7. rest \in Seq(Nat) /\ Len(rest) = Len(b) - k /\ Consecutive(rest, p + k, t)
  BY <1>3, <1>4, <1>5, <1>6 DEF Consecutive
<1> QED BY <1>7 DEF rest

\* The body of a frame.
LEMMA TakeBytes ==
  ASSUME NEW b \in Seq(Nat), NEW p \in Nat, NEW t \in Nat, Consecutive(b, p, t),
         NEW h \in Nat, NEW l \in Nat, h + l <= Len(b)
  PROVE  LET body == SubSeq(b, h + 1, h + l) IN
         /\ body \in Seq(Nat) /\ Len(body) = l
         /\ \A j \in 1..l : body[j] = p + h + j
<1> DEFINE body == SubSeq(b, h + 1, h + l)
<1>1. Len(b) \in Nat
  OBVIOUS
<1>2. \A i \in h + 1 .. h + l : i \in 1..Len(b) /\ b[i] \in Nat /\ b[i] = p + i
  <2>1. \A i \in h + 1 .. h + l : i \in 1..Len(b)
    BY <1>1
  <2> QED BY <2>1, Element DEF Consecutive
<1>3. /\ body \in Seq(Nat)
      /\ Len(body) = IF h + 1 <= h + l THEN (h + l) - (h + 1) + 1 ELSE 0
      /\ \A i \in 1 .. (h + l) - (h + 1) + 1 : body[i] = b[(h + 1) + i - 1]
  BY <1>2, Cut
<1>4. Len(body) = l
  BY <1>3
<1>5. ASSUME NEW j \in 1..l PROVE body[j] = p + h + j
  <2>1. j \in Nat /\ j \in 1 .. (h + l) - (h + 1) + 1 /\ (h + 1) + j - 1 = h + j
        /\ h + j \in h + 1 .. h + l
    OBVIOUS
  <2>2. body[j] = b[h + j]
    BY <1>3, <2>1
  <2>3. b[h + j] = p + (h + j)
    BY <1>2, <2>1
  <2> QED BY <2>1, <2>2, <2>3
<1> HIDE DEF body
<1>6. body \in Seq(Nat) /\ Len(body) = l /\ \A j \in 1..l : body[j] = p + h + j
  BY <1>3, <1>4, <1>5
<1> QED BY <1>6, Zenon DEF body

-----------------------------------------------------------------------------
\* Framing.

\* Nothing was read at first.
LEMMA InitFraming == Init => Framing
<1> SUFFICES ASSUME Init, NEW c \in Conns PROVE FramingOf(c)
  BY DEF Framing
<1>1. /\ frames[c] = <<>> /\ messages[c] = <<>> /\ buffer[c] = <<>> /\ taken[c] = 0
      /\ pc[c] = "none"
  BY DEF Init
<1>2. Len(frames[c]) = 0 /\ Len(messages[c]) = 0 /\ Len(buffer[c]) = 0
  BY <1>1
<1>3. Written(c) = 0 /\ NextAt(c) = 0
  BY <1>1, <1>2 DEF Written, NextAt
<1>4. InStream(c)
  BY <1>1, <1>2 DEF InStream
<1>5. Synced(c)
  BY <1>1, <1>2, <1>3 DEF Synced, Holds
<1> QED BY <1>1, <1>2, <1>3, <1>4, <1>5 DEF FramingOf

\* What a step may do to a connection whose stream it does not touch.
LEMMA FramingSame ==
  ASSUME NEW d \in Conns, FramingOf(d),
         frames'[d] = frames[d], messages'[d] = messages[d],
         buffer'[d] = buffer[d], taken'[d] = taken[d],
         peer[d] = "closed" => peer'[d] = "closed",
         peer'[d] = "none" => peer[d] = "none",
         \/ pc'[d] = pc[d]
         \/ pc[d] = "none" /\ pc'[d] = "hello" /\ peer'[d] # "none"
         \/ pc[d] = "name" /\ pc'[d] = "count"
         \/ pc[d] = "count" /\ pc'[d] = "add"
         \/ pc[d] = "add" /\ pc'[d] = "serve"
         \/ pc[d] = "close" /\ pc'[d] = "done"
  PROVE  FramingOf(d)'
<1>1. Written(d)' = Written(d) /\ NextAt(d)' = NextAt(d)
  BY DEF Written, NextAt
<1>2. InStream(d)' /\ (Fits(d)' <=> Fits(d))
  BY DEF FramingOf, InStream, Fits
<1>3. \A i \in 1..Len(messages[d]) : Body(d, i)' = Body(d, i)
  BY DEF Body
<1>4. \A p : Holds(d, p) => Holds(d, p)'
  BY DEF Holds
<1>5. Synced(d) => Synced(d)'
  BY <1>1 DEF Synced, Holds
<1>6. Lost(d) => Lost(d)'
  <2> SUFFICES ASSUME Lost(d) PROVE Lost(d)'
    OBVIOUS
  <2>1. pc'[d] \in {"add", "serve"}
    BY DEF Lost
  <2> QED BY <1>4, <2>1 DEF Lost
<1>7. pc'[d] \in {"none", "hello", "name", "count", "add", "serve"} => Synced(d)' \/ Lost(d)'
  BY <1>5, <1>6 DEF FramingOf
<1>8. pc'[d] \in {"close", "done"} =>
        ~Fits(d)' \/ (peer'[d] = "closed" /\ Len(messages'[d]) = Len(frames'[d]))
  BY <1>2 DEF FramingOf
<1>9. peer'[d] = "none" => pc'[d] = "none"
  BY DEF FramingOf
<1> QED BY <1>1, <1>2, <1>3, <1>7, <1>8, <1>9 DEF FramingOf

\* A peer writes the next frame.
LEMMA FramingSend ==
  ASSUME TypeOK, MoreTypes, NEW c \in Conns, FramingOf(c), PeerSends(c)
  PROVE  FramingOf(c)'
<1> DEFINE fs == frames[c]
           m == Len(messages[c])
<1>0. /\ Header \in Nat /\ Header >= 1 /\ taken[c] \in Nat /\ Len(buffer[c]) \in Nat
      /\ fs \in Seq(Frames) /\ Len(fs) \in Nat /\ m \in Nat /\ Written(c) \in Nat
      /\ \A i \in 1..Len(fs) :
           /\ fs[i].at \in Nat /\ fs[i].len \in Nat /\ fs[i].len >= 1 /\ End(fs[i]) \in Nat
           /\ End(fs[i]) = fs[i].at + Header + fs[i].len
  BY StreamTypes
<1>1. PICK k \in load.lens :
        frames' = [frames EXCEPT ![c] = Append(@, [at |-> Written(c), len |-> k])]
  BY Zenon DEF PeerSends
<1>2. k \in Nat /\ k >= 1
  BY UdsAssumption DEF MoreTypes
<1> DEFINE g == [at |-> Written(c), len |-> k]
<1>3. /\ messages'[c] = messages[c] /\ buffer'[c] = buffer[c] /\ taken'[c] = taken[c]
      /\ pc'[c] = pc[c] /\ peer'[c] = peer[c] /\ peer[c] = "open"
  BY DEF PeerSends, readVars
<1>4. frames'[c] = Append(fs, g)
  BY <1>1 DEF MoreTypes
<1>5. g \in Frames
  BY <1>0, <1>2 DEF Frames
<1>6. /\ Len(frames'[c]) = Len(fs) + 1
      /\ \A i \in 1..Len(fs) : frames'[c][i] = fs[i]
      /\ frames'[c][Len(fs) + 1] = g
      /\ frames'[c] # <<>>
  BY <1>0, <1>4, <1>5, Appended
<1>7. End(g) = Written(c) + Header + k
  BY DEF End
<1>8. Written(c)' = End(g)
  BY <1>6 DEF Written, End
<1>9. InStream(c) /\ NextAt(c) <= taken[c] /\ taken[c] <= Written(c) /\ m <= Len(fs)
  BY DEF FramingOf
<1>10. \A i \in 1..Len(fs) : End(fs[i]) <= Written(c)
  <2> SUFFICES ASSUME NEW i \in 1..Len(fs) PROVE End(fs[i]) <= Written(c)
    OBVIOUS
  <2>1. Len(fs) \in 1..Len(fs) /\ fs # <<>>
    BY <1>0
  <2>2. Written(c) = End(fs[Len(fs)])
    BY <2>1 DEF Written
  <2>3. CASE i = Len(fs)
    BY <1>0, <2>1, <2>2, <2>3
  <2>4. CASE i < Len(fs)
    <3>1. End(fs[i]) <= fs[Len(fs)].at
      BY <1>9, <2>1, <2>4 DEF InStream
    <3>2. /\ fs[Len(fs)].at \in Nat /\ fs[Len(fs)].len \in Nat /\ End(fs[i]) \in Nat
          /\ End(fs[Len(fs)]) = fs[Len(fs)].at + Header + fs[Len(fs)].len
      BY <1>0, <2>1
    <3> QED BY <1>0, <2>2, <3>1, <3>2
  <2> QED BY <1>0, <2>3, <2>4
<1>11. InStream(c)'
  <2> DEFINE gs == frames'[c]
  <2>1. gs[1].at = 0
    <3>1. CASE Len(fs) = 0
      <4>1. fs = <<>>
        BY <1>0, <3>1, NonEmpty
      <4>2. Written(c) = 0
        BY <4>1 DEF Written
      <4> QED BY <1>6, <3>1, <4>2
    <3>2. CASE Len(fs) # 0
      <4>1. 1 \in 1..Len(fs) /\ fs # <<>>
        BY <1>0, <3>2
      <4> QED BY <1>6, <1>9, <4>1 DEF InStream
    <3> QED BY <3>1, <3>2
  <2>2. ASSUME NEW i \in 1..Len(gs), NEW j \in 1..Len(gs), i < j
        PROVE  End(gs[i]) <= gs[j].at
    <3>1. i \in 1..Len(fs) /\ gs[i] = fs[i]
      BY <1>0, <1>6, <2>2
    <3>2. CASE j \in 1..Len(fs)
      BY <1>6, <1>9, <2>2, <3>1, <3>2 DEF InStream
    <3>3. CASE j = Len(fs) + 1
      BY <1>6, <1>10, <3>1, <3>3
    <3> QED BY <1>0, <1>6, <2>2, <3>2, <3>3
  <2>3. ASSUME NEW i \in 1..Len(gs), i + 1 <= Len(gs)
        PROVE  gs[i + 1].at = End(gs[i])
    <3>1. i \in 1..Len(fs) /\ gs[i] = fs[i]
      BY <1>0, <1>6, <2>3
    <3>2. CASE i + 1 <= Len(fs)
      <4>1. i + 1 \in 1..Len(fs)
        BY <1>0, <3>1, <3>2
      <4> QED BY <1>6, <1>9, <3>1, <3>2, <4>1 DEF InStream
    <3>3. CASE i = Len(fs)
      <4>1. fs # <<>>
        BY <1>0, <3>1
      <4>2. Written(c) = End(fs[i])
        BY <3>3, <4>1 DEF Written
      <4> QED BY <1>6, <3>1, <3>3, <4>2
    <3> QED BY <1>0, <3>1, <3>2, <3>3
  <2> HIDE DEF gs
  <2>4. /\ \A i, j \in 1..Len(gs) : i < j => End(gs[i]) <= gs[j].at
        /\ \A i \in 1..Len(gs) : i + 1 <= Len(gs) => gs[i + 1].at = End(gs[i])
    BY <2>2, <2>3
  <2> QED BY <2>1, <2>4 DEF InStream, gs, End
<1>12. NextAt(c)' = NextAt(c)
  <2>1. CASE m < Len(fs)
    <3>1. m + 1 \in 1..Len(fs) /\ m < Len(fs) + 1
      BY <1>0, <2>1
    <3> QED BY <1>3, <1>6, <2>1, <3>1 DEF NextAt
  <2>2. CASE m = Len(fs)
    <3>1. m < Len(fs) + 1 /\ ~(m < Len(fs))
      BY <1>0, <2>2
    <3> QED BY <1>3, <1>6, <2>2, <3>1 DEF NextAt
  <2> QED BY <1>0, <1>9, <2>1, <2>2
<1>13. ASSUME NEW i \in 1..m PROVE messages'[c][i] = Body(c, i)'
  <2>1. i \in 1..Len(fs)
    BY <1>0, <1>9
  <2>2. Body(c, i)' = Body(c, i)
    BY <1>6, <2>1 DEF Body
  <2> QED BY <1>3, <2>2 DEF FramingOf
<1>14. \A p : Holds(c, p) => Holds(c, p)'
  BY <1>3 DEF Holds
<1>15. Synced(c) => Synced(c)'
  BY <1>12, <1>14 DEF Synced, Holds
<1>16. Lost(c) => Lost(c)'
  <2> SUFFICES ASSUME Lost(c) PROVE Lost(c)'
    OBVIOUS
  <2>1. m + 1 \in 1..Len(fs) /\ m < Len(fs) + 1
    BY <1>0 DEF Lost
  <2>2. frames'[c][m + 1] = fs[m + 1]
    BY <1>6, <2>1
  <2> QED BY <1>3, <1>6, <1>14, <2>1, <2>2 DEF Lost, End
<1>17. pc[c] \in {"close", "done"} => ~Fits(c)'
  <2> SUFFICES ASSUME pc[c] \in {"close", "done"} PROVE ~Fits(c)'
    OBVIOUS
  <2>1. ~Fits(c)
    BY <1>3 DEF FramingOf
  <2>2. PICK i \in DOMAIN fs : ~(fs[i].len + Header <= BufSize)
    BY <2>1 DEF Fits
  <2>3. i \in 1..Len(fs)
    BY <1>0
  <2>4. frames'[c] \in Seq(Frames)
    BY <1>0, <1>4, <1>5, Appended
  <2>5. i \in DOMAIN frames'[c] /\ frames'[c][i] = fs[i]
    BY <1>0, <1>6, <2>3, <2>4
  <2> QED BY <2>2, <2>5 DEF Fits
<1>18. NextAt(c)' <= taken'[c] /\ taken'[c] <= Written(c)' /\ Len(messages'[c]) <= Len(frames'[c])
  BY <1>0, <1>2, <1>3, <1>6, <1>7, <1>8, <1>9, <1>12
<1> QED BY <1>3, <1>11, <1>13, <1>15, <1>16, <1>17, <1>18 DEF FramingOf

\* The positions of the frames and of the bytes do not change.
LEMMA StreamSame ==
  ASSUME NEW c \in Conns, frames'[c] = frames[c]
  PROVE  /\ Written(c)' = Written(c) /\ (InStream(c)' <=> InStream(c)) /\ (Fits(c)' <=> Fits(c))
         /\ \A i \in 1..Len(frames[c]) : Body(c, i)' = Body(c, i)
         /\ messages'[c] = messages[c] => NextAt(c)' = NextAt(c)
<1>1. Written(c)' = Written(c)
  BY DEF Written
<1>2. (InStream(c)' <=> InStream(c)) /\ (Fits(c)' <=> Fits(c))
  BY DEF InStream, Fits
<1>3. \A i \in 1..Len(frames[c]) : Body(c, i)' = Body(c, i)
  BY DEF Body
<1>4. messages'[c] = messages[c] => NextAt(c)' = NextAt(c)
  BY <1>1 DEF NextAt
<1> QED BY <1>1, <1>2, <1>3, <1>4

\* nextMessage returns an error: what it had read is gone.
LEMMA FramingFail ==
  ASSUME TypeOK, MoreTypes, NEW c \in Conns, FramingOf(c), Receiving(c), Fail(c),
         UNCHANGED <<peer, frames, taken, messages>>,
         \/ Refused(c)
         \/ ~Refused(c) /\ ~Complete(c) /\ Available(c) = 0 /\ peer[c] = "closed"
  PROVE  FramingOf(c)'
<1> DEFINE fs == frames[c]
           m == Len(messages[c])
           f == fs[m + 1]
<1>0. /\ Header \in Nat /\ Header >= 1 /\ BufSize \in Nat /\ Header < BufSize
      /\ taken[c] \in Nat /\ Len(buffer[c]) \in Nat /\ Len(buffer[c]) <= BufSize + 1
      /\ Len(fs) \in Nat /\ m \in Nat /\ Written(c) \in Nat
  BY StreamTypes, UdsAssumption DEF TypeOK
<1>1. InStream(c) /\ NextAt(c) <= taken[c] /\ taken[c] <= Written(c) /\ m <= Len(fs)
  BY DEF FramingOf
<1>2. (\A i \in 1..m : messages[c][i] = Body(c, i)) /\ (Synced(c) \/ Lost(c))
  BY DEF FramingOf, Receiving
<1>3. /\ buffer'[c] = <<>> /\ Len(buffer'[c]) = 0
      /\ pc'[c] = IF pc[c] = "hello" THEN "add" ELSE "close"
      /\ frames'[c] = fs /\ messages'[c] = messages[c] /\ taken'[c] = taken[c]
      /\ peer'[c] = peer[c]
  BY DEF Fail, TypeOK
<1>4. /\ Written(c)' = Written(c) /\ InStream(c)' /\ (Fits(c)' <=> Fits(c))
      /\ \A i \in 1..m : Body(c, i)' = Body(c, i)
      /\ NextAt(c)' = NextAt(c)
  <2>1. \A i \in 1..m : i \in 1..Len(fs)
    BY <1>0, <1>1
  <2> QED BY <1>1, <1>3, <2>1, StreamSame
\* The frame that is next, if there is one.
<1>5. ASSUME m < Len(fs)
      PROVE  /\ f.at \in Nat /\ f.len \in Nat /\ f.len >= 1 /\ End(f) = f.at + Header + f.len
             /\ NextAt(c) = f.at /\ End(f) <= Written(c)
  <2>1. m + 1 \in 1..Len(fs)
    BY <1>0, <1>5
  <2>2. NextAt(c) = f.at /\ End(f) <= Written(c)
    BY <1>1, <1>5, NextFrame
  <2> QED BY <2>1, <2>2, StreamTypes
<1>6. ASSUME m < Len(fs), f.len > BufSize PROVE ~Fits(c)
  <2>1. m + 1 \in 1..Len(fs) /\ ~(f.len + Header <= BufSize)
    BY <1>0, <1>5, <1>6
  <2>2. m + 1 \in DOMAIN fs
    BY <2>1, StreamTypes
  <2> QED BY <2>1, <2>2 DEF Fits
<1>7. Synced(c) /\ HasHeader(c) => m < Len(fs) /\ len1(c) = f.len
  BY LenSynced
<1>8. Lost(c) => pc[c] = "serve" /\ m < Len(fs) /\ f.len > BufSize
  BY DEF Lost, Receiving
<1>9. Len(messages'[c]) = m /\ (~(m < Len(fs)) => NextAt(c) = Written(c))
  BY <1>3 DEF NextAt
<1>10. ASSUME m < Len(fs), f.len > BufSize, f.at < taken[c], taken[c] < End(f), pc'[c] = "add"
       PROVE  Lost(c)'
  <2>1. Len(buffer'[c]) = taken'[c] - taken[c]
    BY <1>0, <1>3
  <2>2. Holds(c, taken[c])'
    BY <1>3, <2>1 DEF Holds
  <2> QED BY <1>0, <1>3, <1>10, <2>2 DEF Lost, End
<1> HIDE DEF fs, m, f
<1>11. \/ Synced(c)' /\ m = Len(fs) /\ peer[c] = "closed"
       \/ m < Len(fs) /\ f.len > BufSize /\ f.at < taken[c] /\ taken[c] < End(f)
       \/ pc[c] = "serve" /\ ~Fits(c)
  <2>1. CASE Refused(c) /\ Synced(c)
    <3>1. HasHeader(c) /\ m < Len(fs) /\ len1(c) = f.len
      BY <1>7, <2>1 DEF Refused
    <3>2. Len(buffer[c]) = taken[c] - f.at /\ Len(buffer[c]) >= Header
      BY <1>5, <2>1, <3>1 DEF Synced, Holds, HasHeader, endData
    <3>3. f.len > BufSize
      BY <1>5, <2>1, <3>1 DEF Refused
    <3>4. f.at < taken[c] /\ taken[c] < End(f)
      BY <1>0, <1>5, <3>1, <3>2, <3>3
    <3> QED BY <3>1, <3>3, <3>4
  <2>2. CASE Lost(c)
    BY <1>6, <1>8, <2>2
  <2>3. CASE ~Refused(c) /\ ~Complete(c) /\ Available(c) = 0 /\ peer[c] = "closed" /\ Synced(c)
    <3>1. taken[c] = Written(c)
      BY <1>0, <2>3 DEF Available
    <3>2. ~(m < Len(fs))
      <4> SUFFICES ASSUME m < Len(fs) PROVE FALSE
        OBVIOUS
      <4>1. Len(buffer[c]) = Written(c) - f.at
        BY <1>5, <2>3, <3>1 DEF Synced, Holds
      <4>2. Len(buffer[c]) >= Header + f.len /\ Len(buffer[c]) >= Header
        BY <1>0, <1>5, <4>1
      <4>3. HasHeader(c)
        BY <4>2 DEF HasHeader, endData
      <4>4. Len(buffer[c]) >= len1(c) + Header
        BY <1>0, <1>5, <1>7, <2>3, <4>2, <4>3
      <4> QED BY <2>3, <4>3, <4>4 DEF Complete, endData
    <3>3. Len(buffer'[c]) = taken[c] - Written(c)
      BY <1>0, <1>3, <3>1
    <3>4. Holds(c, Written(c))'
      BY <1>0, <1>3, <1>4, <3>3 DEF Holds
    <3>5. m = Len(fs)
      BY <1>0, <1>1, <3>2
    <3> QED BY <1>4, <1>9, <2>3, <3>2, <3>4, <3>5 DEF Synced
  <2> QED BY <1>2, <2>1, <2>2, <2>3
<1>12. pc'[c] \in {"none", "hello", "name", "count", "add", "serve"} => Synced(c)' \/ Lost(c)'
  BY <1>3, <1>10, <1>11
<1>13. pc'[c] \in {"close", "done"} =>
         ~Fits(c)' \/ (peer'[c] = "closed" /\ Len(messages'[c]) = Len(frames'[c]))
  BY <1>3, <1>4, <1>6, <1>9, <1>11, Zenon
<1>14. peer'[c] # "none"
  BY <1>3 DEF FramingOf, Receiving
<1>15. /\ Len(messages'[c]) <= Len(frames'[c])
       /\ \A i \in 1..Len(messages'[c]) : messages'[c][i] = Body(c, i)'
  BY <1>1, <1>2, <1>3, <1>4, <1>9
<1> QED BY <1>1, <1>3, <1>4, <1>12, <1>13, <1>14, <1>15 DEF FramingOf

\* More bytes come in.
LEMMA FramingRead ==
  ASSUME TypeOK, MoreTypes, NEW c \in Conns, FramingOf(c), Receiving(c),
         UNCHANGED <<peer, frames, messages, pc>>, NEW k \in 1..Available(c),
         buffer' = [buffer EXCEPT ![c] = @ \o [i \in 1..k |-> taken[c] + i]],
         taken' = [taken EXCEPT ![c] = @ + k]
  PROVE  FramingOf(c)'
<1>0. /\ taken[c] \in Nat /\ Len(buffer[c]) \in Nat /\ buffer[c] \in Seq(Nat)
      /\ Len(frames[c]) \in Nat /\ Len(messages[c]) \in Nat /\ Written(c) \in Nat
  BY StreamTypes
<1>a. k \in Nat /\ k <= Written(c) - taken[c]
  BY <1>0 DEF Available
<1>b. \A i \in 1..Len(frames[c]) : frames[c][i].at \in Nat
  BY StreamTypes
<1>1. /\ InStream(c) /\ NextAt(c) <= taken[c] /\ taken[c] <= Written(c)
      /\ Len(messages[c]) <= Len(frames[c])
      /\ \A i \in 1..Len(messages[c]) : messages[c][i] = Body(c, i)
      /\ Synced(c) \/ Lost(c)
  BY DEF FramingOf, Receiving
<1>2. /\ buffer'[c] = buffer[c] \o [i \in 1..k |-> taken[c] + i]
      /\ taken'[c] = taken[c] + k /\ pc'[c] = pc[c]
      /\ frames'[c] = frames[c] /\ messages'[c] = messages[c]
  BY DEF TypeOK
<1>3. /\ Written(c)' = Written(c) /\ InStream(c)'
      /\ \A i \in 1..Len(messages[c]) : Body(c, i)' = Body(c, i)
      /\ NextAt(c)' = NextAt(c)
  <2>1. \A i \in 1..Len(messages[c]) : i \in 1..Len(frames[c])
    BY <1>0, <1>1
  <2> QED BY <1>1, <1>2, <2>1, StreamSame
<1>4. NextAt(c) \in Nat
  <2>1. CASE Len(messages[c]) < Len(frames[c])
    <3>1. Len(messages[c]) + 1 \in 1..Len(frames[c])
      BY <1>0, <2>1
    <3> QED BY <1>b, <2>1, <3>1 DEF NextAt
  <2>2. CASE ~(Len(messages[c]) < Len(frames[c]))
    BY <1>0, <2>2 DEF NextAt
  <2> QED BY <2>1, <2>2
<1>5. ASSUME NEW p \in Nat, Holds(c, p) PROVE Holds(c, p)'
  <2>1. Consecutive(buffer[c], p, taken[c])
    BY <1>5 DEF Holds, Consecutive
  <2>2. Consecutive(buffer[c] \o [i \in 1..k |-> taken[c] + i], p, taken[c] + k)
    BY <1>0, <1>a, <2>1, MoreBytes
  <2> QED BY <1>2, <2>2 DEF Holds, Consecutive
<1>6. Synced(c) => Synced(c)'
  BY <1>3, <1>4, <1>5, Zenon DEF Synced, Holds
<1>7. Lost(c) => Lost(c)'
  BY <1>2, <1>5 DEF Lost, End
<1>8. NextAt(c)' <= taken'[c] /\ taken'[c] <= Written(c)'
  <2>1. NextAt(c) <= taken[c] /\ taken'[c] = taken[c] + k
    BY <1>1, <1>2
  <2> QED BY <1>0, <1>3, <1>4, <1>a, <2>1
<1>9. pc'[c] \notin {"close", "done"}
  BY <1>2 DEF Receiving
<1> QED BY <1>1, <1>2, <1>3, <1>6, <1>7, <1>8, <1>9, Zenon DEF FramingOf

\* A whole frame is handed out, and what follows it moves to the front.
LEMMA FramingMessage ==
  ASSUME TypeOK, MoreTypes, NEW c \in Conns, FramingOf(c), Receiving(c), Complete(c),
         Keep(c), Handle(c, SubSeq(buffer[c], Header + 1, Header + len1(c))),
         UNCHANGED <<peer, frames, taken>>
  PROVE  FramingOf(c)'
<1> DEFINE fs == frames[c]
           m == Len(messages[c])
           f == fs[m + 1]
           b == buffer[c]
           body == SubSeq(b, Header + 1, Header + len1(c))
<1>0. /\ Header \in Nat /\ Header >= 1 /\ taken[c] \in Nat
      /\ b \in Seq(Nat) /\ Len(b) \in Nat /\ messages[c] \in Seq(Seq(Nat))
      /\ Len(fs) \in Nat /\ m \in Nat /\ Written(c) \in Nat
      /\ \A i \in 1..Len(fs) :
           /\ fs[i].at \in Nat /\ fs[i].len \in Nat /\ fs[i].len >= 1 /\ End(fs[i]) \in Nat
           /\ End(fs[i]) = fs[i].at + Header + fs[i].len
  BY StreamTypes
<1>1. /\ InStream(c) /\ NextAt(c) <= taken[c] /\ taken[c] <= Written(c) /\ m <= Len(fs)
      /\ \A i \in 1..m : messages[c][i] = Body(c, i)
      /\ Synced(c) \/ Lost(c)
  BY DEF FramingOf, Receiving
<1>2. HasHeader(c) /\ len1(c) # 0 /\ Len(b) >= len1(c) + Header
  BY DEF Complete, Refused, endData
<1>3. Synced(c)
  BY <1>1, <1>2, LenLost
<1>4. m < Len(fs) /\ len1(c) = f.len
  BY <1>2, <1>3, LenSynced
<1>5. m + 1 \in 1..Len(fs)
  BY <1>0, <1>4
<1>6. f.at \in Nat /\ f.len \in Nat /\ End(f) = f.at + Header + f.len
  BY <1>0, <1>5, Zenon
<1>7. /\ NextAt(c) = f.at /\ End(f) <= Written(c)
      /\ End(f) = IF m + 1 < Len(fs) THEN fs[m + 2].at ELSE Written(c)
  <2>1. (m + 1) + 1 = m + 2
    BY <1>0
  <2> QED BY <1>1, <1>4, <2>1, NextFrame
<1>8. Consecutive(b, f.at, taken[c])
  BY <1>3, <1>7 DEF Synced, Holds, Consecutive
<1>9. Len(b) >= Header + f.len
  BY <1>0, <1>2, <1>4, <1>6
<1>10. body \in Seq(Nat) /\ body = [j \in 1..f.len |-> f.at + Header + j]
  <2> HIDE DEF f, fs, m, b
  <2> DEFINE l == f.len
             a == f.at
  <2>1. Header + l <= Len(b)
    BY <1>0, <1>6, <1>9
  <2>2. /\ Header \in Nat /\ l \in Nat /\ a \in Nat /\ b \in Seq(Nat) /\ taken[c] \in Nat
        /\ Consecutive(b, a, taken[c])
    BY <1>0, <1>6, <1>8
  <2> HIDE DEF l, a
  <2> DEFINE q == SubSeq(b, Header + 1, Header + l)
  <2>3. q \in Seq(Nat) /\ Len(q) = l /\ \A j \in 1..l : q[j] = a + Header + j
    BY <2>1, <2>2, TakeBytes, Zenon
  <2> HIDE DEF q
  <2>4. q = [j \in 1..l |-> a + Header + j]
    BY <2>2, <2>3
  <2> QED BY <1>4, <2>3, <2>4 DEF l, a, q
<1>11. body = Body(c, m + 1)
  BY <1>10 DEF Body
<1>12. Consecutive(SubSeq(b, len1(c) + Header + 1, Len(b)), End(f), taken[c])
  <2> DEFINE k == f.len + Header
  <2> HIDE DEF f, fs, m, b
  <2>0. Header \in Nat /\ Len(b) \in Nat
    BY <1>0
  <2>1. k \in 0..Len(b) /\ f.at + k = End(f)
    BY <2>0, <1>6, <1>9
  <2> HIDE DEF k
  <2>2. Consecutive(SubSeq(b, k + 1, Len(b)), f.at + k, taken[c])
    BY <1>0, <1>6, <1>8, <2>1, DropBytes
  <2>3. Consecutive(SubSeq(b, k + 1, Len(b)), End(f), taken[c])
    BY <2>1, <2>2
  <2> QED BY <1>4, <2>3 DEF k
<1>13. /\ buffer'[c] = SubSeq(b, len1(c) + Header + 1, Len(b))
       /\ messages'[c] = Append(messages[c], body)
       /\ pc'[c] \in {"serve", "name", "add"}
       /\ frames'[c] = fs /\ taken'[c] = taken[c]
  BY Zenon DEF Keep, Handle, TypeOK, MoreTypes
<1>14. /\ Len(messages'[c]) = m + 1
       /\ \A i \in 1..m : messages'[c][i] = messages[c][i]
       /\ messages'[c][m + 1] = body
  <2>1. messages[c] \in Seq(Seq(Nat)) /\ body \in Seq(Nat)
    BY <1>0, <1>10, Zenon
  <2>2. messages'[c] = Append(messages[c], body)
    BY <1>13
  <2> HIDE DEF body
  <2> QED BY ONLY <2>1, <2>2, Appended
<1>15. /\ Written(c)' = Written(c) /\ InStream(c)'
       /\ \A i \in 1..Len(fs) : Body(c, i)' = Body(c, i)
  BY <1>1, <1>13, StreamSame
<1>a. /\ Header \in Nat /\ m \in Nat /\ Len(fs) \in Nat /\ Len(b) \in Nat /\ taken[c] \in Nat
      /\ m < Len(fs)
  BY <1>0, <1>4
<1>b. InStream(c) /\ taken[c] <= Written(c) /\ \A i \in 1..m : messages[c][i] = Body(c, i)
  BY <1>1, Zenon
<1> HIDE DEF fs, m, f, b, body
<1>16. NextAt(c)' = End(f)
  <2>1. CASE m + 1 < Len(fs)
    <3>1. (m + 1) + 1 = m + 2
      BY <1>a
    <3> QED BY <1>7, <1>13, <1>14, <2>1, <3>1 DEF NextAt
  <2>2. CASE ~(m + 1 < Len(fs))
    BY <1>7, <1>13, <1>14, <1>15, <2>2, Zenon DEF NextAt
  <2> QED BY <2>1, <2>2
<1>17. Synced(c)'
  BY <1>12, <1>13, <1>16, Zenon DEF Synced, Holds, Consecutive
<1>18. End(f) <= taken[c]
  <2>1. Len(b) = taken[c] - f.at
    BY <1>8 DEF Consecutive
  <2> QED BY <1>a, <1>6, <1>9, <2>1
<1>19. \A i \in 1..Len(messages'[c]) : messages'[c][i] = Body(c, i)'
  <2> SUFFICES ASSUME NEW i \in 1..Len(messages'[c]) PROVE messages'[c][i] = Body(c, i)'
    OBVIOUS
  <2>1. i \in 1..Len(fs) /\ (i \in 1..m \/ i = m + 1)
    BY <1>a, <1>14
  <2>2. Body(c, i)' = Body(c, i)
    BY <1>15, <2>1
  <2> QED BY <1>b, <1>11, <1>14, <2>1, <2>2
<1>20. Len(messages'[c]) <= Len(frames'[c])
  <2>1. Len(messages'[c]) = m + 1 /\ frames'[c] = fs
    BY <1>13, <1>14, Zenon
  <2>2. m + 1 <= Len(fs)
    BY ONLY <1>a
  <2> QED BY <2>1, <2>2, Zenon
<1>21. NextAt(c)' <= taken'[c] /\ taken'[c] <= Written(c)'
  BY <1>b, <1>13, <1>15, <1>16, <1>18
<1>22. peer'[c] # "none"
  BY DEF FramingOf, Receiving
<1> QED BY <1>13, <1>15, <1>17, <1>19, <1>20, <1>21, <1>22, Zenon DEF FramingOf

\* Every step keeps the framing of every connection.
LEMMA FramingStep ==
  ASSUME TypeOK, MoreTypes, Framing, Next
  PROVE  Framing'
<1> SUFFICES ASSUME NEW d \in Conns PROVE FramingOf(d)'
  BY DEF Framing
<1> USE DEF readVars
<1>0. FramingOf(d)
  BY DEF Framing
<1>1. ASSUME NEW c \in Conns, Connect(c) PROVE FramingOf(d)'
  <2>1. /\ frames'[d] = frames[d] /\ messages'[d] = messages[d]
        /\ buffer'[d] = buffer[d] /\ taken'[d] = taken[d]
        /\ peer[d] = "closed" => peer'[d] = "closed"
        /\ peer'[d] = "none" => peer[d] = "none"
        /\ pc[c] = "none"
    BY <1>1 DEF Connect, MoreTypes, Framing, FramingOf
  <2>2. \/ pc'[d] = pc[d]
        \/ pc[d] = "none" /\ pc'[d] = "hello" /\ peer'[d] # "none"
    BY <1>1, <2>1 DEF Connect, TypeOK, MoreTypes
  <2> QED BY <1>0, <2>1, <2>2, FramingSame, Zenon
<1>2. ASSUME NEW c \in Conns, PeerSends(c) PROVE FramingOf(d)'
  <2>1. CASE d = c
    BY <1>0, <1>2, <2>1, FramingSend
  <2>2. CASE d # c
    <3>1. frames'[d] = frames[d]
      BY <1>2, <2>2 DEF PeerSends, MoreTypes
    <3>2. UNCHANGED <<peer, taken, buffer, pc, messages>>
      BY <1>2 DEF PeerSends
    <3> QED BY <1>0, <3>1, <3>2, FramingSame
  <2> QED BY <2>1, <2>2
<1>3. ASSUME NEW c \in Conns, PeerCloses(c) PROVE FramingOf(d)'
  BY <1>0, <1>3, FramingSame DEF PeerCloses, MoreTypes
<1>4. ASSUME NEW c \in Conns, Parse(c) PROVE FramingOf(d)'
  <2>0. UNCHANGED <<peer, frames, taken>> /\ Receiving(c)
    BY <1>4 DEF Parse
  <2>1. CASE Refused(c) /\ Fail(c) /\ UNCHANGED messages
    <3>1. CASE d = c
      BY <1>0, <2>0, <2>1, <3>1, FramingFail
    <3>2. CASE d # c
      <4>1. buffer'[d] = buffer[d] /\ pc'[d] = pc[d]
        BY <2>1, <3>2 DEF Fail, TypeOK
      <4> QED BY <1>0, <2>0, <2>1, <4>1, FramingSame
    <3> QED BY <3>1, <3>2
  <2>2. CASE Complete(c) /\ Keep(c) /\ Handle(c, SubSeq(buffer[c], Header + 1, Header + len1(c)))
    <3>1. CASE d = c
      BY <1>0, <2>0, <2>2, <3>1, FramingMessage
    <3>2. CASE d # c
      <4>1. buffer'[d] = buffer[d] /\ pc'[d] = pc[d] /\ messages'[d] = messages[d]
        BY <2>2, <3>2 DEF Keep, Handle, TypeOK, MoreTypes
      <4> QED BY <1>0, <2>0, <4>1, FramingSame
    <3> QED BY <3>1, <3>2
  <2>3. CASE UNCHANGED <<buffer, messages, pc>>
    BY <1>0, <2>0, <2>3, FramingSame
  <2> QED BY <1>4, <2>1, <2>2, <2>3 DEF Parse
<1>5. ASSUME NEW c \in Conns, ReadMore(c) PROVE FramingOf(d)'
  <2>0. UNCHANGED <<peer, frames, messages>> /\ Receiving(c) /\ ~Refused(c) /\ ~Complete(c)
    BY <1>5 DEF ReadMore
  <2>1. ASSUME UNCHANGED pc, NEW k \in 1..Available(c),
               buffer' = [buffer EXCEPT ![c] = @ \o [i \in 1..k |-> taken[c] + i]],
               taken' = [taken EXCEPT ![c] = @ + k]
        PROVE  FramingOf(d)'
    <3>1. CASE d = c
      BY <1>0, <2>0, <2>1, <3>1, FramingRead, Zenon
    <3>2. CASE d # c
      <4>1. buffer'[d] = buffer[d] /\ taken'[d] = taken[d]
        BY <2>1, <3>2 DEF TypeOK
      <4> QED BY <1>0, <2>0, <2>1, <4>1, FramingSame
    <3> QED BY <3>1, <3>2
  <2>2. CASE Available(c) = 0 /\ peer[c] = "closed" /\ Fail(c) /\ UNCHANGED taken
    <3>1. CASE d = c
      BY <1>0, <2>0, <2>2, <3>1, FramingFail
    <3>2. CASE d # c
      <4>1. buffer'[d] = buffer[d] /\ pc'[d] = pc[d]
        BY <2>2, <3>2 DEF Fail, TypeOK
      <4> QED BY <1>0, <2>0, <2>2, <4>1, FramingSame
    <3> QED BY <3>1, <3>2
  <2>3. CASE UNCHANGED <<taken, buffer, pc>>
    BY <1>0, <2>0, <2>3, FramingSame
  <2> QED BY <1>5, <2>1, <2>2, <2>3, Zenon DEF ReadMore
<1>6. ASSUME NEW c \in Conns, TakeName(c) PROVE FramingOf(d)'
  BY <1>0, <1>6, FramingSame DEF TakeName, TypeOK
<1>7. ASSUME NEW c \in Conns, Count(c) PROVE FramingOf(d)'
  BY <1>0, <1>7, FramingSame DEF Count, TypeOK
<1>8. ASSUME NEW c \in Conns, AddConnection(c) PROVE FramingOf(d)'
  BY <1>0, <1>8, FramingSame DEF AddConnection, TypeOK
<1>9. ASSUME NEW c \in Conns, RemoveConnection(c) PROVE FramingOf(d)'
  BY <1>0, <1>9, FramingSame DEF RemoveConnection, TypeOK
<1>10. CASE Send
  <2>1. UNCHANGED quiet
    BY <1>10, Zenon DEF Send, SendStart, RangeStart, RangeStep, RangeEnd
  <2> QED BY <1>0, <2>1, FramingSame DEF quiet
<1> QED BY <1>1, <1>2, <1>3, <1>4, <1>5, <1>6, <1>7, <1>8, <1>9, <1>10 DEF Next, Fixed, Serve
=============================================================================
