----------------------------- MODULE BufReader -----------------------------
(***************************************************************************)
(* BufferReader, the reader with a buffer that lets a handler look at the  *)
(* first bytes of a connection and still hand all of them on (nio/buf.go), *)
(* and the caller it was written for: SniffClientHello (nio/sni.go), run   *)
(* by SNIHandler.HandleConn before it proxies (pkg/sni/sni.go).  Also the  *)
(* same Buffer inside an InOutStream (nio/stream_in_out.go), as its read   *)
(* buffer and as the frames it sends.                                      *)
(*                                                                         *)
(* A byte is its position in the source.  A Buffer is [data, off, cap]:    *)
(* data are the bytes of buf[off:end], so end = off + Len(data), and what  *)
(* buf holds outside off..end, which nothing reads, is left out.           *)
(***************************************************************************)
EXTENDS Integers, Sequences, FiniteSetsExt

CONSTANTS
  BufSize,   \* bufSize, the capacity of a new buffer
  MinRoom,   \* the room Fill(0) wants before it reads (1024 in the code)
  MaxInput,  \* bound on the length of the source
  MaxArg,    \* bound on the counts callers pass
  VarRoom,   \* the room WriteVarint asks of Grow (8 in the code)
  VarMax,    \* the longest varint (10 bytes)
  FrameSize, \* the array GetWriteFrame gets for a message
  Prefix,    \* the space it leaves before the message (14 in the code)
  Header     \* the part of that space Send fills in (5 in the code)

ASSUME BufReaderAssumption ==
  /\ BufSize \in Nat \ {0} /\ MinRoom \in Nat \ {0}
  /\ MaxInput \in Nat /\ MaxArg \in Nat /\ VarRoom \in Nat /\ VarMax \in Nat
  /\ FrameSize \in Nat /\ Prefix \in 0..FrameSize /\ Header \in 0..Prefix

VARIABLES
  use,      \* "read" from a source, "write" into the buffer, "stream" or "frame",
            \* an InOutStream that is read or sends frames; fixed
  over,     \* the last write went beyond the array
  closer,   \* the ReadCloser of the stream has not been called
  total,    \* length of the source; fixed
  together, \* the source reports EOF with its last bytes, not after; fixed
  b,        \* br.Buffer
  src,      \* bytes the source has returned so far
  eof,      \* the source has reported EOF
  pc,       \* "idle", or where the call in progress is
  op,       \* the call: "peek", "discard", "readbyte", "sniff1", "sniff2", "sniff3"
  want,     \* the count asked of Fill; in Discard, what it has still to skip
  from,     \* stream position when the call was made; for Discard, the one it aims at
  reply     \* what the last call returned

bufVars == <<b, src, eof, pc, op, want, from, reply>>
vars == <<use, over, closer, total, together, bufVars>>

Size(x) == Len(x.data)
End(x)  == x.off + Len(x.data)
Room(x) == x.cap - End(x)

\* The position of the next byte the caller will get.
Position == src - Size(b)

\* The k bytes after position p.
Bytes(p, k) == [i \in 1..k |-> p + i]

NoReply == [op |-> "none", data |-> <<>>, err |-> FALSE]

\* GetWriteFrame: an empty message with room before it.
Frame == [data |-> <<>>, off |-> Prefix, cap |-> FrameSize]

Init ==
  /\ use \in {"read", "write", "stream", "frame"} /\ over = FALSE /\ closer = TRUE
  /\ total \in 0..MaxInput /\ together \in BOOLEAN
  /\ use \in {"write", "frame"} => total = MaxInput /\ together
  /\ b = IF use = "frame" THEN Frame ELSE [data |-> <<>>, off |-> 0, cap |-> BufSize]
  /\ src = 0 /\ eof = FALSE
  /\ pc = "idle" /\ op = "none" /\ want = 0 /\ from = 0
  /\ reply = NoReply

-----------------------------------------------------------------------------
(* The methods of Buffer.                                                  *)

Clear(x) == [x EXCEPT !.data = <<>>, !.off = 0]

Compact(x) == [x EXCEPT !.off = 0]

Consume(x, n) == [x EXCEPT !.data = SubSeq(@, n + 1, Len(@)), !.off = @ + n]

\* Mutant: the array is never replaced.
growNever(x, n) == x

\* A larger array, with the unread bytes moved to its front.
grow(x, n) ==
  IF Room(x) > n THEN x ELSE [data |-> x.data, off |-> 0, cap |-> Max({n, 2 * x.cap})]

\* Fill up to its first read.
Prepared(x, i) ==
  LET y == IF Size(x) = 0 THEN Compact(x) ELSE x IN
  CASE i = 0 -> IF Room(y) < MinRoom THEN grow(y, MinRoom) ELSE y
    [] i > 0 /\ Size(y) >= i -> y
    [] OTHER -> IF i > y.cap - y.off THEN grow(y, i - y.off) ELSE y

\* What one Read of the source may return for a slice of `room' bytes: a
\* count, and whether it came with io.EOF.
SourceReads(room) ==
  IF room = 0 THEN {[n |-> 0, err |-> FALSE]}
  ELSE IF src = total THEN {[n |-> 0, err |-> TRUE]}
  ELSE {[n |-> k, err |-> together /\ src + k = total] : k \in 1..Min({room, total - src})}

-----------------------------------------------------------------------------
(* Calls.                                                                  *)

Enter(o, i, p) ==
  /\ pc' = "fill" /\ op' = o /\ want' = i /\ from' = p

Return(o, d, e) ==
  /\ pc' = "idle" /\ op' = "none" /\ want' = 0 /\ from' = 0
  /\ reply' = [op |-> o, data |-> d, err |-> e]

Peek(i) ==
  /\ pc = "idle"
  /\ b' = Prepared(b, i)
  /\ Enter("peek", i, Position)
  /\ UNCHANGED <<total, together, src, eof, reply>>

\* SniffClientHello is what HandleConn does first.
Sniff ==
  /\ pc = "idle" /\ src = 0 /\ ~eof
  /\ b' = Prepared(b, 1)
  /\ Enter("sniff1", 1, Position)
  /\ UNCHANGED <<total, together, src, eof, reply>>

\* Read returns what is buffered, else reads the source into d itself.
ReadBuffered(n) ==
  /\ pc = "idle" /\ Size(b) > 0
  /\ b' = Consume(b, Min({n, Size(b)}))
  /\ Return("read", SubSeq(b.data, 1, Min({n, Size(b)})), FALSE)
  /\ UNCHANGED <<total, together, src, eof>>

ReadSource(n) ==
  /\ pc = "idle" /\ Size(b) = 0
  /\ \E r \in SourceReads(n) :
       /\ src' = src + r.n /\ eof' = (eof \/ r.err)
       /\ Return("read", Bytes(src, r.n), r.err)
  /\ UNCHANGED <<total, together, b>>

ReadByte ==
  /\ pc = "idle"
  /\ IF Size(b) = 0
     THEN b' = Prepared(b, 0) /\ Enter("readbyte", 0, Position) /\ UNCHANGED reply
     ELSE b' = Consume(b, 1) /\ Return("readbyte", SubSeq(b.data, 1, 1), FALSE)
  /\ UNCHANGED <<total, together, src, eof>>

Discard(n) ==
  /\ pc = "idle"
  /\ IF n > Size(b)
     THEN b' = Prepared(Clear(b), 0) /\ Enter("discard", n - Size(b), Position + n) /\ UNCHANGED reply
     ELSE /\ b' = IF n = Size(b) THEN Clear(b) ELSE Consume(b, n)
          /\ Return("discard", <<>>, FALSE)
  /\ UNCHANGED <<total, together, src, eof>>

-----------------------------------------------------------------------------
(* After a read of the source in Fill, with y the buffer it left and e     *)
(* whether it reported an error.                                           *)

\* Mutant: an error ends Fill even when the bytes asked for are there.
PeekFilledErrFirst(y, e) ==
  /\ op = "peek"
  /\ b' = y
  /\ IF want > 0 /\ Size(y) < want /\ ~e
     THEN UNCHANGED <<pc, op, want, from, reply>>
     ELSE Return("peek", y.data, e)

\* Peek: enough bytes win over an error; with neither, Fill reads again.
PeekFilled(y, e) ==
  /\ op = "peek"
  /\ b' = y
  /\ IF want > 0 /\ Size(y) < want /\ ~e
     THEN UNCHANGED <<pc, op, want, from, reply>>
     ELSE Return("peek", y.data, e /\ (want = 0 \/ Size(y) < want))

ReadByteFilled(y, e) ==
  /\ op = "readbyte"
  /\ IF e THEN b' = y /\ Return("readbyte", <<>>, TRUE)
     ELSE b' = Consume(y, 1) /\ Return("readbyte", SubSeq(y.data, 1, 1), FALSE)

\* Discard drops whole reads until one is longer than what is left to skip.
DiscardFilled(y, e) ==
  /\ op = "discard"
  /\ IF e THEN b' = y /\ Return("discard", <<>>, TRUE)
     ELSE IF Size(y) < want
     THEN /\ b' = Prepared(Clear(y), 0) /\ want' = want - Size(y)
          /\ UNCHANGED <<pc, op, from, reply>>
     ELSE /\ b' = IF Size(y) = want THEN Clear(y) ELSE Consume(y, want)
          /\ Return("discard", <<>>, FALSE)

\* InOutStream.Skip on what Fill(0) left: the bytes it has counted stay where
\* they are, for Compact drops nothing, and are counted again after the next read.
StreamSkipFilled(y, e) ==
  /\ op = "skip"
  /\ IF ~e /\ Size(y) < want
     THEN /\ b' = Prepared(Compact(y), 0) /\ want' = want - Size(y)
          /\ UNCHANGED <<pc, op, from, reply>>
     ELSE /\ b' = CASE e -> y
                    [] ~e /\ Size(y) = want -> Compact(y)
                    [] OTHER -> Consume(y, want)
          /\ Return("skip", <<>>, e)

\* SniffClientHello peeks at the record type, at the record header, and then
\* at the whole record, whose length is in the header; it may give up after
\* each.  Its verdict depends on the bytes, which the model does not have.
SniffFilled(y, e) ==
  /\ op \in {"sniff1", "sniff2", "sniff3"}
  /\ IF Size(y) < want
     THEN /\ b' = y
          /\ IF e THEN Return("sniff", y.data, TRUE) ELSE UNCHANGED <<pc, op, want, from, reply>>
     ELSE \/ b' = y /\ Return("sniff", y.data, FALSE)
          \/ /\ op = "sniff1" /\ b' = Prepared(y, 2)
             /\ op' = "sniff2" /\ want' = 2 /\ UNCHANGED <<pc, from, reply>>
          \/ /\ op = "sniff2"
             /\ \E rlen \in 1..MaxArg : b' = Prepared(y, 2 + rlen) /\ want' = 2 + rlen
             /\ op' = "sniff3" /\ UNCHANGED <<pc, from, reply>>

Filled(y, e) ==
  \/ PeekFilled(y, e)
  \/ ReadByteFilled(y, e)
  \/ DiscardFilled(y, e)
  \/ StreamSkipFilled(y, e)
  \/ SniffFilled(y, e)

\* Fill(i) with i > 0 needs no read when the bytes are there.
Satisfied == op \notin {"discard", "skip", "readbyte"} /\ want > 0 /\ Size(b) >= want

FillHas ==
  /\ pc = "fill" /\ Satisfied
  /\ Filled(b, FALSE)
  /\ UNCHANGED <<total, together, src, eof>>

\* Mutant: the bytes read are put over the unread ones.
FillReadOver ==
  /\ pc = "fill" /\ ~Satisfied
  /\ \E r \in SourceReads(Room(b)) :
       /\ src' = src + r.n /\ eof' = (eof \/ r.err)
       /\ Filled([b EXCEPT !.data = Bytes(src, r.n) \o SubSeq(b.data, r.n + 1, Len(b.data))], r.err)
  /\ UNCHANGED <<total, together>>

\* Mutant: the read is given the whole array.
FillReadWhole ==
  /\ pc = "fill" /\ ~Satisfied
  /\ \E r \in SourceReads(b.cap) :
       /\ src' = src + r.n /\ eof' = (eof \/ r.err)
       /\ Filled([b EXCEPT !.data = @ \o Bytes(src, r.n)], r.err)
  /\ UNCHANGED <<total, together>>

\* A Read of the source into buf[end:cap].
FillRead ==
  /\ pc = "fill" /\ ~Satisfied
  /\ \E r \in SourceReads(Room(b)) :
       /\ src' = src + r.n /\ eof' = (eof \/ r.err)
       /\ Filled([b EXCEPT !.data = @ \o Bytes(src, r.n)], r.err)
  /\ UNCHANGED <<total, together>>

-----------------------------------------------------------------------------
(* A buffer that is written into, and read from its front.  Here src are   *)
(* the bytes written.                                                      *)

\* An array of twice the size.
Grow(x, n) ==
  IF Room(x) > n THEN x ELSE [data |-> x.data, off |-> 0, cap |-> 2 * x.cap]

\* n bytes after the end of y.  Beyond its capacity copy stops or PutVarint panics.
Put(o, y, n) ==
  /\ pc = "idle" /\ ~over /\ src + n <= total
  /\ reply' = [op |-> o, data |-> Bytes(src, n), err |-> FALSE]
  /\ IF n <= Room(y)
     THEN b' = [y EXCEPT !.data = @ \o Bytes(src, n)] /\ src' = src + n /\ UNCHANGED over
     ELSE over' = TRUE /\ UNCHANGED <<b, src>>
  /\ UNCHANGED <<use, closer, total, together, eof, pc, op, want, from>>

\* Write; WriteByte is Write of one byte.
Write(n) == Put("write", grow(b, n), n)

WriteVarint(n) == Put("varint", Grow(b, VarRoom), n)

\* Skip, also beyond what there is.
Skip(n) ==
  /\ pc = "idle" /\ ~over
  /\ b' = IF n >= Size(b) THEN Clear(b) ELSE Consume(b, n)
  /\ Return("skip", <<>>, FALSE)
  /\ UNCHANGED <<use, over, closer, total, together, src, eof>>

-----------------------------------------------------------------------------
(* InOutStream.                                                            *)

\* Skip.  Buffer.Skip drops everything when n >= Size(b), and returns end - off
\* after it has moved off: Size(b) - n, which makes the rest 2n - Size(b).
StreamSkip(n) ==
  /\ pc = "idle"
  /\ IF n >= Size(b)
     THEN /\ b' = Prepared(Clear(b), 0)
          /\ Enter("skip", n - (Size(b) - n), Position + 2 * n) /\ UNCHANGED reply
     ELSE b' = Consume(b, n) /\ Return("skip", <<>>, FALSE)
  /\ UNCHANGED <<total, together, src, eof>>

\* Read: what is buffered first; an error of In calls ReadCloser, once.
StreamRead(n) ==
  \/ ReadBuffered(n) /\ UNCHANGED closer
  \/ ReadSource(n) /\ closer' = (closer /\ ~reply'.err)

\* The operations on the read buffer: Fill, Skip, ReadByte and Read.
Streaming ==
  \/ /\ \/ \E i \in 0..MaxArg : Peek(i)
        \/ \E n \in 1..MaxArg : StreamSkip(n)
        \/ ReadByte
        \/ FillHas
        \/ FillRead
     /\ UNCHANGED closer
  \/ \E n \in 1..MaxArg : StreamRead(n)

\* Send writes the length into the space before the message, and the two to Out;
\* with less space than that, the index is negative.
SendFrame ==
  /\ pc = "idle" /\ ~over
  /\ reply' = [op |-> "frame", data |-> b.data, err |-> FALSE]
  /\ IF b.off < Header
     THEN over' = TRUE /\ UNCHANGED <<pc, b>>
     ELSE pc' = "recycled" /\ b' = Clear(b) /\ UNCHANGED over
  /\ UNCHANGED <<use, closer, total, together, src, eof, op, want, from>>

GetWriteFrame ==
  /\ pc = "recycled"
  /\ pc' = "idle" /\ b' = Frame
  /\ UNCHANGED <<use, over, closer, total, together, src, eof, op, want, from, reply>>

Reading ==
  \/ \E i \in 0..MaxArg : Peek(i)
  \/ \E n \in 1..MaxArg : ReadBuffered(n) \/ ReadSource(n) \/ Discard(n)
  \/ ReadByte
  \/ Sniff
  \/ FillHas
  \/ FillRead

Writing ==
  \/ \E n \in 1..MaxArg : Write(n) \/ Skip(n)
  \/ \E n \in 1..VarMax : WriteVarint(n)

Framing ==
  \/ \E n \in 1..MaxArg : Write(n)
  \/ \E n \in 1..VarMax : WriteVarint(n)
  \/ SendFrame
  \/ GetWriteFrame

Next ==
  \/ use = "read" /\ Reading /\ UNCHANGED <<use, over, closer>>
  \/ use = "write" /\ Writing
  \/ use = "stream" /\ Streaming /\ UNCHANGED <<use, over>>
  \/ use = "frame" /\ Framing

Spec == Init /\ [][Next]_vars

\* The source answers every Read: the peer sends, closes, or the deadline of
\* the connection fires.
FairSpec == Spec /\ WF_bufVars(FillHas \/ FillRead)

-----------------------------------------------------------------------------
(* Properties.                                                             *)

Looks == {"peek", "sniff1", "sniff2", "sniff3"}

\* The fields of Buffer keep their types and off <= end <= cap (nio/buf.go:24-29), and
\* the reader never gets ahead of its source.
TypeOK ==
  /\ use \in {"read", "write", "stream", "frame"} /\ over \in BOOLEAN
  /\ closer \in BOOLEAN /\ (~closer => eof)
  /\ total \in 0..MaxInput /\ together \in BOOLEAN
  /\ b.off \in Nat /\ b.cap \in Nat /\ End(b) <= b.cap
  /\ src \in 0..total /\ eof \in BOOLEAN
  /\ pc \in {"idle", "fill", "recycled"}
  /\ op \in Looks \cup {"none", "discard", "skip", "readbyte"}
  /\ (pc # "fill") = (op = "none")
  /\ want \in Nat /\ from \in Nat

\* However Fill, grow and the consumers move the buffer, it holds exactly the
\* bytes that follow the reader's position, up to the last one the source
\* returned: none is lost, repeated or reordered (nio/buf.go:205-333).
BufferIsStream == b.data = Bytes(Position, Size(b))

\* No step of a call that looks ahead moves the position: after a sniff that
\* went through every length of Peek, "All read data will be left in the
\* stream" (nio/sni.go:36), so the proxied connection starts at byte one.  Peek(i)
\* that reports no error has i bytes to show, one that reports an error shows
\* everything the source had left (nio/buf.go:391-404).  Discard that reports no
\* error has moved by its count, over however many reads (nio/buf.go:354-389), and
\* InOutStream.Skip by no more than twice its count (nio/stream_in_out.go:286-309:
\* the count Buffer.Skip returns is negative, and Compact drops nothing).
PositionsMeant ==
  /\ [][(pc = "fill" /\ op \in Looks) \/ (pc' = "fill" /\ op' \in Looks)
          => Position' = Position]_bufVars
  /\ [][pc = "fill" /\ op = "peek" /\ pc' = "idle" =>
          /\ ~reply'.err => Len(reply'.data) >= want
          /\ reply'.err => src' = total /\ (want = 0 \/ Len(reply'.data) < want)]_bufVars
  /\ [][pc = "fill" /\ pc' = "idle" =>
          /\ op = "discard" /\ ~reply'.err => Position' = from
          /\ op = "skip" => Position' <= from]_bufVars

\* As long as nothing has been taken from the stream, as in SniffClientHello,
\* looking ahead returns, however the source cuts its bytes up and however far
\* beyond the buffer the caller looks (nio/buf.go:247-284).
FirstLookReturns == (pc = "fill" /\ from = 0 /\ op \notin {"discard", "skip"}) ~> (pc = "idle")

\* A write goes beyond the array only if it is a Write longer than the array was, or
\* a varint of more than one byte beyond the room that is asked for it: grow and
\* Grow, which replace an array that is too small by one that need not be large
\* enough either (nio/buf.go:157-169, 204-219), are enough for everything else.  And Send finds its
\* space before the message unless the message came close to the size that
\* GetWriteFrame was asked for: then grow has moved it to the front of a new array
\* (nio/stream_in_out.go:1120-1135).
WritesFit ==
  [][over' /\ ~over =>
       \/ reply'.op = "write" /\ Len(reply'.data) > b.cap
       \/ reply'.op = "varint" /\ Len(reply'.data) > VarRoom + 1
       \/ reply'.op = "frame" /\ Prefix + Len(reply'.data) + VarRoom >= FrameSize]_vars
=============================================================================
