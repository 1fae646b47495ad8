----------------------------- MODULE RecvBuffer -----------------------------
(***************************************************************************)
(* nio.RecvBufferReader (nio/recvbuf.go): frames put by the transport's    *)
(* I/O goroutine, read by one application goroutine.                       *)
(*                                                                         *)
(* A frame is first offered to a Go channel of capacity 1 and goes to a    *)
(* backlog slice when the channel is full.  The reader receives from the   *)
(* channel without the lock and then moves one frame from the backlog to   *)
(* the channel under the lock; other goroutines run between the two.       *)
(*                                                                         *)
(* A byte is its position in the accepted stream and a frame is the range  *)
(* from+1 .. to it carries.  Put and reloadChannel run under b.mu and are  *)
(* single steps; every receive of the reader is a step of its own.         *)
(***************************************************************************)
EXTENDS Integers, Sequences

CONSTANTS
  Sizes,      \* the sizes of the frames the transport delivers
  Reads,      \* the buffer lengths the application passes to Read
  Ops,        \* the calls the application makes: "Read", "Recv", "RecvNB"
  Faults,     \* what else may happen: "eof", "rst", "cancel", "deadline"
  MaxBytes,   \* bound on the bytes accepted
  MaxBacklog  \* bound on the backlog (flow control, as the type's comment says)

ASSUME RecvBufferAssumption ==
  /\ Sizes \subseteq Nat
  /\ Reads \subseteq Nat \ {0}
  /\ MaxBytes \in Nat
  /\ MaxBacklog \in Nat

VARIABLES
  c,          \* the channel: at most one message
  closed,     \* the channel has been closed
  backlog,    \* messages that found the channel full
  rerr,       \* the field Err
  last,       \* rest of the frame the previous Read consumed in part
  ctxDone,    \* the context was cancelled
  deadline,   \* ReadDeadline: none, set and in the future, or passed
  pc,         \* where the application goroutine is
  want,       \* len(p) of the Read in progress
  copied,     \* bytes that Read has copied to p so far
  hand,       \* the message received from c and not yet processed
  ret,        \* what the last call returned
  closeCalled,\* closeStream was called
  accepted,   \* history: bytes accepted by Put
  delivered   \* history: bytes handed to the application, in order

chanVars == <<c, closed, backlog, rerr>>
callVars == <<pc, want, copied, hand, ret>>
envVars  == <<ctxDone, deadline>>
vars == <<chanVars, callVars, envVars, last, closeCalled, accepted, delivered>>

NoErr    == "nil"
EOF      == "EOF"
RST      == "RST"        \* any transport failure other than io.EOF
Canceled == "Canceled"
Deadline == "DeadlineExceeded"
Errors   == {NoErr, EOF, RST, Canceled, Deadline}

Msg(buf, from, to, err) == [buf |-> buf, from |-> from, to |-> to, err |-> err]

\* What a receive from a closed, drained channel yields: nil Buffer, nil Err.
ZeroMsg == Msg(FALSE, 0, 0, NoErr)

\* r.last is nil, or was drained.
NoBuf == [from |-> 0, to |-> 0]

Least(a, b) == IF a < b THEN a ELSE b

\* The k bytes that follow stream position p.
Bytes(p, k) == [i \in 1..k |-> p + i]

\* What remains of a buffer after k of its bytes were read.
Rest(b, k) == IF b.from + k = b.to THEN NoBuf ELSE [from |-> b.from + k, to |-> b.to]

Init ==
  /\ c = <<>> /\ closed = FALSE /\ backlog = <<>> /\ rerr = NoErr
  /\ last = NoBuf
  /\ ctxDone = FALSE /\ deadline = "none"
  /\ pc = "idle" /\ want = 0 /\ copied = 0 /\ hand = ZeroMsg
  /\ ret = [op |-> "none", n |-> 0, err |-> NoErr]
  /\ closeCalled = FALSE
  /\ accepted = 0 /\ delivered = <<>>

-----------------------------------------------------------------------------
(***************************************************************************)
(* The I/O goroutine.  Put on a stream that already has an error returns   *)
(* without changing anything, which is the stuttering step.                *)
(***************************************************************************)

\* Mutant: the channel takes a message without room for it.
EnqueueNoRoom(r) ==
  \/ /\ backlog = <<>>
     /\ c' = Append(c, r)
     /\ closed' = (closed \/ r.err # NoErr)
     /\ UNCHANGED backlog
  \/ /\ backlog # <<>>
     /\ backlog' = Append(backlog, r)
     /\ UNCHANGED <<c, closed>>

Enqueue(r) ==
  \/ /\ backlog = <<>> /\ c = <<>>
     /\ c' = <<r>>
     /\ closed' = (closed \/ r.err # NoErr)
     /\ UNCHANGED backlog
  \/ /\ backlog # <<>> \/ c # <<>>
     /\ backlog' = Append(backlog, r)
     /\ UNCHANGED <<c, closed>>

Put(r) ==
  /\ rerr = NoErr
  /\ rerr' = r.err
  /\ Enqueue(r)
  /\ accepted' = r.to
  /\ UNCHANGED <<callVars, envVars, last, closeCalled, delivered>>

PutData ==
  /\ Len(backlog) < MaxBacklog
  /\ \E k \in Sizes :
       /\ accepted + k <= MaxBytes
       /\ Put(Msg(TRUE, accepted, accepted + k, NoErr))

PutEOF == "eof" \in Faults /\ Put(Msg(FALSE, accepted, accepted, EOF))
PutRST == "rst" \in Faults /\ Put(Msg(FALSE, accepted, accepted, RST))

-----------------------------------------------------------------------------
(***************************************************************************)
(* The two halves of every receive.                                        *)
(***************************************************************************)

Ready == c # <<>> \/ closed

Receive ==
  \/ /\ c # <<>>
     /\ hand' = Head(c) /\ c' = Tail(c)
  \/ /\ c = <<>> /\ closed
     /\ hand' = ZeroMsg /\ UNCHANGED c

\* Mutant: the backlog is left where it is.
reloadNothing == UNCHANGED <<c, backlog>>

reloadChannel ==
  \/ /\ backlog # <<>> /\ c = <<>>
     /\ c' = <<Head(backlog)>> /\ backlog' = Tail(backlog)
  \/ /\ backlog = <<>> \/ c # <<>>
     /\ UNCHANGED <<c, backlog>>

Return(op, n, err) ==
  /\ pc' = "idle"
  /\ ret' = [op |-> op, n |-> n, err |-> err]
  /\ want' = 0 /\ copied' = 0 /\ hand' = ZeroMsg

\* Mutant: what does not fit in p is dropped.
CopyOutDropsRest(b, k) ==
  /\ delivered' = delivered \o Bytes(b.from, k)
  /\ last' = NoBuf

\* Copying k bytes of buffer b to the caller's p.
CopyOut(b, k) ==
  /\ delivered' = delivered \o Bytes(b.from, k)
  /\ last' = Rest(b, k)

Live == rerr \in {NoErr, EOF}

-----------------------------------------------------------------------------
(***************************************************************************)
(* Read.                                                                   *)
(***************************************************************************)

\* Lines 218-229: first what the previous call left in r.last.
ReadStart(n) ==
  /\ pc = "idle" /\ "Read" \in Ops
  /\ LET k == Least(last.to - last.from, n) IN
       /\ CopyOut(last, k)
       /\ \/ k = n /\ Return("Read", n, NoErr)
          \/ /\ k < n
             /\ pc' = "loop" /\ want' = n /\ copied' = k
             /\ UNCHANGED <<hand, ret>>
  /\ UNCHANGED <<chanVars, envVars, closeCalled, accepted>>

\* Lines 233-235: the non-blocking receive found a message, or the channel closed.
LoopTake ==
  /\ pc = "loop" /\ Live
  /\ Receive
  /\ pc' = "loopReload"
  /\ UNCHANGED <<closed, backlog, rerr, want, copied, ret, envVars, last,
                 closeCalled, accepted, delivered>>

\* Lines 236-256.
LoopProcess ==
  /\ pc = "loopReload"
  /\ reloadChannel
  /\ \/ /\ hand.buf
        /\ LET k == Least(hand.to - hand.from, want - copied) IN
             /\ CopyOut(hand, k)
             /\ \/ copied + k = want /\ Return("Read", want, NoErr)
                \/ /\ copied + k < want
                   /\ pc' = "loop" /\ copied' = copied + k
                   /\ hand' = ZeroMsg /\ UNCHANGED <<want, ret>>
     \/ /\ ~hand.buf /\ hand.err # NoErr
        /\ Return("Read", copied, hand.err)
        /\ UNCHANGED <<last, delivered>>
     \/ /\ hand = ZeroMsg
        /\ pc' = "loop"
        /\ UNCHANGED <<want, copied, hand, ret, last, delivered>>
  /\ UNCHANGED <<closed, rerr, envVars, closeCalled, accepted>>

\* Lines 257-265: nothing more without blocking.
LoopExit ==
  /\ pc = "loop"
  /\ ~Live \/ ~Ready
  /\ \/ copied > 0 /\ Return("Read", copied, NoErr)
     \/ /\ copied = 0 /\ pc' = "check"
        /\ UNCHANGED <<want, copied, hand, ret>>
  /\ UNCHANGED <<chanVars, envVars, last, closeCalled, accepted, delivered>>

\* Lines 271-279 and 325-330: no blocking on a failed stream or past the deadline.
Check ==
  /\ pc = "check"
  /\ \/ ~Live /\ Return("Read", 0, rerr)
     \/ Live /\ deadline = "expired" /\ Return("Read", 0, Deadline)
     \/ /\ Live /\ deadline # "expired" /\ pc' = "block"
        /\ UNCHANGED <<want, copied, hand, ret>>
  /\ UNCHANGED <<chanVars, envVars, last, closeCalled, accepted, delivered>>

\* Mutant: the error is returned together with data.
FinishReadBoth(n, err) ==
  /\ rerr' = IF rerr = NoErr THEN err ELSE rerr
  /\ closeCalled' = (closeCalled \/ rerr' \notin {NoErr, EOF})
  /\ Return("Read", n, rerr')

\* Lines 284-304: what Read makes of readBlocking's n and err.
FinishRead(n, err) ==
  /\ rerr' = IF rerr = NoErr THEN err ELSE rerr
  /\ closeCalled' = (closeCalled \/ rerr' \notin {NoErr, EOF})
  /\ Return("Read", n, IF n > 0 THEN NoErr ELSE rerr')

BlockTake ==
  /\ pc = "block"
  /\ Receive
  /\ pc' = "blockReload"
  /\ UNCHANGED <<closed, backlog, rerr, want, copied, ret, envVars, last,
                 closeCalled, accepted, delivered>>

BlockTimeout ==
  /\ pc = "block" /\ deadline = "expired"
  /\ Return("Read", 0, Deadline)
  /\ UNCHANGED <<chanVars, envVars, last, closeCalled, accepted, delivered>>

BlockCancel ==
  /\ pc = "block" /\ ctxDone
  /\ FinishRead(0, Canceled)
  /\ UNCHANGED <<c, closed, backlog, envVars, last, accepted, delivered>>

\* readAdditional, lines 356-370.
BlockProcess ==
  /\ pc = "blockReload"
  /\ reloadChannel
  /\ \/ /\ hand.buf
        /\ LET k == Least(hand.to - hand.from, want) IN
             CopyOut(hand, k) /\ FinishRead(k, hand.err)
     \/ /\ ~hand.buf /\ hand.err # NoErr
        /\ FinishRead(0, hand.err)
        /\ UNCHANGED <<last, delivered>>
     \/ /\ hand = ZeroMsg
        /\ Return("Read", 0, Deadline)
        /\ UNCHANGED <<rerr, closeCalled, last, delivered>>
  /\ UNCHANGED <<closed, envVars, accepted>>

-----------------------------------------------------------------------------
(***************************************************************************)
(* Recv and RecvNB hand a whole buffer to the caller, who consumes it.     *)
(***************************************************************************)

HandOut(op, b, err) ==
  /\ delivered' = delivered \o Bytes(b.from, b.to - b.from)
  /\ last' = NoBuf
  /\ Return(op, b.to - b.from, err)

\* Lines 132-144 and 163-182, up to the select.
RecvStart(op) ==
  /\ pc = "idle" /\ op \in Ops \ {"Read"}
  /\ \/ last # NoBuf /\ HandOut(op, last, NoErr)
     \/ /\ last = NoBuf
        /\ UNCHANGED <<last, delivered>>
        /\ \/ ~Live /\ Return(op, 0, rerr)
           \/ /\ Live /\ op = "Recv" /\ deadline = "expired"
              /\ Return(op, 0, Deadline)
           \/ /\ Live /\ ~(op = "Recv" /\ deadline = "expired")
              /\ pc' = IF op = "Recv" THEN "recv" ELSE "recvNB"
              /\ UNCHANGED <<want, copied, hand, ret>>
  /\ UNCHANGED <<chanVars, envVars, closeCalled, accepted>>

RecvTake ==
  /\ pc \in {"recv", "recvNB"}
  /\ Receive
  /\ pc' = IF pc = "recv" THEN "recvReload" ELSE "recvNBReload"
  /\ UNCHANGED <<closed, backlog, rerr, want, copied, ret, envVars, last,
                 closeCalled, accepted, delivered>>

RecvProcess ==
  /\ pc \in {"recvReload", "recvNBReload"}
  /\ reloadChannel
  /\ HandOut(IF pc = "recvReload" THEN "Recv" ELSE "RecvNB", hand, hand.err)
  /\ UNCHANGED <<closed, rerr, envVars, closeCalled, accepted>>

\* The other arms of the selects: cancellation, the timer, and RecvNB's default.
RecvElse ==
  /\ \/ pc = "recv" /\ ctxDone /\ Return("Recv", 0, Canceled)
     \/ pc = "recvNB" /\ ctxDone /\ Return("RecvNB", 0, Canceled)
     \/ pc = "recv" /\ deadline = "expired" /\ Return("Recv", 0, Deadline)
     \/ pc = "recvNB" /\ ~Ready /\ ~ctxDone /\ Return("RecvNB", 0, NoErr)
  /\ UNCHANGED <<chanVars, envVars, last, closeCalled, accepted, delivered>>

-----------------------------------------------------------------------------
(***************************************************************************)
(* The environment: the application's deadline, the clock, the context.    *)
(***************************************************************************)

SetReadDeadline ==
  /\ "deadline" \in Faults /\ pc = "idle"
  /\ deadline' \in {"none", "armed", "expired"} \ {deadline}
  /\ UNCHANGED <<chanVars, callVars, ctxDone, last, closeCalled, accepted, delivered>>

Expire ==
  /\ deadline = "armed" /\ deadline' = "expired"
  /\ UNCHANGED <<chanVars, callVars, ctxDone, last, closeCalled, accepted, delivered>>

Cancel ==
  /\ "cancel" \in Faults /\ ~ctxDone /\ ctxDone' = TRUE
  /\ UNCHANGED <<chanVars, callVars, deadline, last, closeCalled, accepted, delivered>>

-----------------------------------------------------------------------------
Writer == PutData \/ PutEOF \/ PutRST

\* A call in progress; the application's decision to make one is separate.
InCall ==
  \/ LoopTake \/ LoopProcess \/ LoopExit \/ Check
  \/ BlockTake \/ BlockTimeout \/ BlockCancel \/ BlockProcess
  \/ RecvTake \/ RecvProcess \/ RecvElse

StartCall ==
  \/ \E n \in Reads : ReadStart(n)
  \/ \E op \in {"Recv", "RecvNB"} : RecvStart(op)

Next == Writer \/ InCall \/ StartCall \/ SetReadDeadline \/ Expire \/ Cancel

Spec == Init /\ [][Next]_vars

\* A goroutine that can run does run; nothing makes the application call.
FairSpec == Spec /\ WF_vars(InCall)

\* An application that reads on, as io.Copy does, in the end without deadlines.
KeepsReading == WF_vars(StartCall) /\ <>[](deadline = "none")

-----------------------------------------------------------------------------
Msgs == [buf : BOOLEAN, from : Nat, to : Nat, err : {NoErr, EOF, RST}]

\* Type correctness of the fields of RecvBufferReader and of the call in progress.
TypeOK ==
  /\ c \in Seq(Msgs) /\ Len(c) <= 1
  /\ backlog \in Seq(Msgs)
  /\ closed \in BOOLEAN /\ ctxDone \in BOOLEAN /\ closeCalled \in BOOLEAN
  /\ rerr \in {NoErr, EOF, RST, Canceled}
  /\ last \in [from : Nat, to : Nat]
  /\ deadline \in {"none", "armed", "expired"}
  /\ pc \in {"idle", "loop", "loopReload", "check", "block", "blockReload",
             "recv", "recvReload", "recvNB", "recvNBReload"}
  /\ want \in Nat /\ copied \in Nat
  /\ hand \in Msgs
  /\ ret \in [op : {"none", "Read", "Recv", "RecvNB"}, n : Nat, err : Errors]
  /\ accepted \in Nat
  /\ delivered \in Seq(Nat)

\* The application gets the accepted bytes in order, none twice and none
\* skipped, whatever Put, Read, Recv and reloadChannel interleave.
InOrder ==
  /\ Len(delivered) <= accepted
  /\ \A i \in 1..Len(delivered) : delivered[i] = i

\* Where the stream stands after r.last, the message in hand and the channel.
AfterLast == IF last = NoBuf THEN Len(delivered) ELSE last.to
AfterHand == IF hand = ZeroMsg THEN AfterLast ELSE hand.to
AfterChan == IF c = <<>> THEN AfterHand ELSE c[1].to

\* A message carries a range of the stream, an empty one if it has no Buffer.
IsRange(m) == m.from <= m.to /\ (~m.buf => m.from = m.to)

\* Every accepted byte is delivered, in r.last, in the message the reader has
\* in hand, in the channel or in the backlog, and these five hold consecutive
\* parts of the stream: no interleaving of Put with a receive loses a frame or
\* lets a later one overtake it.
NothingLost ==
  /\ last # NoBuf => last.from = Len(delivered) /\ last.from < last.to
  /\ hand # ZeroMsg => last = NoBuf /\ hand.from = AfterLast /\ IsRange(hand)
  /\ c # <<>> => c[1].from = AfterHand /\ IsRange(c[1])
  /\ \A i \in 1..Len(backlog) :
       /\ backlog[i].from = IF i = 1 THEN AfterChan ELSE backlog[i-1].to
       /\ IsRange(backlog[i])
  /\ accepted = IF backlog = <<>> THEN AfterChan ELSE backlog[Len(backlog)].to

\* Between a receive and its reloadChannel the channel may be empty while the
\* backlog is not; at every other point, and above all when the reader blocks
\* in its select, a waiting frame is visible in the channel.
NoStall ==
  pc \notin {"loopReload", "blockReload", "recvReload", "recvNBReload"}
    => (backlog # <<>> => c # <<>>)

\* Neither Put nor reloadChannel ever sends on, or closes, a closed channel
\* (both panic in Go).
NoSendOnClosed == closed => rerr # NoErr /\ backlog = <<>>

\* Every accepted byte and a queued end of the stream reach an application that keeps
\* reading, unless the stream fails.
AllDelivered ==
  KeepsReading =>
    /\ \A k \in 1..MaxBytes : (accepted >= k) ~> (Len(delivered) >= k \/ rerr = RST \/ ctxDone)
    /\ (\E i \in DOMAIN (c \o backlog) : (c \o backlog)[i].err = EOF)
         ~> (ret.err = EOF \/ ctxDone)

\* RecvBufferReader implements the byte stream: above all, io.EOF is returned only
\* to a reader that has every byte accepted, unless the context was cancelled (a
\* Read that finds both a cancellation and a queued EOF reports EOF).
Stream == INSTANCE ByteStream
  WITH sent <- accepted, rcvd <- delivered, fin <- (rerr # NoErr),
       eof <- (ret.err = EOF /\ ~ctxDone)
ImplementsStream == Stream!Spec
=============================================================================
