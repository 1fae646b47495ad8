------------------------------- MODULE Proxy -------------------------------
(***************************************************************************)
(* nio.Proxy (nio/proxy.go) and the two ReaderCopiers it runs              *)
(* (nio/streams.go): s1 copies from the accepted stream ("in") to the      *)
(* dialled connection ("out"), s2 copies back.  Each copier is a           *)
(* goroutine; Proxy collects both over unbuffered channels, tears the      *)
(* other direction down when one failed, and closes everything at the end. *)
(*                                                                         *)
(* A connection is the pair of byte queues between the proxy and a peer.   *)
(* A byte is its position in the peer's stream; FIN and RST are queued     *)
(* behind the bytes.  What Close sends is the operating system's choice:   *)
(* RST when received bytes are unread, FIN otherwise.                      *)
(*                                                                         *)
(* Who calls Proxy decides what its three arguments can do; `kind' says    *)
(* who, see the operators below.  How the callers get there is in Tunnel.  *)
(***************************************************************************)
EXTENDS Integers, Sequences

CONSTANTS
  MaxBytes,   \* bound on what each peer sends
  FaultSets   \* what may go wrong: sets of "rst" by a peer, "idle" and "quic" read
              \* timeouts, "short" writes, "call" a dial or a hijack that fails

ASSUME ProxyAssumption ==
  /\ MaxBytes \in Nat
  /\ FaultSets \subseteq SUBSET {"rst", "idle", "quic", "short", "call"}

\* The callers: with two TCP connections, the SNI handler, HTTP CONNECT to a TCP
\* connection or to an HTTP/2 stream, the handler of raw QUIC streams, and one
\* whose connections cannot be half-closed.
Kinds == {"tcp", "sni", "connect", "h2", "quic", "plain"}

Sides   == {"in", "out"}
Copiers == {"s1", "s2"}
In(s)    == IF s = "s1" THEN "in" ELSE "out"
Out(s)   == IF s = "s1" THEN "out" ELSE "in"
Other(s) == IF s = "s1" THEN "s2" ELSE "s1"

\* Items of a queue: bytes are positive.
FIN == 0
RST == -1
IsByte(v) == v > 0

VARIABLES
  kind,     \* who called Proxy; fixed
  faults,   \* what may go wrong; fixed
  peer,     \* per side: the peer is "open", has sent "fin" or has "reset"
  sent,     \* per side: bytes the peer has sent
  rx,       \* per side: bytes and FIN or RST that the proxy has not read
  tx,       \* per side: bytes and FIN or RST sent to the peer so far
  conn,     \* per side: the proxy's socket is "open", "wclosed" or "closed"
  pc,       \* per copier: where its Copy is
  buf,      \* per copier: bytes read and not yet written
  rerr,     \* per copier: what Read returned with them: "nil", "EOF" or "err"
  err,      \* per copier: the field Err: "nil", or set, "in" with InError, "out" without
  got,      \* the copiers Proxy has collected
  ret       \* what Proxy returned, "none" while it runs

netVars  == <<peer, sent, rx, tx, conn>>
copyVars == <<pc, buf, rerr, err>>
kindVars == <<kind, faults>>
sysVars  == <<netVars, copyVars, got, ret>>
vars == <<kindVars, sysVars>>

\* CanSplice: both ends are TCP connections.  An InOutStream and a BufferReader,
\* which hide one, are not.
Splices(s) == kind = "tcp" \/ (kind = "sni" /\ s = "s2")

\* The stream can be closed for writing only.
HalfCloses(x) == kind # "plain"

\* Close only ends what is sent and does not disturb reads: a QUIC stream, and
\* the request pipe of an HTTP/2 client stream.
SendOnly(x) == (kind = "quic" /\ x = "in") \/ (kind = "h2" /\ x = "out")

\* In is a net.Conn whose read deadline takes effect: not a BufferReader, not a
\* QUIC stream in an InOutStream, not an HTTP/2 stream.
Deadlines(s) == ~Splices(s) /\ kind # "sni" /\ ~SendOnly(In(s))

Init ==
  /\ kind \in Kinds /\ faults \in FaultSets
  /\ "quic" \in faults => kind = "quic"
  /\ "idle" \in faults => \E s \in Copiers : Deadlines(s)
  /\ peer = [x \in Sides |-> "open"]
  /\ sent = [x \in Sides |-> 0]
  /\ rx = [x \in Sides |-> <<>>]
  /\ tx = [x \in Sides |-> <<>>]
  /\ conn = [x \in Sides |-> IF x = "out" /\ kind \notin {"tcp", "plain"} THEN "none" ELSE "open"]
  /\ pc = [s \in Copiers |-> "read"]
  /\ buf = [s \in Copiers |-> <<>>]
  /\ rerr = [s \in Copiers |-> "nil"]
  /\ err = [s \in Copiers |-> "nil"]
  /\ got = {}
  /\ ret = "none"

-----------------------------------------------------------------------------
(***************************************************************************)
(* The peers.  A reset may discard what the proxy has not read yet.        *)
(***************************************************************************)

PeerSend(x) ==
  /\ peer[x] = "open"
  /\ sent' = [sent EXCEPT ![x] = @ + 1]
  /\ rx' = [rx EXCEPT ![x] = Append(@, sent[x] + 1)]
  /\ UNCHANGED <<peer, tx, conn, copyVars, got, ret>>

PeerFin(x) ==
  /\ peer[x] = "open"
  /\ peer' = [peer EXCEPT ![x] = "fin"]
  /\ rx' = [rx EXCEPT ![x] = Append(@, FIN)]
  /\ UNCHANGED <<sent, tx, conn, copyVars, got, ret>>

PeerReset(x) ==
  /\ "rst" \in faults /\ peer[x] # "reset"
  /\ peer' = [peer EXCEPT ![x] = "reset"]
  /\ \E keep \in {rx[x], <<>>} : rx' = [rx EXCEPT ![x] = Append(keep, RST)]
  /\ UNCHANGED <<sent, tx, conn, copyVars, got, ret>>

-----------------------------------------------------------------------------
(***************************************************************************)
(* Sockets.                                                                *)
(***************************************************************************)

\* Received bytes that the proxy's socket still holds.  The first byte of an SNI
\* client stands for its ClientHello, which the handler has in its buffer.
Unread(x) == {i \in DOMAIN rx[x] : rx[x][i] > IF kind = "sni" /\ x = "in" THEN 1 ELSE 0}

\* What Close(x) sends to the peer, given the state of the socket.
CloseSends(x) ==
  IF conn[x] \in {"none", "closed"} THEN <<>>
  ELSE IF ~SendOnly(x) /\ Unread(x) # {} THEN <<RST>>
  ELSE IF conn[x] = "wclosed" THEN <<>> ELSE <<FIN>>

\* The state Close(x) leaves.
Shut(x) == IF conn[x] = "none" THEN "none" ELSE IF SendOnly(x) THEN "wclosed" ELSE "closed"

\* Mutant: a connection closed for writing is taken for closed.
CloseAllOpen(xs) ==
  LET ys == {x \in xs : conn[x] = "open"} IN
  /\ conn' = [x \in Sides |-> IF x \in ys THEN Shut(x) ELSE conn[x]]
  /\ tx' = [x \in Sides |-> IF x \in ys THEN tx[x] \o CloseSends(x) ELSE tx[x]]

CloseAll(xs) ==
  /\ conn' = [x \in Sides |-> IF x \in xs THEN Shut(x) ELSE conn[x]]
  /\ tx' = [x \in Sides |-> IF x \in xs THEN tx[x] \o CloseSends(x) ELSE tx[x]]

\* CloseWrite if the writer has it, Close otherwise.
closeWriter(x) ==
  \/ /\ HalfCloses(x) /\ conn[x] = "open"
     /\ conn' = [conn EXCEPT ![x] = "wclosed"]
     /\ tx' = [tx EXCEPT ![x] = Append(@, FIN)]
  \/ /\ HalfCloses(x) /\ conn[x] # "open"
     /\ UNCHANGED <<conn, tx>>
  \/ ~HalfCloses(x) /\ CloseAll({x})

\* rstWriter closes both connections of its copier.
rstWriter(s) == CloseAll({In(s), Out(s)})

-----------------------------------------------------------------------------
(***************************************************************************)
(* ReaderCopier.Copy.                                                      *)
(***************************************************************************)

\* Mutant: the error of a Read is looked at before its bytes, which are lost.
ReadErrFirst(s) ==
  LET x == In(s) IN
  /\ pc[s] = "read" /\ conn[x] # "closed" /\ rx[x] # <<>>
  /\ \/ /\ Head(rx[x]) = FIN \/ (Len(rx[x]) > 1 /\ rx[x][2] = FIN)
        /\ rerr' = [rerr EXCEPT ![s] = "EOF"]
        /\ pc' = [pc EXCEPT ![s] = "readErr"]
        /\ UNCHANGED <<rx, buf>>
     \/ /\ IsByte(Head(rx[x])) /\ Len(rx[x]) = 1
        /\ buf' = [buf EXCEPT ![s] = <<Head(rx[x])>>]
        /\ rx' = [rx EXCEPT ![x] = Tail(@)]
        /\ pc' = [pc EXCEPT ![s] = "write"]
        /\ UNCHANGED rerr
  /\ UNCHANGED <<peer, sent, tx, conn, err, got, ret>>

\* One Read: a closed socket fails, otherwise the head of the queue; the end of
\* the stream may come together with the last byte and is seen again by later
\* reads.
Read(s) ==
  LET x == In(s) IN
  /\ pc[s] = "read"
  /\ \/ /\ conn[x] = "closed"
        /\ rerr' = [rerr EXCEPT ![s] = "err"]
        /\ UNCHANGED <<rx, buf>>
     \/ /\ conn[x] # "closed" /\ rx[x] # <<>> /\ Head(rx[x]) \in {FIN, RST}
        /\ rerr' = [rerr EXCEPT ![s] = IF Head(rx[x]) = FIN THEN "EOF" ELSE "err"]
        /\ UNCHANGED <<rx, buf>>
     \/ /\ conn[x] # "closed" /\ rx[x] # <<>> /\ IsByte(Head(rx[x]))
        /\ buf' = [buf EXCEPT ![s] = <<Head(rx[x])>>]
        /\ rx' = [rx EXCEPT ![x] = Tail(@)]
        /\ \/ UNCHANGED rerr
           \/ /\ Len(rx[x]) > 1 /\ rx[x][2] = FIN
              /\ rerr' = [rerr EXCEPT ![s] = "EOF"]
  /\ pc' = [pc EXCEPT ![s] = IF buf'[s] # <<>> THEN "write" ELSE "readErr"]
  /\ UNCHANGED <<peer, sent, tx, conn, err, got, ret>>

\* What a read of a silent peer may time out with: the deadline set on every
\* iteration of the buffered loop, or QUIC's NetworkIdleTimeout, which Copy takes
\* for io.EOF.
Timeouts(s) == (IF "idle" \in faults /\ Deadlines(s) THEN {"err"} ELSE {})
                 \cup (IF "quic" \in faults /\ s = "s1" THEN {"EOF"} ELSE {})

ReadTimeout(s) ==
  /\ pc[s] = "read" /\ conn[In(s)] # "closed" /\ rx[In(s)] = <<>>
  /\ \E e \in Timeouts(s) : rerr' = [rerr EXCEPT ![s] = e]
  /\ pc' = [pc EXCEPT ![s] = "readErr"]
  /\ UNCHANGED <<netVars, buf, err, got, ret>>

\* The Write of what was read succeeds: the loop goes on, unless the same Read
\* also returned an error.
Write(s) ==
  LET x == Out(s) IN
  /\ pc[s] = "write" /\ conn[x] = "open" /\ peer[x] # "reset"
  /\ tx' = [tx EXCEPT ![x] = @ \o buf[s]]
  /\ buf' = [buf EXCEPT ![s] = <<>>]
  /\ pc' = [pc EXCEPT ![s] = IF rerr[s] = "nil" THEN "read" ELSE "readErr"]
  /\ UNCHANGED <<peer, sent, rx, conn, rerr, err, got, ret>>

\* The Write fails, or is short: s.Err and rstWriter.
WriteErr(s) ==
  /\ pc[s] = "write"
  /\ conn[Out(s)] # "open" \/ peer[Out(s)] = "reset" \/ "short" \in faults
  /\ err' = [err EXCEPT ![s] = "out"]
  /\ rstWriter(s)
  /\ buf' = [buf EXCEPT ![s] = <<>>]
  /\ pc' = [pc EXCEPT ![s] = "signal"]
  /\ UNCHANGED <<peer, sent, rx, rerr, got, ret>>

\* Mutant: the end of the stream is not passed on.
ReadErrNoClose(s) ==
  /\ pc[s] = "readErr"
  /\ \/ rerr[s] = "EOF" /\ UNCHANGED <<conn, tx, err>>
     \/ /\ rerr[s] = "err"
        /\ err' = [err EXCEPT ![s] = IF Splices(s) THEN "out" ELSE "in"]
        /\ rstWriter(s)
  /\ pc' = [pc EXCEPT ![s] = "signal"]
  /\ UNCHANGED <<peer, sent, rx, buf, rerr, got, ret>>

\* Mutant: Copy returns at the end of the stream without the deferred send.
ReadErrNoSignal(s) ==
  /\ pc[s] = "readErr"
  /\ \/ /\ rerr[s] = "EOF" /\ closeWriter(Out(s))
        /\ pc' = [pc EXCEPT ![s] = "done"]
        /\ UNCHANGED err
     \/ /\ rerr[s] = "err"
        /\ err' = [err EXCEPT ![s] = IF Splices(s) THEN "out" ELSE "in"]
        /\ rstWriter(s)
        /\ pc' = [pc EXCEPT ![s] = "signal"]
  /\ UNCHANGED <<peer, sent, rx, buf, rerr, got, ret>>

\* Mutant: Err keeps what Read returned instead of InError.
ReadErrRaw(s) ==
  /\ pc[s] = "readErr"
  /\ err' = [err EXCEPT ![s] = rerr[s]]
  /\ rstWriter(s)
  /\ pc' = [pc EXCEPT ![s] = "signal"]
  /\ UNCHANGED <<peer, sent, rx, buf, rerr, got, ret>>

\* The Read's error: EOF closes the writer (not on the spliced path, which
\* returns), anything else resets.
ReadErr(s) ==
  /\ pc[s] = "readErr"
  /\ \/ /\ rerr[s] = "EOF" /\ ~Splices(s)
        /\ closeWriter(Out(s)) /\ UNCHANGED err
     \/ /\ rerr[s] = "EOF" /\ Splices(s)
        /\ UNCHANGED <<conn, tx, err>>
     \/ /\ rerr[s] = "err"
        /\ err' = [err EXCEPT ![s] = IF Splices(s) THEN "out" ELSE "in"]
        /\ rstWriter(s)
  /\ pc' = [pc EXCEPT ![s] = "signal"]
  /\ UNCHANGED <<peer, sent, rx, buf, rerr, got, ret>>

-----------------------------------------------------------------------------
(***************************************************************************)
(* Proxy.                                                                  *)
(***************************************************************************)

\* The deferred send of Copy meets a receive of Proxy's loop; if the copier
\* failed, Proxy closes both connections of the other one.
Collect(s) ==
  /\ pc[s] = "signal"
  /\ pc' = [pc EXCEPT ![s] = "done"]
  /\ got' = got \cup {s}
  /\ \/ err[s] = "nil" /\ UNCHANGED <<conn, tx>>
     \/ err[s] # "nil" /\ CloseAll({In(Other(s)), Out(Other(s))})
  /\ UNCHANGED <<peer, sent, rx, buf, rerr, err, ret>>

\* Mutant: only the error of s1 is returned.
FinishFirst ==
  /\ got = Copiers /\ ret = "none"
  /\ ret' = IF err["s1"] = "nil" THEN "nil" ELSE "err"
  /\ CloseAll(Sides)
  /\ UNCHANGED <<peer, sent, rx, copyVars, got>>

\* Both collected: the result, then Close on everything.
Finish ==
  /\ got = Copiers /\ ret = "none"
  /\ ret' = IF \A s \in Copiers : err[s] = "nil" THEN "nil" ELSE "err"
  /\ CloseAll(Sides)
  /\ UNCHANGED <<peer, sent, rx, copyVars, got>>

-----------------------------------------------------------------------------
Copy(s) == Read(s) \/ Write(s) \/ WriteErr(s) \/ ReadErr(s)

\* The goroutines of one call of Proxy.
Relay ==
  \/ \E s \in Copiers : Copy(s) \/ ReadTimeout(s) \/ Collect(s)
  \/ Finish

-----------------------------------------------------------------------------
Items == Nat \cup {RST}

ProxyTypeOK ==
  /\ kind \in Kinds /\ faults \in FaultSets
  /\ peer \in [Sides -> {"open", "fin", "reset"}]
  /\ sent \in [Sides -> Nat]
  /\ rx \in [Sides -> Seq(Items)]
  /\ tx \in [Sides -> Seq(Items)]
  /\ conn \in [Sides -> {"none", "open", "wclosed", "closed"}]
  /\ pc \in [Copiers -> {"read", "write", "readErr", "signal", "done"}]
  /\ buf \in [Copiers -> Seq(Nat)]
  /\ rerr \in [Copiers -> {"nil", "EOF", "err"}]
  /\ err \in [Copiers -> {"nil", "in", "out"}]
  /\ got \subseteq Copiers
  /\ ret \in {"none", "nil", "err"}

\* The bytes of a queue, which are in front of its FIN and RST.
Data(q) == SubSeq(q, 1, CHOOSE n \in 0..Len(q) : \A i \in 1..Len(q) : IsByte(q[i]) <=> i <= n)
Carries(q, v) == \E i \in DOMAIN q : q[i] = v
=============================================================================
