---------------------------- MODULE StreamProxy ----------------------------
(***************************************************************************)
(* The relay that InOutStream has of its own (nio2/stream_in_out.go):      *)
(* ProxyTo, whose s1 is proxyToClient with WriteTo and whose s2 is the     *)
(* goroutine proxyFromClient with ReadFrom, and the one-way CopyBuffered.  *)
(* Peers, queues and sockets are those of Proxy: "in" is the stream's In   *)
(* and Out, "out" the dialled connection nc.                               *)
(*                                                                         *)
(* mode says which code runs: "splice" when both are TCP connections,      *)
(* "rbuf" when they are not and the stream has a read buffer (with one     *)
(* sniffed byte in it), "nobuf" when it has none, "copy" for CopyBuffered. *)
(* A loop that comes round without an effect is no step.                   *)
(***************************************************************************)
EXTENDS Proxy

VARIABLES
  mode,     \* fixed
  result    \* per copier: the error WriteTo, ReadFrom or CopyBuffered recorded in the
            \* stream; err is set when it returned one

spVars == <<sysVars, result>>
spAll  == <<kindVars, mode, spVars>>

Modes == {"splice", "rbuf", "nobuf", "copy"}

InitStream ==
  /\ mode \in Modes /\ faults \in FaultSets
  /\ kind = IF mode = "splice" THEN "tcp" ELSE "connect"
  /\ "idle" \in faults => mode # "splice"
  /\ peer = [x \in Sides |-> "open"]
  /\ rx = [x \in Sides |-> <<>>] /\ tx = [x \in Sides |-> <<>>]
  /\ conn = [x \in Sides |-> "open"]
  /\ sent = [x \in Sides |-> IF mode = "rbuf" /\ x = "in" THEN 1 ELSE 0]
  /\ buf = [s \in Copiers |-> IF mode = "rbuf" /\ s = "s1" THEN <<1>> ELSE <<>>]
  /\ pc = [s \in Copiers |-> CASE mode = "rbuf" /\ s = "s1" -> "write"
                               [] mode = "copy" /\ s = "s2" -> "done"
                               [] OTHER -> "read"]
  /\ rerr = [s \in Copiers |-> "nil"] /\ err = [s \in Copiers |-> "nil"]
  /\ result = [s \in Copiers |-> "nil"]
  /\ got = {} /\ ret = "none"

\* The copier is done with its loop; e is what it recorded for those who test it.
Leave(s, e) ==
  /\ result' = [result EXCEPT ![s] = e]
  /\ pc' = [pc EXCEPT ![s] = "after"]

-----------------------------------------------------------------------------
(***************************************************************************)
(* One Read.  Without a read buffer WriteTo reads into an empty slice (the *)
(* pooled buffer is assigned to a variable of an inner block), which only  *)
(* fails once the connection is closed.  ReadFrom looks at errors only     *)
(* when bytes came with them, so an EOF or an error that comes alone makes *)
(* it read again, forever.                                                 *)
(***************************************************************************)

\* The Read returned no bytes and the error e.  The spliced copy returns it and
\* records nothing.
EndsWith(s, e) ==
  /\ \/ mode = "splice" /\ Leave(s, "nil")
     \/ mode = "copy" /\ Leave(s, IF e = "EOF" THEN "EOF" ELSE "nil")
     \/ mode \in {"rbuf", "nobuf"} /\ s = "s1" /\ Leave(s, e)
  /\ err' = [err EXCEPT ![s] = IF e = "err" THEN "in" ELSE @]

ReadFails(s) ==
  LET x == In(s) IN
  /\ pc[s] = "read"
  /\ \/ conn[x] = "closed" /\ EndsWith(s, "err")
     \/ /\ conn[x] # "closed" /\ rx[x] # <<>> /\ ~IsByte(Head(rx[x]))
        /\ mode = "nobuf" => s # "s1"
        /\ EndsWith(s, IF Head(rx[x]) = FIN THEN "EOF" ELSE "err")
     \/ /\ conn[x] # "closed" /\ rx[x] = <<>> /\ "idle" \in faults
        /\ mode = "nobuf" => s # "s1"
        /\ EndsWith(s, "err")
  /\ UNCHANGED <<netVars, buf, rerr, got, ret>>

ReadData(s) ==
  LET x == In(s) IN
  /\ pc[s] = "read" /\ conn[x] # "closed" /\ rx[x] # <<>> /\ IsByte(Head(rx[x]))
  /\ mode = "nobuf" => s # "s1"
  /\ buf' = [buf EXCEPT ![s] = <<Head(rx[x])>>]
  /\ rx' = [rx EXCEPT ![x] = Tail(@)]
  /\ rerr' \in {rerr, [rerr EXCEPT ![s] = IF Len(rx[x]) > 1 /\ rx[x][2] = FIN THEN "EOF" ELSE @]}
  /\ pc' = [pc EXCEPT ![s] = "write"]
  /\ UNCHANGED <<peer, sent, tx, conn, err, result, got, ret>>

\* Mutant: the bytes of a Read that also returned io.EOF are not written.
WriteBytesLate(s) ==
  LET x == Out(s) IN
  /\ pc[s] = "write" /\ conn[x] = "open" /\ peer[x] # "reset"
  /\ tx' = [tx EXCEPT ![x] = IF rerr[s] = "nil" THEN @ \o buf[s] ELSE @]
  /\ buf' = [buf EXCEPT ![s] = <<>>]
  /\ IF rerr[s] = "nil"
     THEN pc' = [pc EXCEPT ![s] = "read"] /\ UNCHANGED result
     ELSE Leave(s, IF mode = "splice" THEN "nil" ELSE rerr[s])
  /\ UNCHANGED <<peer, sent, rx, conn, rerr, err, got, ret>>

WriteBytes(s) ==
  LET x == Out(s) IN
  /\ pc[s] = "write" /\ conn[x] = "open" /\ peer[x] # "reset"
  /\ tx' = [tx EXCEPT ![x] = @ \o buf[s]]
  /\ buf' = [buf EXCEPT ![s] = <<>>]
  /\ IF rerr[s] = "nil"
     THEN pc' = [pc EXCEPT ![s] = "read"] /\ UNCHANGED result
     ELSE Leave(s, IF mode = "splice" THEN "nil" ELSE rerr[s])
  /\ UNCHANGED <<peer, sent, rx, conn, rerr, err, got, ret>>

\* WriteTo and CopyBuffered keep the error of a Write; ReadFrom returns it and
\* records nothing, so that it is not taken for a failure.
WriteFails(s) ==
  /\ pc[s] = "write"
  /\ conn[Out(s)] # "open" \/ peer[Out(s)] = "reset"
  /\ buf' = [buf EXCEPT ![s] = <<>>]
  /\ err' = [err EXCEPT ![s] = "out"]
  /\ Leave(s, IF mode = "splice" \/ s = "s2" THEN "nil" ELSE "err")
  /\ UNCHANGED <<netVars, rerr, got, ret>>

-----------------------------------------------------------------------------
\* Mutant: proxyToClient reports only a recorded error.
proxyAfterSilent(s) ==
  /\ pc[s] = "after" /\ mode # "copy"
  /\ pc' = [pc EXCEPT ![s] = "done"]
  /\ IF result[s] = "err" THEN CloseAll(Sides) ELSE closeWriter(Out(s))
  /\ got' = IF s = "s1" /\ result[s] = "nil" THEN got ELSE got \cup {s}
  /\ UNCHANGED <<peer, sent, rx, buf, rerr, err, result, ret>>

\* proxyToClient and proxyFromClient after the copy: a recorded error closes both
\* connections, anything else sends a FIN on.
proxyAfter(s) ==
  /\ pc[s] = "after" /\ mode # "copy"
  /\ pc' = [pc EXCEPT ![s] = "done"]
  /\ IF result[s] = "err" THEN CloseAll(Sides) ELSE closeWriter(Out(s))
  /\ got' = got \cup {s}
  /\ UNCHANGED <<peer, sent, rx, buf, rerr, err, result, ret>>

\* ProxyTo has both: the error of proxyFromClient goes first.
ProxyTo ==
  /\ got = Copiers /\ ret = "none"
  /\ ret' = IF result["s2"] # "nil" THEN result["s2"]
            ELSE IF err["s2"] # "nil" THEN "err" ELSE result["s1"]
  /\ CloseAll(Sides)
  /\ UNCHANGED <<peer, sent, rx, copyVars, result, got>>

\* CopyBuffered returns: an error of the source other than EOF as nil.
CopyBuffered ==
  /\ mode = "copy" /\ pc["s1"] = "after" /\ ret = "none"
  /\ ret' = result["s1"]
  /\ pc' = [pc EXCEPT !["s1"] = "done"]
  /\ UNCHANGED <<netVars, buf, rerr, err, result, got>>

-----------------------------------------------------------------------------
StreamPeers ==
  \E x \in Sides :
    /\ (sent[x] < MaxBytes /\ PeerSend(x)) \/ PeerFin(x) \/ PeerReset(x)
    /\ UNCHANGED result

StreamCopy(s) == ReadFails(s) \/ ReadData(s) \/ WriteBytes(s) \/ WriteFails(s) \/ proxyAfter(s)

NextStream ==
  /\ \/ StreamPeers
     \/ \E s \in Copiers : StreamCopy(s)
     \/ ProxyTo
     \/ CopyBuffered
  /\ UNCHANGED <<kindVars, mode>>

\* The goroutines run; peers owe nothing.
FairStream ==
  /\ InitStream /\ [][NextStream]_spAll
  /\ \A s \in Copiers : WF_spVars(StreamCopy(s))
  /\ WF_spVars(ProxyTo) /\ WF_spVars(CopyBuffered)

-----------------------------------------------------------------------------
StreamTypeOK ==
  /\ mode \in Modes
  /\ pc \in [Copiers -> {"read", "write", "after", "done"}]
  /\ conn \in [Sides -> {"open", "wclosed", "closed"}]
  /\ result \in [Copiers -> {"nil", "EOF", "err"}]
  /\ err \in [Copiers -> {"nil", "in", "out"}]
  /\ ret \in {"none", "nil", "EOF", "err"}

\* ProxyTo and CopyBuffered: whatever path is taken, what a peer is sent is a prefix
\* of what the other has sent, in order and without repetition; and CopyBuffered
\* returns io.EOF, "graceful close", only with everything copied.
RelayedExactly ==
  /\ \A s \in Copiers :
       LET q == Data(tx[Out(s)]) IN
       q = [i \in 1..Len(q) |-> i] /\ Len(q) <= sent[In(s)]
  /\ mode = "copy" /\ ret = "EOF" =>
       peer["in"] # "open" /\ Len(Data(tx["out"])) = sent["in"]

\* When both are TCP connections, ProxyTo returns once both peers have finished,
\* and has closed both.
SplicedReturns ==
  (mode = "splice" /\ \A x \in Sides : peer[x] # "open")
    ~> (ret # "none" /\ \A x \in Sides : conn[x] = "closed")

\* ProxyTo is "Blocking, will wait for both sides to FIN or RST", and no longer.
ProxyToReturns ==
  (mode # "copy" /\ \A x \in Sides : peer[x] # "open") ~> (ret # "none")
=============================================================================
