------------------------------- MODULE Tunnel -------------------------------
(***************************************************************************)
(* The handlers that accept a stream, find out where it wants to go, dial  *)
(* and run Proxy: SNIHandler.HandleConn (pkg/sni), HttpProxy.handleConnect *)
(* (pkg/http_proxy) and Quic.handleRaw (pkg/quic), with the InOutStream    *)
(* that the last two wrap their client in (nio2/stream_in_out.go) and the  *)
(* HTTP/2 client stream a dial may return (nio2/stream_h2_client.go).      *)
(*                                                                         *)
(* A raw QUIC stream starts with a header: TAG and LEN, one byte here, and *)
(* LEN bytes of text that name the destination.                            *)
(***************************************************************************)
EXTENDS Proxy

CONSTANTS
  MaxHeader,  \* the longest text ReadHeader accepts (32K in the code)
  HLens       \* lengths the first bytes of a QUIC stream may announce

ASSUME TunnelAssumption == MaxHeader \in Nat /\ HLens \subseteq Nat

VARIABLES
  eager,    \* a CONNECT client sends before it has the answer; fixed
  framed,   \* a QUIC client starts with a header, as ReadHeader expects, and not
            \* with its data, as QuicMUX.DialContext does; fixed
  hlen,     \* what the first bytes of a QUIC client say of the length; fixed
  hpc,      \* where the handler is
  skip,     \* bytes of the client consumed before Proxy was called
  resp      \* the answer the client was sent before Proxy was called

fixedVars == <<kindVars, eager, framed, hlen>>
hVars     == <<hpc, skip, resp>>
tunVars   == <<sysVars, hVars>>
allVars   == <<fixedVars, tunVars>>

IsConnect == kind \in {"connect", "h2"}

TunnelInit ==
  /\ Init
  /\ eager \in BOOLEAN /\ (eager => kind = "connect")
  /\ framed \in BOOLEAN /\ (~framed => kind = "quic")
  /\ hlen \in HLens \cup {0} /\ (kind # "quic" => hlen = 0)
  /\ hpc = CASE IsConnect -> "hijack" [] kind = "quic" -> "prefix" [] kind = "sni" -> "sniff"
             [] OTHER -> "relay"
  /\ skip = 0 /\ resp = "none"

-----------------------------------------------------------------------------
(***************************************************************************)
(* SNI: the ClientHello is looked at and stays in the BufferReader, which  *)
(* Proxy reads.  Every return closes the connection.                       *)
(***************************************************************************)

Sniff ==
  /\ hpc = "sniff" /\ rx["in"] # <<>>
  /\ \/ /\ IsByte(Head(rx["in"]))
        /\ hpc' = "dial" /\ UNCHANGED <<conn, tx>>
     \/ hpc' = "failed" /\ CloseAll({"in"})
  /\ UNCHANGED <<peer, sent, rx, copyVars, got, ret, skip, resp>>

-----------------------------------------------------------------------------
(***************************************************************************)
(* CONNECT.  Hijack also returns a reader with what the server has read of *)
(* the client beyond the request; nobody reads it.  If it fails the server *)
(* answers 503 and closes the connection.                                  *)
(***************************************************************************)

Hijack ==
  /\ hpc = "hijack"
  /\ \E k \in 0..Len(Data(rx["in"])) :
       /\ rx' = [rx EXCEPT !["in"] = SubSeq(@, k + 1, Len(@))]
       /\ skip' = k
  /\ hpc' = "dial"
  /\ UNCHANGED <<peer, sent, tx, conn, copyVars, got, ret, resp>>

HijackFails ==
  /\ hpc = "hijack" /\ "call" \in faults
  /\ resp' = "503" /\ hpc' = "failed"
  /\ CloseAll({"in"})
  /\ UNCHANGED <<peer, sent, rx, copyVars, got, ret, skip>>

-----------------------------------------------------------------------------
(***************************************************************************)
(* QUIC.  ReadHeader ignores the error of its first read, so a stream that *)
(* ends there has a header of length 0 and names no destination.           *)
(***************************************************************************)

HeaderEnds ==
  \/ rx["in"] # <<>> /\ ~IsByte(Head(rx["in"]))
  \/ rx["in"] = <<>> /\ "quic" \in faults

ReadPrefix ==
  /\ hpc = "prefix"
  /\ \/ /\ rx["in"] # <<>> /\ IsByte(Head(rx["in"]))
        /\ rx' = [rx EXCEPT !["in"] = Tail(@)] /\ skip' = 1
        /\ hpc' = CASE hlen > MaxHeader -> "failed" [] hlen = 0 -> "dial" [] OTHER -> "text"
     \/ HeaderEnds /\ hpc' = "dial" /\ UNCHANGED <<rx, skip>>
  /\ UNCHANGED <<peer, sent, tx, conn, copyVars, got, ret, resp>>

ReadText ==
  /\ hpc = "text"
  /\ \/ /\ rx["in"] # <<>> /\ IsByte(Head(rx["in"]))
        /\ rx' = [rx EXCEPT !["in"] = Tail(@)] /\ skip' = skip + 1
        /\ hpc' = IF skip' = 1 + hlen THEN "dial" ELSE "text"
     \/ HeaderEnds /\ hpc' = "failed" /\ UNCHANGED <<rx, skip>>
  /\ UNCHANGED <<peer, sent, tx, conn, copyVars, got, ret, resp>>

-----------------------------------------------------------------------------
(***************************************************************************)
(* The dial, and what each handler tells its client.                       *)
(***************************************************************************)

\* The header was complete and its text names a destination.
HasDest == kind = "quic" => framed /\ hlen > 0 /\ skip = 1 + hlen

Dial ==
  /\ hpc = "dial" /\ kind # "h2" /\ HasDest
  /\ conn' = [conn EXCEPT !["out"] = "open"]
  /\ hpc' = IF kind = "sni" THEN "relay" ELSE "answer"
  /\ UNCHANGED <<peer, sent, rx, tx, copyVars, got, ret, skip, resp>>

\* H2Dialer: a POST whose body is a pipe, and whose response is the stream, whatever
\* its status: a tunnel that refuses is a destination that says nothing and ends.
H2Dial ==
  /\ hpc = "dial" /\ kind = "h2"
  /\ conn' = [conn EXCEPT !["out"] = "open"]
  /\ \/ UNCHANGED <<peer, rx>>
     \/ /\ "call" \in faults
        /\ peer' = [peer EXCEPT !["out"] = "fin"] /\ rx' = [rx EXCEPT !["out"] = <<FIN>>]
  /\ hpc' = "answer"
  /\ UNCHANGED <<sent, tx, copyVars, got, ret, skip, resp>>

\* CopyTo: there is no token for the destination, or no response; the client is left
\* as by a dial that fails.
CopyToFails ==
  /\ hpc = "dial" /\ kind = "h2" /\ "call" \in faults
  /\ hpc' = "failed"
  /\ UNCHANGED <<sysVars, skip, resp>>

\* CONNECT writes its 503 to the writer it has hijacked, which discards it, and
\* leaves the connection open; QUIC sends the header of a successful dial and
\* leaves the stream open; SNI closes.
DialFails ==
  /\ hpc = "dial" /\ kind # "h2" /\ (~HasDest \/ "call" \in faults)
  /\ hpc' = "failed"
  /\ IF kind = "sni" THEN CloseAll({"in"}) ELSE UNCHANGED <<conn, tx>>
  /\ resp' = IF kind = "quic" THEN "200" ELSE resp
  /\ UNCHANGED <<peer, sent, rx, copyVars, got, ret, skip>>

\* The answer, whose error is ignored.
Answer ==
  /\ hpc = "answer"
  /\ resp' = IF peer["in"] = "reset" THEN "none" ELSE "200"
  /\ hpc' = "relay"
  /\ UNCHANGED <<sysVars, skip>>

-----------------------------------------------------------------------------
\* How many bytes of a well-behaved client are for the handler.
Lead == CASE kind = "quic" -> 1 + hlen [] eager -> skip [] OTHER -> 0

\* A client speaks when it has something to say, and unless it is eager not
\* before its CONNECT is answered; a destination not before it was dialled.
MaySend(x) ==
  IF x = "in" THEN /\ sent["in"] < MaxBytes + (IF kind = "quic" THEN 1 + hlen ELSE 0)
                   /\ IsConnect /\ ~eager => resp = "200"
              ELSE sent["out"] < MaxBytes

Peers ==
  \E x \in Sides :
    /\ conn[x] # "none"
    /\ (MaySend(x) /\ PeerSend(x)) \/ PeerFin(x) \/ PeerReset(x)

Handler ==
  \/ Sniff \/ Hijack \/ HijackFails \/ ReadPrefix \/ ReadText
  \/ Dial \/ H2Dial \/ DialFails \/ CopyToFails \/ Answer

TunnelNext ==
  /\ \/ Peers /\ UNCHANGED hVars
     \/ Handler
     \/ hpc = "relay" /\ Relay /\ UNCHANGED hVars
  /\ UNCHANGED fixedVars

TunnelSpec == TunnelInit /\ [][TunnelNext]_allVars

Relaying(A) == hpc = "relay" /\ A /\ UNCHANGED hVars

\* The goroutines run when they can, and a dial returns; peers and timeouts owe
\* nothing.
FairSpec ==
  /\ TunnelSpec
  /\ WF_tunVars(Handler)
  /\ \A s \in Copiers : WF_tunVars(Relaying(Copy(s))) /\ WF_tunVars(Relaying(Collect(s)))
  /\ WF_tunVars(Relaying(Finish))

-----------------------------------------------------------------------------
\* Type correctness of the handler, of the sockets and of the two copiers.
TypeOK ==
  /\ ProxyTypeOK
  /\ eager \in BOOLEAN /\ framed \in BOOLEAN /\ hlen \in Nat
  /\ hpc \in {"sniff", "hijack", "prefix", "text", "dial", "answer", "relay", "failed"}
  /\ skip \in Nat /\ resp \in {"none", "200", "503"}

\* When Proxy returns nil both streams were relayed to their end (a QUIC idle
\* timeout, which Copy takes for the end, excepted).
NilMeansComplete ==
  ret = "nil" /\ "quic" \notin faults =>
    /\ \A x \in Sides : peer[x] # "open"
    /\ Len(Data(tx["out"])) = sent["in"] - Lead
    /\ Len(Data(tx["in"])) = sent["out"]

Ended(x) == Carries(tx[x], FIN) \/ Carries(tx[x], RST)

\* A peer's half-close reaches the other peer, whether or not that peer ever
\* sends or closes anything itself.
FINPropagates ==
  \A s \in Copiers : (hpc = "relay" /\ peer[In(s)] = "fin") ~> Ended(Out(s))

\* The same on the buffered path.
BufferedFINPropagates ==
  \A s \in Copiers : (hpc = "relay" /\ peer[In(s)] = "fin" /\ ~Splices(s)) ~> Ended(Out(s))

\* A failure of either direction ends Proxy with both connections closed, even
\* when the other copier is blocked in Read on a silent peer.  A stream whose Close
\* does not disturb reads must be ended by its own peer first.
ErrorTerminates ==
  (/\ \E s \in Copiers : err[s] # "nil"
   /\ \A x \in Sides : SendOnly(x) => peer[x] # "open")
    ~> (ret = "err" /\ \A x \in Sides : conn[x] = Shut(x))

\* When both peers have finished, Proxy returns.
FINsTerminate ==
  (hpc = "relay" /\ \A x \in Sides : peer[x] # "open") ~> (ret # "none")
=============================================================================
