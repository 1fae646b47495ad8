------------------------------- MODULE Quiche -------------------------------
(***************************************************************************)
(* The quiche adapter (pkg/ext/cfquiche).  The server is one goroutine:    *)
(* read a packet, give it to its connection or to the handshake with       *)
(* retry tokens, let every connection send one packet, drop the closed     *)
(* ones.  The client has two goroutines, whose closures share one variable *)
(* err.  The quiche library is external: a connection is known by what its *)
(* calls return.                                                           *)
(*                                                                         *)
(* The network may lose, repeat and delay packets: a packet that was sent  *)
(* stays in net and may be read any number of times, also never.           *)
(***************************************************************************)
EXTENDS Integers, FiniteSets, Functions

CONSTANTS
  Addrs,    \* addresses of clients; each makes one connection
  Scids,    \* connection ids, for newConnID
  MaxAccepts  \* bound on the connections made under one id

ASSUME QuicheAssumption ==
  IsFiniteSet(Scids) /\ MaxAccepts \in Nat /\ "none" \notin Addrs \cup Scids

VARIABLES
  side,      \* which of "server" and "client" runs; fixed
  net,       \* the packets that were sent to the server
  retried,   \* [Addrs -> the Retry the client follows, or none]: a client takes one
  used,      \* ids that newConnID has returned
  conns,     \* s.conns: a function from connection ids to [addr, st]
  accepted,  \* history: [Scids -> number of connections made under this id]
  freed,     \* history: [Scids -> number of them that were freed]
  loops,     \* the client's goroutines: [{"sender", "receiver"} -> where each is]
  cerr,      \* the captured err: a call failed
  broken,    \* the socket reports errors
  cclosed    \* conn.IsClosed()

srvVars == <<net, retried, used, conns, accepted, freed>>
cliVars == <<loops, cerr, broken, cclosed>>
quicAll == <<side, srvVars, cliVars>>

NoToken == [addr |-> "none", odcid |-> "none"]
Packets == [addr : Addrs, dcid : Addrs \cup Scids, version : BOOLEAN,
            token : {NoToken} \cup [addr : Addrs, odcid : Addrs]]

InitQuiche ==
  /\ side \in {"server", "client"}
  /\ net = {} /\ retried = [a \in Addrs |-> "none"] /\ used = {}
  /\ conns = << >> /\ accepted = [i \in Scids |-> 0] /\ freed = [i \in Scids |-> 0]
  /\ loops = [l \in {"sender", "receiver"} |-> "call"]
  /\ cerr = FALSE /\ broken = FALSE /\ cclosed = FALSE

-----------------------------------------------------------------------------
(***************************************************************************)
(* The server.                                                             *)
(***************************************************************************)

\* A client sends its first packet, to an id of its own choice, in a version that
\* the server knows or not.
Initial(a) ==
  /\ retried[a] = "none"
  /\ \E v \in BOOLEAN :
       net' = net \cup {[addr |-> a, dcid |-> a, token |-> NoToken, version |-> v]}
  /\ UNCHANGED <<retried, used, conns, accepted, freed>>

mintToken(p) == [addr |-> p.addr, odcid |-> p.dcid]

\* validateToken: the token was minted for the sender's address.
Validates(p) == p.token.addr = p.addr

\* send: one packet of every connection.  What a connection has left waits for the
\* next packet; a connection may be closed by what it sends.
Sent(tbl, dying) == [i \in DOMAIN tbl |-> IF i \in dying THEN [tbl[i] EXCEPT !.st = "closed"] ELSE tbl[i]]

\* Mutant: a closed connection is deleted, and freed only if it was established.
closeConnsLeaks(tbl) ==
  LET gone == {i \in DOMAIN tbl : tbl[i].st = "closed"} IN
  /\ conns' = Restrict(tbl, DOMAIN tbl \ gone)
  /\ UNCHANGED freed

\* close: closed connections leave the table and are freed.
closeConns(tbl) ==
  LET gone == {i \in DOMAIN tbl : tbl[i].st = "closed"} IN
  /\ conns' = Restrict(tbl, DOMAIN tbl \ gone)
  /\ freed' = [i \in Scids |-> IF i \in gone THEN freed[i] + 1 ELSE freed[i]]

\* What follows recv in every round of listen.
Round(tbl) == \E dying \in SUBSET DOMAIN tbl : closeConns(Sent(tbl, dying))

\* negotiate: a version the server does not have.  The client gives up or tries again.
Negotiate(p) ==
  /\ p.dcid \notin DOMAIN conns /\ ~p.version
  /\ Round(conns)
  /\ UNCHANGED <<net, retried, used, accepted>>

\* retry: no token yet.  The client takes the first Retry that reaches it, and
\* answers to the id in it, with the token; a later one is ignored.
Retry(p) ==
  /\ p.dcid \notin DOMAIN conns /\ p.version /\ p.token = NoToken
  /\ \E i \in Scids \ used :
       /\ used' = used \cup {i}
       /\ \/ /\ retried[p.addr] = "none" /\ retried' = [retried EXCEPT ![p.addr] = i]
             /\ net' = net \cup {[p EXCEPT !.dcid = i, !.token = mintToken(p)]}
          \/ UNCHANGED <<retried, net>>
  /\ Round(conns)
  /\ UNCHANGED accepted

\* Recv, on a connection that is in the table: handshakes, fails (which closes it,
\* after one more packet), or has nothing to do.
Received(c) == {c, [c EXCEPT !.st = "established"], [c EXCEPT !.st = "draining"]}

Deliver(p) ==
  /\ p.dcid \in DOMAIN conns
  /\ \E c \in Received(conns[p.dcid]) : Round([conns EXCEPT ![p.dcid] = c])
  /\ UNCHANGED <<net, retried, used, accepted>>

\* Accept, under the id that the Retry gave and the packet carries.
Accept(p) ==
  /\ p.dcid \notin DOMAIN conns /\ p.version /\ p.token # NoToken /\ Validates(p)
  /\ accepted[p.dcid] < MaxAccepts
  /\ accepted' = [accepted EXCEPT ![p.dcid] = @ + 1]
  /\ \E c \in Received([addr |-> p.addr, st |-> "handshake"]) :
       Round([k \in DOMAIN conns \cup {p.dcid} |-> IF k = p.dcid THEN c ELSE conns[k]])
  /\ UNCHANGED <<net, retried, used>>

ServerStep == \/ \E a \in Addrs : Initial(a)
              \/ \E p \in net : Negotiate(p) \/ Retry(p) \/ Deliver(p) \/ Accept(p)

-----------------------------------------------------------------------------
(***************************************************************************)
(* The client's goroutines, after the handshake.  "err = c.send()" and the *)
(* test of err are two steps, and the other goroutine may assign between.  *)
(***************************************************************************)

\* The call returns and its result is assigned.  recv returns nil also after a
\* timeout, where it calls OnTimeout; send writes only if there is a packet.
Call(l) ==
  /\ loops[l] \in {"call", "resend"}
  /\ \E fails \in BOOLEAN : (fails => broken) /\ cerr' = fails
  /\ loops' = [loops EXCEPT ![l] = IF @ = "call" THEN "test" ELSE "retest"]
  /\ UNCHANGED <<broken, cclosed>>

\* Mutant: the test of IsClosed is left out.
TestOpen(l) ==
  /\ loops[l] = "test"
  /\ loops' = [loops EXCEPT ![l] = IF cerr THEN "ended" ELSE IF l = "sender" THEN "call" ELSE "resend"]
  /\ UNCHANGED <<cerr, broken, cclosed>>

\* if err != nil return; if IsClosed return.
Test(l) ==
  /\ loops[l] = "test"
  /\ loops' = [loops EXCEPT ![l] = IF cerr \/ cclosed THEN "ended"
                                   ELSE IF l = "sender" THEN "call" ELSE "resend"]
  /\ UNCHANGED <<cerr, broken, cclosed>>

Retest ==
  /\ loops["receiver"] = "retest"
  /\ loops' = [loops EXCEPT !["receiver"] = IF cerr THEN "ended" ELSE "call"]
  /\ UNCHANGED <<cerr, broken, cclosed>>

Loop(l) == Call(l) \/ Test(l) \/ (l = "receiver" /\ Retest)

\* The peer closes, or the idle timer of a connection that hears nothing fires.
ConnCloses == ~cclosed /\ cclosed' = TRUE /\ UNCHANGED <<loops, cerr, broken>>
SocketBreaks == ~broken /\ broken' = TRUE /\ UNCHANGED <<loops, cerr, cclosed>>

ClientStep == ConnCloses \/ SocketBreaks \/ \E l \in {"sender", "receiver"} : Loop(l)

NextQuiche ==
  /\ \/ side = "server" /\ ServerStep /\ UNCHANGED cliVars
     \/ side = "client" /\ ClientStep /\ UNCHANGED srvVars
  /\ UNCHANGED side

SpecQuiche == InitQuiche /\ [][NextQuiche]_quicAll

-----------------------------------------------------------------------------
QuicheTypeOK ==
  /\ net \subseteq Packets
  /\ DOMAIN conns \subseteq Scids
  /\ \A i \in DOMAIN conns : conns[i].addr \in Addrs /\ conns[i].st \in {"handshake", "established", "draining"}
  /\ \A l \in DOMAIN loops : loops[l] \in {"call", "test", "resend", "retest", "ended"}

\* server.recv and server.close, under lost, repeated and late packets: an address
\* has a connection only after it has returned a token, and never two at a time;
\* every connection that was made is in the table or was freed, once.
ConnsAccounted ==
  /\ \A i \in DOMAIN conns : retried[conns[i].addr] = i
  /\ \A i \in Scids : accepted[i] = freed[i] + (IF i \in DOMAIN conns THEN 1 ELSE 0)

\* The goroutines of connect: when the connection is closed both end, though each
\* may overwrite the error that the other one is about to test.
ClosedEndsLoops == cclosed ~> (\A l \in DOMAIN loops : loops[l] = "ended")
=============================================================================
