---------------------------- MODULE EdgesProofs ----------------------------
(***************************************************************************)
(* Proofs about small components that MCEdges checks side by side: the     *)
(* connections of the quiche server, the headers and the response of a     *)
(* plain HTTP request, a crawl, and the local side of the message mux, for *)
(* any addresses, connection ids, headers, nodes, topics and handlers, and *)
(* any number of messages at once.                                         *)
(***************************************************************************)
EXTENDS Quiche, Crawl, HttpForward, Mux, TLAPS

\* Time for each leaf of the proofs.
USE SMTT(30), ZenonT(20)

-----------------------------------------------------------------------------
(***************************************************************************)
(* Quiche: the connections of the server.                                  *)
(***************************************************************************)

ConnStates == {"handshake", "established", "draining"}
Table(tbl) == /\ DOMAIN tbl \subseteq Scids
              /\ tbl \in [DOMAIN tbl -> [addr : Addrs, st : ConnStates]]

\* A packet carries the id that the client chose, or, with a token, the id of the one
\* Retry that the client follows.
PacketsMeant ==
  \A p \in net : /\ p.token = NoToken => p.dcid = p.addr
                 /\ p.token # NoToken => p.dcid \in Scids /\ retried[p.addr] = p.dcid

QuicheInv ==
  /\ side \in {"server", "client"}
  /\ net \subseteq Packets
  /\ retried \in [Addrs -> Scids \cup {"none"}]
  /\ used \subseteq Scids
  /\ Table(conns)
  /\ accepted \in [Scids -> Nat] /\ freed \in [Scids -> Nat]
  /\ loops \in [{"sender", "receiver"} -> {"call", "test", "resend", "retest", "ended"}]
  /\ PacketsMeant
  /\ ConnsAccounted

One(i, tbl) == IF i \in DOMAIN tbl THEN 1 ELSE 0

\* send and close at the end of a round: connections leave the table, each freed once.
LEMMA RoundFrees ==
  ASSUME NEW tbl, Table(tbl), freed \in [Scids -> Nat], Round(tbl)
  PROVE  /\ Table(conns')
         /\ \A i \in DOMAIN conns' : i \in DOMAIN tbl /\ conns'[i] = tbl[i]
         /\ freed' \in [Scids -> Nat]
         /\ \A i \in Scids : freed'[i] + One(i, conns') = freed[i] + One(i, tbl)
<1>1. PICK dying \in SUBSET DOMAIN tbl : closeConns(Sent(tbl, dying))
  BY DEF Round
<1> DEFINE out == Sent(tbl, dying)
<1>2. /\ DOMAIN out = DOMAIN tbl
      /\ \A i \in DOMAIN tbl : out[i].st = "closed" <=> i \in dying
      /\ \A i \in DOMAIN tbl \ dying : out[i] = tbl[i]
  BY DEF Sent, Table, ConnStates
<1>3. {i \in DOMAIN out : out[i].st = "closed"} = dying
  BY <1>2
<1>4. conns' = [i \in DOMAIN tbl \ dying |-> out[i]]
  BY <1>1, <1>2, <1>3 DEF closeConns, Restrict
<1>5. freed' = [i \in Scids |-> IF i \in dying THEN freed[i] + 1 ELSE freed[i]]
  BY <1>1, <1>3 DEF closeConns
<1>6. DOMAIN conns' = DOMAIN tbl \ dying /\ \A i \in DOMAIN conns' : conns'[i] = tbl[i]
  BY <1>2, <1>4
<1>7. conns' \in [DOMAIN conns' -> [addr : Addrs, st : ConnStates]]
  BY <1>4, <1>6 DEF Table
<1>8. freed' \in [Scids -> Nat]
  BY <1>5
<1>9. ASSUME NEW i \in Scids PROVE freed'[i] + One(i, conns') = freed[i] + One(i, tbl)
  BY <1>5, <1>6 DEF One
<1> QED BY <1>6, <1>7, <1>8, <1>9 DEF Table

\* No connection is made at first.
LEMMA QuicheInit == InitQuiche => QuicheInv
<1> SUFFICES ASSUME InitQuiche PROVE QuicheInv
  OBVIOUS
<1>1. Table(conns) /\ DOMAIN conns = {}
  BY DEF InitQuiche, Table
<1>2. ConnsAccounted
  BY <1>1 DEF InitQuiche, ConnsAccounted
<1> QED BY <1>1, <1>2 DEF InitQuiche, QuicheInv, PacketsMeant

\* The table after a round, if the one before it was in order.
LEMMA RoundAccounts ==
  ASSUME QuicheInv, NEW tbl, Table(tbl), Round(tbl),
         \A i \in DOMAIN tbl : retried[tbl[i].addr] = i,
         \A i \in DOMAIN tbl : retried'[tbl[i].addr] = i,
         accepted' \in [Scids -> Nat],
         \A i \in Scids : accepted'[i] = freed[i] + One(i, tbl)
  PROVE  Table(conns') /\ freed' \in [Scids -> Nat] /\ ConnsAccounted'
<1>0. freed \in [Scids -> Nat]
  BY DEF QuicheInv
<1>1. /\ Table(conns')
      /\ \A i \in DOMAIN conns' : i \in DOMAIN tbl /\ conns'[i] = tbl[i]
      /\ freed' \in [Scids -> Nat]
      /\ \A i \in Scids : freed'[i] + One(i, conns') = freed[i] + One(i, tbl)
  BY <1>0, RoundFrees
<1>2. \A i \in DOMAIN conns' : retried'[conns'[i].addr] = i
  BY <1>1
<1>3. \A i \in Scids : accepted'[i] = freed'[i] + One(i, conns')
  BY <1>1
<1> QED BY <1>1, <1>2, <1>3 DEF ConnsAccounted, One

\* The server: what it makes it files or frees.
LEMMA QuicheServer ==
  ASSUME QuicheInv, ServerStep, UNCHANGED <<side, cliVars>>
  PROVE  QuicheInv'
<1>0. /\ net \subseteq Packets /\ retried \in [Addrs -> Scids \cup {"none"}] /\ used \subseteq Scids
      /\ Table(conns) /\ accepted \in [Scids -> Nat] /\ freed \in [Scids -> Nat]
      /\ PacketsMeant
      /\ \A i \in DOMAIN conns : retried[conns[i].addr] = i
      /\ \A i \in Scids : accepted[i] = freed[i] + One(i, conns)
  BY DEF QuicheInv, ConnsAccounted, One
<1>1. side' \in {"server", "client"} /\ loops' \in [{"sender", "receiver"} -> {"call", "test", "resend", "retest", "ended"}]
  BY DEF QuicheInv, cliVars
<1>2. ASSUME NEW a \in Addrs, Initial(a) PROVE QuicheInv'
  <2>1. PICK v \in BOOLEAN : net' = net \cup {[addr |-> a, dcid |-> a, token |-> NoToken, version |-> v]}
    BY <1>2 DEF Initial
  <2>2. [addr |-> a, dcid |-> a, token |-> NoToken, version |-> v] \in Packets
    BY DEF Packets
  <2>3. net' \subseteq Packets
    BY <1>0, <2>1, <2>2
  <2>4. UNCHANGED <<retried, used, conns, accepted, freed>>
    BY <1>2 DEF Initial
  <2>5. PacketsMeant'
    BY <1>0, <2>1, <2>4 DEF PacketsMeant
  <2>6. ConnsAccounted' /\ Table(conns')
    BY <1>0, <2>4 DEF ConnsAccounted, One, Table
  <2> QED BY <1>0, <1>1, <2>3, <2>4, <2>5, <2>6 DEF QuicheInv
<1>3. ASSUME NEW p \in net, Negotiate(p) PROVE QuicheInv'
  <2>1. Round(conns) /\ UNCHANGED <<net, retried, used, accepted>>
    BY <1>3 DEF Negotiate
  <2>2. Table(conns') /\ freed' \in [Scids -> Nat] /\ ConnsAccounted'
    BY <1>0, <2>1, RoundAccounts
  <2>3. PacketsMeant'
    BY <1>0, <2>1 DEF PacketsMeant
  <2> QED BY <1>0, <1>1, <2>1, <2>2, <2>3 DEF QuicheInv
<1>4. ASSUME NEW p \in net, Retry(p) PROVE QuicheInv'
  <2>0. p \in Packets /\ p.addr \in Addrs /\ p.addr # "none" /\ p.dcid \in Addrs \cup Scids
    BY <1>0, QuicheAssumption DEF Packets
  <2>1. PICK i \in Scids \ used :
          /\ used' = used \cup {i}
          /\ \/ /\ retried[p.addr] = "none" /\ retried' = [retried EXCEPT ![p.addr] = i]
                /\ net' = net \cup {[p EXCEPT !.dcid = i, !.token = mintToken(p)]}
             \/ UNCHANGED <<retried, net>>
    BY <1>4, Zenon DEF Retry
  <2>2. Round(conns) /\ UNCHANGED accepted
    BY <1>4 DEF Retry
  <2>3. \A k \in DOMAIN conns : retried'[conns[k].addr] = k
    <3> SUFFICES ASSUME NEW k \in DOMAIN conns PROVE retried'[conns[k].addr] = k
      OBVIOUS
    <3>1. conns[k].addr \in Addrs /\ retried[conns[k].addr] = k /\ k \in Scids /\ k # "none"
      BY <1>0, QuicheAssumption DEF Table
    <3> QED BY <1>0, <2>0, <2>1, <3>1
  <2>4. Table(conns') /\ freed' \in [Scids -> Nat] /\ ConnsAccounted'
    BY <1>0, <2>2, <2>3, RoundAccounts
  <2>5. net' \subseteq Packets /\ retried' \in [Addrs -> Scids \cup {"none"}] /\ PacketsMeant'
    <3>1. CASE UNCHANGED <<retried, net>>
      BY <1>0, <3>1 DEF PacketsMeant
    <3>2. CASE /\ retried[p.addr] = "none" /\ retried' = [retried EXCEPT ![p.addr] = i]
               /\ net' = net \cup {[p EXCEPT !.dcid = i, !.token = mintToken(p)]}
      <4> DEFINE q == [p EXCEPT !.dcid = i, !.token = mintToken(p)]
      <4>0. p.token = NoToken /\ p.dcid = p.addr
        BY <1>0, <1>4 DEF Retry, PacketsMeant
      <4>1. q.addr = p.addr /\ q.dcid = i
        BY <2>0 DEF Packets
      <4>4. q \in Packets /\ q.token # NoToken
        <5>1. mintToken(p) \in [addr : Addrs, odcid : Addrs] /\ mintToken(p) # NoToken
          BY <2>0, <4>0 DEF mintToken, NoToken
        <5> QED BY <2>0, <2>1, <5>1, Zenon DEF Packets
      <4>2. \A r \in net : r.token # NoToken => r.addr # p.addr
        <5> SUFFICES ASSUME NEW r \in net, r.token # NoToken, r.addr = p.addr PROVE FALSE
          OBVIOUS
        <5>1. r.dcid \in Scids /\ retried[r.addr] = r.dcid
          BY <1>0 DEF PacketsMeant
        <5> QED BY <3>2, <5>1, QuicheAssumption
      <4>3. PacketsMeant'
        <5> SUFFICES ASSUME NEW r \in net'
                     PROVE  /\ r.token = NoToken => r.dcid = r.addr
                            /\ r.token # NoToken => r.dcid \in Scids /\ retried'[r.addr] = r.dcid
          BY DEF PacketsMeant
        <5>1. CASE r = q
          BY <1>0, <2>0, <2>1, <3>2, <4>1, <4>4, <5>1
        <5>2. CASE r \in net
          <6>1. r.addr \in Addrs
            BY <1>0, <5>2 DEF Packets
          <6> QED BY <1>0, <3>2, <4>2, <5>2, <6>1 DEF PacketsMeant
        <5> QED BY <3>2, <5>1, <5>2
      <4> QED BY <1>0, <2>0, <2>1, <3>2, <4>3, <4>4
    <3> QED BY <2>1, <3>1, <3>2
  <2>6. used' \subseteq Scids
    BY <1>0, <2>1
  <2> QED BY <1>0, <1>1, <2>2, <2>4, <2>5, <2>6 DEF QuicheInv
<1>5. ASSUME NEW p \in net, Deliver(p) PROVE QuicheInv'
  <2>1. UNCHANGED <<net, retried, used, accepted>> /\ p.dcid \in DOMAIN conns
    BY <1>5 DEF Deliver
  <2>2. PICK c \in Received(conns[p.dcid]) : Round([conns EXCEPT ![p.dcid] = c])
    BY <1>5 DEF Deliver
  <2> DEFINE tbl == [conns EXCEPT ![p.dcid] = c]
  <2>3. conns[p.dcid] \in [addr : Addrs, st : ConnStates]
    BY <1>0, <2>1 DEF Table
  <2>4. c \in [addr : Addrs, st : ConnStates] /\ c.addr = conns[p.dcid].addr
    BY <2>3 DEF Received, ConnStates
  <2>5. Table(tbl) /\ DOMAIN tbl = DOMAIN conns
    BY <1>0, <2>1, <2>4 DEF Table
  <2>6. \A i \in DOMAIN tbl : tbl[i].addr = conns[i].addr
    BY <1>0, <2>1, <2>4 DEF Table
  <2>7. \A i \in DOMAIN tbl : retried[tbl[i].addr] = i
    BY <1>0, <2>5, <2>6
  <2>8. \A i \in Scids : One(i, tbl) = One(i, conns)
    BY <2>5 DEF One
  <2> HIDE DEF tbl
  <2>9. Table(conns') /\ freed' \in [Scids -> Nat] /\ ConnsAccounted'
    BY <1>0, <2>1, <2>2, <2>5, <2>7, <2>8, RoundAccounts, Zenon DEF tbl
  <2>10. PacketsMeant'
    BY <1>0, <2>1 DEF PacketsMeant
  <2> QED BY <1>0, <1>1, <2>1, <2>9, <2>10 DEF QuicheInv
<1>6. ASSUME NEW p \in net, Accept(p) PROVE QuicheInv'
  <2>1. /\ UNCHANGED <<net, retried, used>> /\ p.dcid \notin DOMAIN conns
        /\ p.token # NoToken /\ accepted' = [accepted EXCEPT ![p.dcid] = @ + 1]
    BY <1>6 DEF Accept
  <2>2. PICK c \in Received([addr |-> p.addr, st |-> "handshake"]) :
          Round([k \in DOMAIN conns \cup {p.dcid} |-> IF k = p.dcid THEN c ELSE conns[k]])
    BY <1>6 DEF Accept
  <2> DEFINE tbl == [k \in DOMAIN conns \cup {p.dcid} |-> IF k = p.dcid THEN c ELSE conns[k]]
  <2>3. p.addr \in Addrs /\ p.dcid \in Scids /\ retried[p.addr] = p.dcid
    BY <1>0, <2>1 DEF PacketsMeant, Packets
  <2>4. c \in [addr : Addrs, st : ConnStates] /\ c.addr = p.addr
    BY <2>3 DEF Received, ConnStates
  <2>5. Table(tbl) /\ DOMAIN tbl = DOMAIN conns \cup {p.dcid}
    BY <1>0, <2>3, <2>4 DEF Table
  <2>6. \A i \in DOMAIN tbl : retried[tbl[i].addr] = i
    BY <1>0, <2>3, <2>4, <2>5
  <2>7. accepted' \in [Scids -> Nat]
    BY <1>0, <2>1, <2>3
  <2>8. ASSUME NEW i \in Scids PROVE accepted'[i] = freed[i] + One(i, tbl)
    <3>1. accepted[i] = freed[i] + One(i, conns) /\ freed[i] \in Nat /\ accepted[i] \in Nat
      BY <1>0
    <3>2. CASE i = p.dcid
      BY <1>0, <2>1, <2>5, <3>1, <3>2 DEF One
    <3>3. CASE i # p.dcid
      BY <1>0, <2>1, <2>5, <3>1, <3>3 DEF One
    <3> QED BY <3>2, <3>3
  <2> HIDE DEF tbl
  <2>9. Table(conns') /\ freed' \in [Scids -> Nat] /\ ConnsAccounted'
    BY <1>0, <2>1, <2>2, <2>5, <2>6, <2>7, <2>8, RoundAccounts, Zenon DEF tbl
  <2>10. PacketsMeant'
    BY <1>0, <2>1 DEF PacketsMeant
  <2> QED BY <1>0, <1>1, <2>1, <2>7, <2>9, <2>10 DEF QuicheInv
<1> QED BY <1>2, <1>3, <1>4, <1>5, <1>6 DEF ServerStep

\* A step that leaves the QUIC layer alone.
LEMMA QuicheSame == QuicheInv /\ UNCHANGED quicAll => QuicheInv'
  BY DEF QuicheInv, quicAll, srvVars, cliVars, Table, PacketsMeant, ConnsAccounted

\* Every step of the QUIC layer.
LEMMA QuicheStep == QuicheInv /\ NextQuiche => QuicheInv'
<1> SUFFICES ASSUME QuicheInv, NextQuiche PROVE QuicheInv'
  OBVIOUS
<1>1. CASE ServerStep /\ UNCHANGED <<side, cliVars>>
  BY <1>1, QuicheServer
<1>2. CASE ClientStep /\ UNCHANGED <<side, srvVars>>
  <2>1. loops' \in [{"sender", "receiver"} -> {"call", "test", "resend", "retest", "ended"}]
    BY <1>2 DEF QuicheInv, ClientStep, ConnCloses, SocketBreaks, Loop, Call, Test, Retest
  <2> QED BY <1>2, <2>1 DEF QuicheInv, srvVars, Table, PacketsMeant, ConnsAccounted
<1> QED BY <1>1, <1>2 DEF NextQuiche

\* server.recv and server.close, however packets are lost, repeated or delayed: an address has
\* a connection only after it has returned a token, and never two at a time; every connection
\* that was made is in the table or was freed, once.
THEOREM ConnsStayAccounted == SpecQuiche => []ConnsAccounted
<1>1. QuicheInv /\ [NextQuiche]_quicAll => QuicheInv'
  BY QuicheStep, QuicheSame
<1>2. QuicheInv => ConnsAccounted
  BY DEF QuicheInv
<1> QED BY <1>1, <1>2, QuicheInit, PTL DEF SpecQuiche

-----------------------------------------------------------------------------
(***************************************************************************)
(* HttpForward: the response.                                              *)
(***************************************************************************)

ForwardTypes ==
  /\ known \in BOOLEAN
  /\ fpc \in {"discover", "forward", "direct", "body", "return", "done"}
  /\ body \in [len : Nat, read : Nat]
  /\ client \in [status : {"none", "200", "500", "upstream"}, length : BOOLEAN,
                 got : Nat, end : {"none", "clean", "cut"}]

\* What the client has is what was read of the response; how it ends is known when the
\* handler has returned.
ResponseInv ==
  /\ ForwardTypes
  /\ body.read <= body.len
  /\ fpc \in {"discover", "forward", "direct"} =>
       client.got = 0 /\ body.read = 0 /\ client.status = "none"
  /\ fpc \in {"body", "return"} => client.status = "upstream"
  /\ client.status = "upstream" => client.got = body.read /\ client.length = known
  /\ client.end # "none" => fpc = "done"
  /\ CleanMeansComplete

\* No response at first.
LEMMA ResponseInit == InitForward => ResponseInv
  BY DEF InitForward, ResponseInv, ForwardTypes, Empty, CleanMeansComplete

\* A step that leaves the response alone.
LEMMA ResponseSame == ResponseInv /\ UNCHANGED fwdAll => ResponseInv'
  BY DEF ResponseInv, ForwardTypes, CleanMeansComplete, fwdAll, fwdVars

\* Every step of the forwarder.
LEMMA ResponseStep == ResponseInv /\ NextForward => ResponseInv'
<1> SUFFICES ASSUME ResponseInv, NextForward PROVE ResponseInv'
  OBVIOUS
<1> USE DEF ResponseInv, ForwardTypes, CleanMeansComplete
<1>0. known' = known
  BY DEF NextForward
<1>1. CASE Discover
  <2>1. fpc = "discover" /\ fpc' \in {"forward", "direct", "done"} /\ body' = body
    BY <1>1 DEF Discover
  <2>2. CASE fpc' \in {"forward", "direct"}
    <3>1. client' = client
      BY <1>1, <2>2 DEF Discover
    <3> QED BY <1>0, <2>1, <2>2, <3>1
  <2>3. CASE fpc' = "done"
    <3>1. client' = [status |-> "200", length |-> FALSE, got |-> 0, end |-> "clean"]
      BY <1>1, <2>3 DEF Discover, Nothing, Empty
    <3> QED BY <1>0, <2>1, <2>3, <3>1
  <2> QED BY <2>1, <2>2, <2>3
<1>2. CASE RoundTripFails
  BY <1>0, <1>2 DEF RoundTripFails, Nothing, Empty
<1>3. CASE SendBackResponse
  <2>1. PICK n \in 0..MaxBody : body' = [body EXCEPT !.len = n]
    BY <1>3 DEF SendBackResponse
  <2>2. n \in Nat
    BY HttpForwardAssumption
  <2>3. fpc \in {"forward", "direct"} /\ fpc' = "body"
        /\ client' = [client EXCEPT !.status = "upstream", !.length = known]
    BY <1>3 DEF SendBackResponse
  <2>4. body' \in [len : Nat, read : Nat] /\ body'.read = body.read /\ body'.len = n
    BY <2>1, <2>2
  <2>5. /\ client' \in [status : {"none", "200", "500", "upstream"}, length : BOOLEAN,
                        got : Nat, end : {"none", "clean", "cut"}]
        /\ client'.status = "upstream" /\ client'.length = known
        /\ client'.got = client.got /\ client'.end = client.end
    BY <2>3, Zenon
  <2>6. body.read = 0 /\ client.got = 0 /\ client.end = "none"
    BY <2>3
  <2>7. body'.read <= body'.len
    BY <2>2, <2>4, <2>6
  <2> QED BY <1>0, <2>3, <2>4, <2>5, <2>6, <2>7
<1>4. CASE CopyBody
  <2>1. /\ body'.len = body.len /\ body'.read = body.read + 1 /\ body' \in [len : Nat, read : Nat]
        /\ client'.got = client.got + 1 /\ client'.status = client.status
        /\ client'.length = client.length /\ client'.end = client.end
        /\ client' \in [status : {"none", "200", "500", "upstream"}, length : BOOLEAN,
                        got : Nat, end : {"none", "clean", "cut"}]
    BY <1>4 DEF CopyBody
  <2>2. fpc' = fpc /\ fpc = "body" /\ body.read < body.len /\ client.end = "none"
    BY <1>4 DEF CopyBody
  <2>3. body'.read <= body'.len
    BY <2>1, <2>2
  <2> QED BY <1>0, <2>1, <2>2, <2>3
<1>5. CASE CopyFails \/ CopyEnds
  BY <1>0, <1>5 DEF CopyFails, CopyEnds
<1>6. CASE HandlerReturns
  <2> DEFINE e == IF client.length /\ client.got < body.len THEN "cut" ELSE "clean"
  <2>1. client' = [client EXCEPT !.end = e] /\ fpc' = "done" /\ fpc = "return" /\ body' = body
    BY <1>6 DEF HandlerReturns
  <2>2. e \in {"cut", "clean"}
    OBVIOUS
  <2>3. client.status = "upstream" /\ client.length = known /\ client.got = body.read
        /\ body.read \in Nat /\ body.len \in Nat /\ body.read <= body.len
    BY <2>1
  <2>4. e = "clean" /\ known => client.got = body.len
    BY <2>3
  <2> HIDE DEF e
  <2>5. /\ client' \in [status : {"none", "200", "500", "upstream"}, length : BOOLEAN,
                        got : Nat, end : {"none", "clean", "cut"}]
        /\ client'.status = client.status /\ client'.length = client.length
        /\ client'.got = client.got /\ client'.end = e
    BY <2>1, <2>2
  <2> QED BY <1>0, <2>1, <2>3, <2>4, <2>5
<1> QED BY <1>1, <1>2, <1>3, <1>4, <1>5, <1>6 DEF NextForward

\* A client that sees a response with a Content-Length end cleanly has all of it, whatever
\* its length, though the error of the copy is only logged.
THEOREM CleanIsComplete == SpecForward => []CleanMeansComplete
<1>1. ResponseInv /\ [NextForward]_fwdAll => ResponseInv'
  BY ResponseStep, ResponseSame
<1>2. ResponseInv => CleanMeansComplete
  BY DEF ResponseInv
<1> QED BY <1>1, <1>2, ResponseInit, PTL DEF SpecForward

-----------------------------------------------------------------------------
(***************************************************************************)
(* Crawl.                                                                  *)
(***************************************************************************)

CrawlTypes ==
  /\ nodes \in [Ids -> [known : BOOLEAN, dirty : BOOLEAN, New : BOOLEAN]]
  /\ cpc \in {"idle", "local", "loop", "range"}
  /\ range \subseteq Ids /\ more \in BOOLEAN /\ crawls \in Nat
  /\ before \subseteq Ids /\ told \subseteq Ids
  /\ asked \in [Ids -> Nat]

\* A node in the table was there before the crawl, or the crawl was told of it and marked
\* it; it is dirty until it was asked; and as long as it is dirty, the pass will come to it
\* or there will be another pass.
NodeInv(n) ==
  /\ n \in range => nodes[n].known
  /\ ~nodes[n].known => nodes[n] = Absent
  /\ crawls > 0 => /\ nodes[n].known <=> n \in before \cup told
                   /\ nodes[n].known => (nodes[n].New <=> n \notin before)
                   /\ asked[n] = IF nodes[n].known /\ ~nodes[n].dirty THEN 1 ELSE 0
  /\ cpc = "range" /\ ~more /\ nodes[n].dirty => n \in range
  /\ cpc = "idle" \/ (cpc = "loop" /\ ~more) => ~nodes[n].dirty

CrawlInv ==
  /\ CrawlTypes
  /\ \A n \in Ids : NodeInv(n)
  /\ crawls = 0 => cpc = "idle"
  /\ cpc = "local" => told = {}
  /\ cpc # "range" => range = {}

\* Nothing is known at first.
LEMMA CrawlInit == InitCrawl => CrawlInv
<1> SUFFICES ASSUME InitCrawl PROVE CrawlInv
  OBVIOUS
<1>1. CrawlTypes
  BY Zenon DEF InitCrawl, CrawlTypes, Absent
<1>2. ASSUME NEW n \in Ids PROVE NodeInv(n)
  BY DEF InitCrawl, NodeInv, Absent
<1> QED BY <1>1, <1>2 DEF InitCrawl, CrawlInv

\* A step that leaves the crawl alone.
LEMMA CrawlSame == CrawlInv /\ UNCHANGED crawlState => CrawlInv'
  BY DEF CrawlInv, CrawlTypes, NodeInv, crawlState

\* What neighbors does to the entry of one node.
LEMMA NeighborsAdd ==
  ASSUME NEW tbl \in [Ids -> [known : BOOLEAN, dirty : BOOLEAN, New : BOOLEAN]],
         NEW found, NEW n \in Ids
  PROVE  /\ neighbors(tbl, found) \in [Ids -> [known : BOOLEAN, dirty : BOOLEAN, New : BOOLEAN]]
         /\ n \in found /\ ~tbl[n].known =>
              neighbors(tbl, found)[n] = [known |-> TRUE, dirty |-> TRUE, New |-> TRUE]
         /\ n \notin found \/ tbl[n].known => neighbors(tbl, found)[n] = tbl[n]
  BY DEF neighbors

\* Every step of the crawl.
LEMMA CrawlStep == CrawlInv /\ NextCrawl => CrawlInv'
<1> SUFFICES ASSUME CrawlInv, NextCrawl PROVE CrawlInv'
  OBVIOUS
<1>0. CrawlTypes /\ \A n \in Ids : NodeInv(n)
  BY DEF CrawlInv
<1>1. CASE Crawl
  <2>0. nodes' \in [Ids -> [known : BOOLEAN, dirty : BOOLEAN, New : BOOLEAN]]
    <3>1. \A n \in Ids : /\ nodes[n] \in [known : BOOLEAN, dirty : BOOLEAN, New : BOOLEAN]
                         /\ nodes[n].known \in BOOLEAN
      BY <1>0 DEF CrawlTypes
    <3>2. \A n \in Ids : [nodes[n] EXCEPT !.dirty = nodes[n].known, !.New = FALSE]
                           \in [known : BOOLEAN, dirty : BOOLEAN, New : BOOLEAN]
      BY <3>1, Zenon
    <3> QED BY <1>1, <3>2, Zenon DEF Crawl
  <2>a. crawls \in Nat /\ crawls' = crawls + 1
    <3>1. crawls \in Nat
      BY <1>0 DEF CrawlTypes
    <3>2. crawls' = crawls + 1
      BY <1>1, Zenon DEF Crawl
    <3> QED BY <3>1, <3>2
  <2>1. CrawlTypes'
    <3>1. crawls' \in Nat
      BY <2>a
    <3>2. before' \subseteq Ids /\ asked' \in [Ids -> Nat]
      BY <1>1, Zenon DEF Crawl, Known
    <3> QED BY <1>0, <1>1, <2>0, <3>1, <3>2, Zenon DEF Crawl, CrawlTypes
  <2>2. ASSUME NEW k \in Ids PROVE NodeInv(k)'
    <3>1. /\ nodes'[k].known = nodes[k].known /\ nodes'[k].dirty = nodes[k].known
          /\ nodes'[k].New = FALSE
      BY <1>0, <1>1, Zenon DEF Crawl, CrawlTypes
    <3>2. nodes'[k] \in [known : BOOLEAN, dirty : BOOLEAN, New : BOOLEAN] /\ nodes[k].known \in BOOLEAN
      BY <1>0, <2>1 DEF CrawlTypes
    <3>3. ~nodes'[k].known => nodes'[k] = Absent
      BY <3>1, <3>2, Zenon DEF Absent
    <3>4. /\ k \in before' <=> nodes[k].known
          /\ told' = {} /\ asked'[k] = 0 /\ cpc' = "local" /\ range' = range
      BY <1>1, Zenon DEF Crawl, Known
    <3> QED BY <1>0, <3>1, <3>2, <3>3, <3>4 DEF NodeInv
  <2>3. crawls' # 0
    BY <2>a
  <2>4. cpc' = "local" /\ told' = {} /\ range' = {}
    BY <1>1, Zenon DEF Crawl, CrawlInv
  <2> QED BY <2>1, <2>2, <2>3, <2>4 DEF CrawlInv
<1>2. CASE AskLocal
  <2>1. PICK found \in SUBSET Ids : nodes' = neighbors(nodes, found) /\ told' = found
    BY <1>2 DEF AskLocal
  <2>2. CrawlTypes'
    BY <1>0, <1>2, <2>1 DEF AskLocal, CrawlTypes, neighbors
  <2>3. ASSUME NEW k \in Ids PROVE NodeInv(k)'
    <3>1. /\ k \in found /\ ~nodes[k].known => nodes'[k] = [known |-> TRUE, dirty |-> TRUE, New |-> TRUE]
          /\ k \notin found \/ nodes[k].known => nodes'[k] = nodes[k]
      BY <1>0, <2>1, NeighborsAdd DEF CrawlTypes
    <3>2. /\ UNCHANGED <<range, crawls, before, asked>> /\ cpc' = "loop" /\ more' = TRUE
          /\ told = {} /\ crawls > 0
      BY <1>2 DEF AskLocal, CrawlInv, CrawlTypes
    <3> QED BY <1>0, <2>1, <3>1, <3>2 DEF NodeInv, Absent
  <2> QED BY <1>2, <2>2, <2>3 DEF CrawlInv, CrawlTypes, AskLocal
<1>3. CASE Pass
  <2>1. CrawlTypes'
    BY <1>0, <1>3, Zenon DEF Pass, CrawlTypes, Known
  <2>2. ASSUME NEW k \in Ids PROVE NodeInv(k)'
    BY <1>0, <1>3 DEF Pass, NodeInv, Known, Absent
  <2> QED BY <1>3, <2>1, <2>2 DEF CrawlInv, Pass
<1>4. ASSUME NEW n \in Ids, Ask(n) PROVE CrawlInv'
  <2>1. PICK found \in SUBSET Ids :
          /\ nodes' = [neighbors(nodes, found) EXCEPT ![n].dirty = FALSE]
          /\ \E seen \in SUBSET ({k \in Ids : neighbors(nodes, found)[k].known} \ Known) :
               range' = (range \ {n}) \cup seen
          /\ told' = told \cup found
    BY <1>4, Zenon DEF Ask
  <2>2. /\ cpc = "range" /\ n \in range /\ nodes[n].dirty /\ more' = TRUE
        /\ asked' = [asked EXCEPT ![n] = @ + 1]
        /\ UNCHANGED <<cpc, crawls, before>>
    BY <1>4 DEF Ask
  <2>3. crawls > 0 /\ nodes[n].known
    BY <1>0, <2>2 DEF CrawlInv, CrawlTypes, NodeInv
  <2>4. neighbors(nodes, found) \in [Ids -> [known : BOOLEAN, dirty : BOOLEAN, New : BOOLEAN]]
    BY <1>0 DEF CrawlTypes, neighbors
  <2>5. range' \subseteq Ids
    BY <1>0, <2>1 DEF CrawlTypes
  <2>6. CrawlTypes'
    <3>1. [neighbors(nodes, found)[n] EXCEPT !.dirty = FALSE] \in [known : BOOLEAN, dirty : BOOLEAN, New : BOOLEAN]
      BY <2>4, Zenon
    <3>2. nodes' \in [Ids -> [known : BOOLEAN, dirty : BOOLEAN, New : BOOLEAN]]
      BY <2>1, <2>4, <3>1
    <3>3. asked' \in [Ids -> Nat]
      BY <1>0, <2>2 DEF CrawlTypes
    <3> QED BY <1>0, <2>1, <2>2, <2>5, <3>2, <3>3 DEF CrawlTypes
  <2>7. ASSUME NEW k \in Ids PROVE NodeInv(k)'
    <3>1. /\ k \in found /\ ~nodes[k].known =>
               neighbors(nodes, found)[k] = [known |-> TRUE, dirty |-> TRUE, New |-> TRUE]
          /\ k \notin found \/ nodes[k].known => neighbors(nodes, found)[k] = nodes[k]
      BY <1>0, NeighborsAdd DEF CrawlTypes
    <3>2. CASE k = n
      <4>1. nodes'[k] = [nodes[k] EXCEPT !.dirty = FALSE]
        BY <2>1, <2>3, <2>4, <3>1, <3>2, Zenon
      <4>2. nodes'[k].known /\ ~nodes'[k].dirty /\ nodes'[k].New = nodes[k].New
        BY <1>0, <2>3, <3>2, <4>1 DEF CrawlTypes
      <4>3. asked'[k] = 1
        BY <1>0, <2>2, <2>3, <3>2 DEF CrawlTypes, NodeInv
      <4> QED BY <1>0, <2>1, <2>2, <2>3, <3>2, <4>2, <4>3 DEF NodeInv
    <3>3. CASE k # n
      <4>1. nodes'[k] = neighbors(nodes, found)[k]
        BY <2>1, <2>4, <3>3
      <4>2. asked'[k] = asked[k]
        BY <1>0, <2>2, <3>3 DEF CrawlTypes
      <4>3. k \in range' => k \in range \/ nodes'[k].known
        BY <2>1, <4>1
      <4>4. CASE k \in found /\ ~nodes[k].known
        BY <1>0, <2>1, <2>2, <2>3, <3>1, <4>1, <4>2, <4>4 DEF NodeInv, Absent
      <4>5. CASE k \notin found \/ nodes[k].known
        BY <1>0, <2>1, <2>2, <2>3, <3>1, <4>1, <4>2, <4>3, <4>5, Zenon DEF NodeInv
      <4> QED BY <4>4, <4>5
    <3> QED BY <3>2, <3>3
  <2> QED BY <2>2, <2>3, <2>6, <2>7 DEF CrawlInv, CrawlTypes
<1>5. ASSUME NEW n \in Ids, Skip(n) PROVE CrawlInv'
  <2>1. CrawlTypes'
    BY <1>0, <1>5 DEF Skip, CrawlTypes
  <2>2. ASSUME NEW k \in Ids PROVE NodeInv(k)'
    BY <1>0, <1>5 DEF Skip, NodeInv, Absent
  <2> QED BY <1>5, <2>1, <2>2 DEF CrawlInv, Skip
<1>6. CASE PassEnds
  <2>1. CrawlTypes'
    BY <1>0, <1>6 DEF PassEnds, CrawlTypes
  <2>2. ASSUME NEW k \in Ids PROVE NodeInv(k)'
    BY <1>0, <1>6 DEF PassEnds, NodeInv, Absent
  <2> QED BY <1>6, <2>1, <2>2 DEF CrawlInv, PassEnds
<1>7. CASE CrawlReturns
  <2>1. CrawlTypes'
    BY <1>0, <1>7 DEF CrawlReturns, CrawlTypes
  <2>2. ASSUME NEW k \in Ids PROVE NodeInv(k)'
    BY <1>0, <1>7 DEF CrawlReturns, NodeInv, Absent
  <2> QED BY <1>7, <2>1, <2>2 DEF CrawlInv, CrawlReturns
<1> QED BY <1>1, <1>2, <1>3, <1>4, <1>5, <1>6, <1>7 DEF NextCrawl, Crawling

\* A crawl that has ended has asked every node of the table once, knows every node it was told
\* of and marked exactly the new ones, for any mesh and wherever the iteration went.
THEOREM CrawlIsComplete == SpecCrawl => []CrawlComplete
<1>1. CrawlInv /\ [NextCrawl]_crawlState => CrawlInv'
  BY CrawlStep, CrawlSame
<1>2. CrawlInv => CrawlComplete
  <2> SUFFICES ASSUME CrawlInv, cpc = "idle", crawls > 0 PROVE CrawlComplete
    BY DEF CrawlComplete
  <2>1. /\ \A n \in Ids : nodes[n].known => n \in before \/ n \in told
        /\ \A n \in Ids : n \in before \/ n \in told => nodes[n].known
        /\ \A n \in Ids : nodes[n].known /\ nodes[n].New => n \notin before
        /\ \A n \in Ids : nodes[n].known /\ n \notin before => nodes[n].New
        /\ \A n \in Ids : nodes[n].known => asked[n] = 1 /\ ~nodes[n].dirty
    BY DEF CrawlInv, NodeInv
  <2>2. before \subseteq Ids /\ told \subseteq Ids
    BY DEF CrawlInv, CrawlTypes
  <2>4. Known = before \cup told
    BY <2>1, <2>2 DEF Known
  <2>5. \A n \in Known : asked[n] = 1 /\ ~nodes[n].dirty
    BY <2>1 DEF Known
  <2>6. {n \in Known : nodes[n].New} = Known \ before
    BY <2>1 DEF Known
  <2> QED BY <2>4, <2>5, <2>6 DEF CrawlComplete
<1> QED BY <1>1, <1>2, CrawlInit, PTL DEF SpecCrawl

-----------------------------------------------------------------------------
(***************************************************************************)
(* Mux: to which handlers a message is given while handlers are added.     *)
(***************************************************************************)

MuxTypes ==
  /\ httpMux \in BOOLEAN /\ fatal \in BOOLEAN
  /\ handlers \in [Paths -> Seq(Nat)] /\ adding \in Paths \cup {NoTopic}
  /\ added \in Nat /\ lastId \in Nat
  /\ msg \in [Tasks -> [at : {"start", "star", "http", "topic", "sent", "done", "panicked"},
                        http : BOOLEAN, topic : Topics \cup {NoTopic}, id : Nat]]
  /\ called \in [Tasks -> Seq(Nat)]
  /\ had \in [Tasks -> [Paths -> Seq(Nat)]]

\* The handlers that are there, that were there when t's message came, and that it was given to.
Now(p)    == Range(handlers[p])
Was(t, p) == Range(had[t][p])
Got(t)    == Range(called[t])

\* A handler was added once, for one path, with a number of its own.
HandlersInv ==
  /\ \A p \in Paths : IsInjective(handlers[p]) /\ \A i \in Now(p) : i <= added
  /\ \A p, q \in Paths : p # q => Now(p) \cap Now(q) = {}
  /\ adding # NoTopic => \A p \in Paths : added \notin Now(p)

\* What t's message was given to so far.
GivenInv(t) ==
  LET at == msg[t].at
      topic == msg[t].topic
  IN  /\ \A p \in Paths : Was(t, p) \subseteq Now(p)
      /\ IsInjective(called[t])
      /\ at = "start" => topic = NoTopic
      /\ at \in {"start", "star"} \/ topic = NoTopic => called[t] = <<>>
      /\ at \in {"star", "http", "topic"} => topic # NoTopic
      /\ at \in {"http", "topic"} =>
           Was(t, "*") \subseteq Got(t) /\ Got(t) \subseteq Now("*") /\ (httpMux <=> at = "http")
      /\ at \in {"sent", "done"} /\ topic # NoTopic =>
           /\ Was(t, "*") \subseteq Got(t)
           /\ Got(t) \subseteq Now("*") \cup Now(topic) \cup Now("")
           /\ ~httpMux => Was(t, topic) \subseteq Got(t)
           /\ Got(t) \cap Now("") # {} => Was(t, topic) = {} /\ ~httpMux
           /\ ~httpMux /\ Now(topic) = {} => Was(t, "") \subseteq Got(t)

\* No two messages were given one number.
NumbersInv ==
  /\ \A t \in Tasks : msg[t].id <= lastId
  /\ \A t, u \in Tasks : t # u /\ msg[t].id # 0 => msg[u].id # msg[t].id

MuxInv == MuxTypes /\ HandlersInv /\ (\A t \in Tasks : GivenInv(t)) /\ NumbersInv

-----------------------------------------------------------------------------
\* What a handlerSlice holds once a handler is appended to it.
LEMMA RangeAppended ==
  ASSUME NEW s \in Seq(Nat), NEW x \in Nat
  PROVE  /\ Append(s, x) \in Seq(Nat) /\ Range(Append(s, x)) = Range(s) \cup {x}
         /\ IsInjective(s) /\ x \notin Range(s) => IsInjective(Append(s, x))
<1> DEFINE r == Append(s, x)
<1>1. Len(s) \in Nat /\ DOMAIN s = 1..Len(s) /\ (\A i \in 1..Len(s) : s[i] \in Nat)
  OBVIOUS
<1>2. r \in Seq(Nat) /\ DOMAIN r = 1..(Len(s) + 1) /\ r[Len(s) + 1] = x
      /\ \A i \in 1..Len(s) : r[i] = s[i]
  OBVIOUS
<1> HIDE DEF r
<1>3. Range(r) = Range(s) \cup {x}
  BY <1>1, <1>2 DEF Range
<1>4. IsInjective(s) /\ x \notin Range(s) => IsInjective(r)
  BY <1>1, <1>2 DEF IsInjective, Range
<1> QED  BY <1>2, <1>3, <1>4 DEF r

\* What was called once a message was given to one more list of handlers.
LEMMA RangeJoined ==
  ASSUME NEW s \in Seq(Nat), NEW u \in Seq(Nat)
  PROVE  /\ s \o u \in Seq(Nat) /\ Range(s \o u) = Range(s) \cup Range(u)
         /\ IsInjective(s) /\ IsInjective(u) /\ Range(s) \cap Range(u) = {} => IsInjective(s \o u)
<1> DEFINE r == s \o u
           m == Len(s)
           n == Len(u)
<1>1. m \in Nat /\ n \in Nat /\ DOMAIN s = 1..m /\ DOMAIN u = 1..n
  OBVIOUS
<1>2. r \in Seq(Nat) /\ DOMAIN r = 1..(m + n)
      /\ (\A i \in 1..m : r[i] = s[i]) /\ \A i \in (m + 1)..(m + n) : r[i] = u[i - m]
  OBVIOUS
<1> HIDE DEF r, m, n
<1>3. \A j \in 1..n : m + j \in (m + 1)..(m + n) /\ (m + j) - m = j
  BY <1>1
<1>4. \A i \in 1..(m + n) : i \in 1..m \/ (i \in (m + 1)..(m + n) /\ i - m \in 1..n)
  BY <1>1
<1>5. 1..m \subseteq 1..(m + n) /\ (m + 1)..(m + n) \subseteq 1..(m + n)
  BY <1>1
<1>6. Range(r) \subseteq Range(s) \cup Range(u)
  BY <1>1, <1>2, <1>4, Zenon DEF Range
<1>7. Range(s) \subseteq Range(r)
  BY <1>1, <1>2, <1>5, Zenon DEF Range
<1>8. ASSUME NEW y \in Range(u)
      PROVE  y \in Range(r)
  <2>1. PICK j \in 1..n : y = u[j]
    BY <1>8, <1>1 DEF Range
  <2>2. r[m + j] = y /\ m + j \in 1..(m + n)
    BY <2>1, <1>2, <1>3, <1>5
  <2> QED  BY <2>2, <1>2 DEF Range
<1>9. ASSUME IsInjective(s), IsInjective(u), Range(s) \cap Range(u) = {}
      PROVE  IsInjective(r)
  <2>1. ASSUME NEW a \in 1..(m + n), NEW b \in 1..(m + n), r[a] = r[b]
        PROVE  a = b
    <3>1. CASE a \in 1..m /\ b \in 1..m
      BY <3>1, <2>1, <1>1, <1>2, <1>9, Zenon DEF IsInjective
    <3>2. CASE a \in 1..m /\ b \in (m + 1)..(m + n) /\ b - m \in 1..n
      BY <3>2, <2>1, <1>1, <1>2, <1>9, Zenon DEF Range
    <3>3. CASE b \in 1..m /\ a \in (m + 1)..(m + n) /\ a - m \in 1..n
      BY <3>3, <2>1, <1>1, <1>2, <1>9, Zenon DEF Range
    <3>4. CASE /\ a \in (m + 1)..(m + n) /\ a - m \in 1..n
               /\ b \in (m + 1)..(m + n) /\ b - m \in 1..n
      <4>1. u[a - m] = u[b - m]
        BY <3>4, <2>1, <1>2
      <4>2. a - m = b - m
        BY <3>4, <4>1, <1>1, <1>9, Zenon DEF IsInjective
      <4> QED  BY <4>2, <1>1
    <3> QED  BY <3>1, <3>2, <3>3, <3>4, <1>4
  <2> QED  BY <2>1, <1>2 DEF IsInjective
<1> QED  BY <1>2, <1>6, <1>7, <1>8, <1>9 DEF r

\* The shared state a step of one message leaves alone.
MuxFrame == UNCHANGED <<httpMux, handlers, adding, added>>

\* The messages other than t's are untouched.
OthersKept(t) ==
  \A u \in Tasks \ {t} : msg'[u] = msg[u] /\ called'[u] = called[u] /\ had'[u] = had[u]

\* No message was given to a handler at first.
LEMMA MuxInit == InitMux => MuxInv
<1> SUFFICES ASSUME InitMux
             PROVE  MuxInv
  OBVIOUS
<1>1. <<>> \in Seq(Nat) /\ Range(<<>>) = {} /\ IsInjective(<<>>)
  BY DEF Range, IsInjective
<1>2. NoTopic \notin Paths /\ Topics \subseteq Paths /\ "*" \in Paths /\ "" \in Paths
  BY MuxAssumption, Zenon DEF NoTopic, Paths
<1>3. MuxTypes
  BY <1>1, <1>2, Zenon DEF InitMux, MuxTypes, NoHandlers
<1>4. HandlersInv
  BY <1>1 DEF InitMux, HandlersInv, NoHandlers, Now
<1>5. ASSUME NEW t \in Tasks
      PROVE  GivenInv(t)
  BY <1>1, <1>2, <1>5, Zenon DEF InitMux, GivenInv, NoHandlers, Now, Was
<1>6. NumbersInv
  BY DEF InitMux, NumbersInv
<1> QED  BY <1>3, <1>4, <1>5, <1>6 DEF MuxInv

\* Handlers added while a message is handled do not disturb what is known of it: they
\* have a number no handler had.
LEMMA GivenKept ==
  ASSUME NEW t \in Tasks, MuxTypes, GivenInv(t), NEW x,
         \A p \in Paths : Now(p) \subseteq Now(p)' /\ Now(p)' \subseteq Now(p) \cup {x},
         \A p \in Paths : x \notin Now(p),
         msg'[t] = msg[t], called'[t] = called[t], had'[t] = had[t], httpMux' = httpMux
  PROVE  GivenInv(t)'
<1>0. PICK at, topic : at = msg[t].at /\ topic = msg[t].topic
  OBVIOUS
<1>1. Topics \subseteq Paths /\ "*" \in Paths /\ "" \in Paths /\ NoTopic \notin Paths
  BY MuxAssumption, Zenon DEF Paths, NoTopic
<1>2. topic \in Topics \cup {NoTopic}
  BY <1>0 DEF MuxTypes
<1>3. Got(t)' = Got(t) /\ (\A p : Was(t, p)' = Was(t, p)) /\ msg'[t].at = at /\ msg'[t].topic = topic
      /\ msg'[t].id = msg[t].id
  BY <1>0 DEF Got, Was
<1>4. \A p \in Paths : Was(t, p) \subseteq Now(p)
  BY Zenon DEF GivenInv
<1>5. \A p \in Paths : Was(t, p)' \subseteq Now(p)'
  BY <1>3, <1>4
<1>6. at \in {"http", "topic"} =>
        Was(t, "*") \subseteq Got(t) /\ Got(t) \subseteq Now("*") /\ (httpMux <=> at = "http")
  BY <1>0, Zenon DEF GivenInv
<1>7. at \in {"sent", "done"} /\ topic # NoTopic =>
        /\ Was(t, "*") \subseteq Got(t)
        /\ Got(t) \subseteq Now("*") \cup Now(topic) \cup Now("")
        /\ ~httpMux => Was(t, topic) \subseteq Got(t)
        /\ Got(t) \cap Now("") # {} => Was(t, topic) = {} /\ ~httpMux
        /\ ~httpMux /\ Now(topic) = {} => Was(t, "") \subseteq Got(t)
  BY <1>0, Zenon DEF GivenInv
<1>8. IsInjective(called[t])' /\ (at = "start" => topic = NoTopic)
      /\ (at \in {"start", "star"} \/ topic = NoTopic => called[t] = <<>>)
      /\ (at \in {"star", "http", "topic"} => topic # NoTopic)
  BY <1>0, Zenon DEF GivenInv
<1>9. at \in {"http", "topic"} =>
        Was(t, "*")' \subseteq Got(t)' /\ Got(t)' \subseteq Now("*")' /\ (httpMux' <=> at = "http")
  BY <1>1, <1>3, <1>6, Zenon
<1>10. ASSUME at \in {"sent", "done"}, topic # NoTopic
       PROVE  /\ Was(t, "*")' \subseteq Got(t)'
              /\ Got(t)' \subseteq Now("*")' \cup Now(topic)' \cup Now("")'
              /\ ~httpMux' => Was(t, topic)' \subseteq Got(t)'
              /\ Got(t)' \cap Now("")' # {} => Was(t, topic)' = {} /\ ~httpMux'
              /\ ~httpMux' /\ Now(topic)' = {} => Was(t, "")' \subseteq Got(t)'
  <2>1. topic \in Paths /\ x \notin Got(t)
    BY <1>1, <1>2, <1>7, <1>10, Zenon
  <2>2. Got(t) \cap Now("")' = Got(t) \cap Now("")
    BY <2>1, <1>1, Zenon
  <2>3. Now(topic)' = {} => Now(topic) = {}
    BY <2>1
  <2>4. Got(t) \subseteq Now("*")' \cup Now(topic)' \cup Now("")'
    BY <2>1, <1>1, <1>7, <1>10, Zenon
  <2>5. /\ Was(t, "*")' = Was(t, "*") /\ Was(t, topic)' = Was(t, topic) /\ Was(t, "")' = Was(t, "")
        /\ Got(t)' = Got(t)
    BY <1>3, Zenon
  <2>6. Got(t) \cap Now("")' # {} => Was(t, topic) = {} /\ ~httpMux
    BY <2>2, <1>7, <1>10, Zenon
  <2>7. ~httpMux /\ Now(topic)' = {} => Was(t, "") \subseteq Got(t)
    BY <2>3, <1>7, <1>10, Zenon
  <2>8. Was(t, "*") \subseteq Got(t) /\ (~httpMux => Was(t, topic) \subseteq Got(t))
    BY <1>7, <1>10, Zenon
  <2> QED  BY ONLY <2>4, <2>5, <2>6, <2>7, <2>8, httpMux' = httpMux, Zenon
<1> QED  BY <1>3, <1>5, <1>8, <1>9, <1>10, Zenon DEF GivenInv

\* A step of one message leaves what is known of the handlers and of the others.
LEMMA OneMessage ==
  ASSUME MuxInv, MuxFrame, NEW t \in Tasks, OthersKept(t)
  PROVE  HandlersInv' /\ \A u \in Tasks \ {t} : GivenInv(u)'
<1>1. \A p : Now(p)' = Now(p)
  BY DEF MuxFrame, Now
<1>2. HandlersInv'
  BY <1>1 DEF MuxInv, MuxFrame, HandlersInv
<1>3. added \in Nat /\ \A p \in Paths : \A i \in Now(p) : i <= added /\ i \in Nat
  <2>1. added \in Nat /\ \A p \in Paths : handlers[p] \in Seq(Nat)
    BY DEF MuxInv, MuxTypes
  <2>2. \A p \in Paths : \A i \in Now(p) : i \in Nat
    BY <2>1 DEF Now, Range
  <2> QED  BY <2>1, <2>2 DEF MuxInv, HandlersInv
<1>4. \A p \in Paths : added + 1 \notin Now(p)
  BY <1>3
<1>5. ASSUME NEW u \in Tasks \ {t}
      PROVE  GivenInv(u)'
  <2>1. GivenInv(u) /\ MuxTypes /\ u \in Tasks
    BY DEF MuxInv
  <2>2. msg'[u] = msg[u] /\ called'[u] = called[u] /\ had'[u] = had[u] /\ httpMux' = httpMux
    BY DEF OthersKept, MuxFrame
  <2>3. \A p \in Paths : Now(p) \subseteq Now(p)' /\ Now(p)' \subseteq Now(p) \cup {added + 1}
    BY <1>1
  <2> QED  BY ONLY <2>1, <2>2, <2>3, <1>4, GivenKept
<1> QED  BY <1>2, <1>5

\* AddHandler takes the lock and the next number.
LEMMA MuxAddStart ==
  ASSUME MuxInv, NEW p \in Paths, AddStart(p), httpMux' = httpMux
  PROVE  MuxInv'
<1>1. MuxTypes' /\ added' = added + 1 /\ added \in Nat /\ handlers' = handlers
  BY DEF MuxInv, MuxTypes, AddStart
<1>2. \A q : Now(q)' = Now(q)
  BY <1>1 DEF Now
<1>3. \A q \in Paths : \A i \in Now(q) : i \in Nat /\ i <= added
  <2>1. \A q \in Paths : handlers[q] \in Seq(Nat)
    BY DEF MuxInv, MuxTypes
  <2>2. \A q \in Paths : \A i \in Now(q) : i \in Nat
    BY <2>1 DEF Now, Range
  <2> QED  BY <2>2 DEF MuxInv, HandlersInv
<1>4. \A q \in Paths : added + 1 \notin Now(q) /\ \A i \in Now(q) : i <= added + 1
  BY <1>1, <1>3
<1>5. HandlersInv'
  BY <1>1, <1>2, <1>4 DEF MuxInv, HandlersInv
<1>6. ASSUME NEW t \in Tasks
      PROVE  GivenInv(t)'
  <2>1. GivenInv(t) /\ MuxTypes
    BY DEF MuxInv
  <2>2. msg'[t] = msg[t] /\ called'[t] = called[t] /\ had'[t] = had[t] /\ httpMux' = httpMux
    BY DEF AddStart
  <2>3. \A q \in Paths : Now(q) \subseteq Now(q)' /\ Now(q)' \subseteq Now(q) \cup {added + 1}
    BY <1>2
  <2>4. \A q \in Paths : added + 1 \notin Now(q)
    BY <1>4
  <2> QED  BY ONLY <2>1, <2>2, <2>3, <2>4, GivenKept, t \in Tasks
<1>7. NumbersInv'
  BY DEF MuxInv, NumbersInv, AddStart
<1> QED  BY <1>1, <1>5, <1>6, <1>7 DEF MuxInv

\* AddHandler adds the handler with the number it took.
LEMMA MuxAddHandler ==
  ASSUME MuxInv, AddHandler, httpMux' = httpMux
  PROVE  MuxInv'
<1> DEFINE a == adding
<1>1. a \in Paths /\ added \in Nat /\ handlers \in [Paths -> Seq(Nat)]
      /\ (\A q \in Paths : added \notin Now(q)) /\ NoTopic \notin Paths
  BY MuxAssumption, Zenon DEF MuxInv, MuxTypes, HandlersInv, AddHandler, Paths, NoTopic
<1>2. handlers' = [handlers EXCEPT ![a] = Append(@, added)] /\ adding' = NoTopic
      /\ added' = added
  BY DEF AddHandler
<1> HIDE DEF a
<1>3. /\ handlers'[a] = Append(handlers[a], added)
      /\ \A q \in Paths \ {a} : handlers'[q] = handlers[q]
  BY <1>1, <1>2
<1>4. handlers[a] \in Seq(Nat) /\ added \notin Range(handlers[a])
  BY <1>1 DEF Now
<1>5. Append(handlers[a], added) \in Seq(Nat)
      /\ Range(Append(handlers[a], added)) = Range(handlers[a]) \cup {added}
      /\ (IsInjective(handlers[a]) => IsInjective(Append(handlers[a], added)))
  BY <1>1, <1>4, RangeAppended
<1>6. Range(handlers'[a]) = Range(handlers[a]) \cup {added}
      /\ \A q \in Paths \ {a} : Range(handlers'[q]) = Range(handlers[q])
  BY <1>3, <1>5
<1>7. handlers' \in [Paths -> Seq(Nat)]
  BY <1>1, <1>2, <1>5
<1>8. MuxTypes'
  BY <1>7, <1>2 DEF MuxInv, MuxTypes, AddHandler
<1>9. \A q \in Paths : IsInjective(handlers'[q])
  BY <1>3, <1>5, <1>1, Zenon DEF MuxInv, HandlersInv
<1>10. \A q \in Paths : \A i \in Range(handlers'[q]) : i <= added
  BY <1>1, <1>6 DEF MuxInv, HandlersInv, Now
<1>11. \A q, r \in Paths : q # r => Range(handlers'[q]) \cap Range(handlers'[r]) = {}
  <2>1. \A q, r \in Paths : q # r => Range(handlers[q]) \cap Range(handlers[r]) = {}
    BY DEF MuxInv, HandlersInv, Now
  <2>2. \A q \in Paths : added \notin Range(handlers[q])
    BY <1>1 DEF Now
  <2>3. ASSUME NEW q \in Paths, NEW r \in Paths, q # r
        PROVE  Range(handlers'[q]) \cap Range(handlers'[r]) = {}
    <3>1. CASE q = a
      BY <3>1, <2>1, <2>2, <2>3, <1>6
    <3>2. CASE r = a
      BY <3>2, <2>1, <2>2, <2>3, <1>6
    <3>3. CASE q # a /\ r # a
      BY <3>3, <2>1, <2>3, <1>6
    <3> QED  BY <3>1, <3>2, <3>3
  <2> QED  BY <2>3
<1>12. HandlersInv'
  BY <1>2, <1>9, <1>10, <1>11, Zenon DEF HandlersInv, Now
<1>13. ASSUME NEW t \in Tasks
       PROVE  GivenInv(t)'
  <2>1. GivenInv(t) /\ MuxTypes
    BY DEF MuxInv
  <2>2. msg'[t] = msg[t] /\ called'[t] = called[t] /\ had'[t] = had[t] /\ httpMux' = httpMux
    BY DEF AddHandler
  <2>3. \A q \in Paths : Now(q) \subseteq Now(q)' /\ Now(q)' \subseteq Now(q) \cup {added}
    BY <1>6 DEF Now
  <2> QED  BY ONLY <2>1, <2>2, <2>3, <1>1, GivenKept, t \in Tasks, Zenon
<1>14. NumbersInv'
  BY DEF MuxInv, NumbersInv, AddHandler
<1> QED  BY <1>8, <1>12, <1>13, <1>14 DEF MuxInv

\* A message that comes has met no handler yet.
LEMMA MuxMessageStep ==
  ASSUME MuxInv, NEW t \in Tasks, NEW http \in BOOLEAN, NEW topic \in Topics \cup {NoTopic},
         NEW numbered \in BOOLEAN, MuxMessage(t, http, topic, numbered), httpMux' = httpMux
  PROVE  MuxInv'
<1> DEFINE id == IF numbered THEN lastId + 1 ELSE 0
           at == IF topic = NoTopic THEN "sent" ELSE "star"
<1>1. lastId \in Nat /\ id \in Nat /\ lastId' \in Nat /\ lastId <= lastId'
      /\ id <= lastId' /\ (id # 0 => id = lastId + 1)
  BY DEF MuxInv, MuxTypes, MuxMessage
<1>2. msg' = [msg EXCEPT ![t] = [at |-> at, http |-> http, topic |-> topic, id |-> id]]
      /\ had' = [had EXCEPT ![t] = handlers] /\ called' = called /\ msg[t].at = "start"
  BY DEF MuxMessage
<1>3. msg \in [Tasks -> [at : {"start", "star", "http", "topic", "sent", "done", "panicked"},
                         http : BOOLEAN, topic : Topics \cup {NoTopic}, id : Nat]]
      /\ had \in [Tasks -> [Paths -> Seq(Nat)]] /\ handlers \in [Paths -> Seq(Nat)]
  BY DEF MuxInv, MuxTypes
<1>4. at \in {"sent", "star"} /\ (at = "sent" <=> topic = NoTopic)
  OBVIOUS
<1> HIDE DEF id, at
<1>5. msg'[t] = [at |-> at, http |-> http, topic |-> topic, id |-> id] /\ had'[t] = handlers
      /\ msg'[t].at = at /\ msg'[t].topic = topic /\ msg'[t].id = id
  BY <1>2, <1>3
<1>6. \A u \in Tasks \ {t} : msg'[u] = msg[u] /\ had'[u] = had[u]
  BY <1>2, <1>3
<1>7. MuxTypes'
  <2>1. [at |-> at, http |-> http, topic |-> topic, id |-> id] \in
          [at : {"start", "star", "http", "topic", "sent", "done", "panicked"},
           http : BOOLEAN, topic : Topics \cup {NoTopic}, id : Nat]
    BY <1>1, <1>4
  <2>2. msg' \in [Tasks -> [at : {"start", "star", "http", "topic", "sent", "done", "panicked"},
                            http : BOOLEAN, topic : Topics \cup {NoTopic}, id : Nat]]
    BY <2>1, <1>2, <1>3
  <2>3. had' \in [Tasks -> [Paths -> Seq(Nat)]]
    BY <1>2, <1>3, Zenon
  <2> QED  BY <2>2, <2>3, <1>1, <1>2, Zenon DEF MuxInv, MuxTypes, MuxMessage
<1>8. MuxFrame /\ OthersKept(t)
  BY <1>2, <1>6 DEF MuxFrame, OthersKept, MuxMessage
<1>9. HandlersInv' /\ \A u \in Tasks \ {t} : GivenInv(u)'
  BY <1>8, OneMessage
<1>10. GivenInv(t)'
  <2>1. called'[t] = <<>> /\ IsInjective(called'[t])
    BY <1>2, Zenon DEF MuxInv, GivenInv
  <2>2. \A p : Was(t, p)' = Now(p)'
    BY <1>5 DEF Was, Now, MuxMessage
  <2> QED  BY ONLY <2>1, <2>2, <1>4, <1>5, Zenon DEF GivenInv
<1>11. NumbersInv'
  <2>1. \A u \in Tasks : msg[u].id \in Nat /\ msg[u].id <= lastId
    BY <1>3 DEF MuxInv, NumbersInv
  <2>2. ASSUME NEW u \in Tasks
        PROVE  msg'[u].id <= lastId'
    <3>1. CASE u = t
      BY <3>1, <1>1, <1>5
    <3>2. CASE u # t
      <4>1. msg'[u].id = msg[u].id /\ msg[u].id \in Nat /\ msg[u].id <= lastId
        BY <3>2, <2>1, <1>6
      <4> QED  BY ONLY <4>1, <1>1
    <3> QED  BY <3>1, <3>2
  <2>3. \A u \in Tasks \ {t} : msg'[u].id = msg[u].id
    BY <1>6
  <2>4. \A u \in Tasks \ {t} : id # 0 => msg[u].id # id
    BY <2>1, <1>1
  <2>5. \A v, u \in Tasks : v # u /\ msg[v].id # 0 => msg[u].id # msg[v].id
    BY DEF MuxInv, NumbersInv
  <2>6. ASSUME NEW v \in Tasks, NEW u \in Tasks, v # u, msg'[v].id # 0
        PROVE  msg'[u].id # msg'[v].id
    <3>1. CASE v = t
      BY <3>1, <2>3, <2>4, <2>6, <1>5
    <3>2. CASE u = t
      BY <3>2, <2>3, <2>4, <2>6, <1>5
    <3>3. CASE v # t /\ u # t
      BY <3>3, <2>3, <2>5, <2>6
    <3> QED  BY <3>1, <3>2, <3>3
  <2> QED  BY <2>2, <2>6 DEF NumbersInv
<1> QED  BY <1>7, <1>9, <1>10, <1>11 DEF MuxInv

\* A step that takes t's message on to the place l, having given it to the handlers g.
LEMMA MessageMoves ==
  ASSUME MuxInv, NEW t \in Tasks, NEW l, NEW g \in Seq(Nat),
         l \in {"start", "star", "http", "topic", "sent", "done", "panicked"},
         At(t, l), called' = [called EXCEPT ![t] = g], fatal' \in BOOLEAN,
         UNCHANGED <<handlers, adding, added, lastId, had>>, httpMux' = httpMux
  PROVE  /\ MuxTypes' /\ HandlersInv' /\ NumbersInv'
         /\ \A u \in Tasks \ {t} : GivenInv(u)'
         /\ msg'[t].at = l /\ msg'[t].topic = msg[t].topic /\ msg'[t].id = msg[t].id
         /\ called'[t] = g /\ had'[t] = had[t] /\ \A p : Now(p)' = Now(p) /\ Was(t, p)' = Was(t, p)
<1>1. msg \in [Tasks -> [at : {"start", "star", "http", "topic", "sent", "done", "panicked"},
                         http : BOOLEAN, topic : Topics \cup {NoTopic}, id : Nat]]
      /\ called \in [Tasks -> Seq(Nat)]
  BY DEF MuxInv, MuxTypes
<1>2. msg' = [msg EXCEPT ![t].at = l]
  BY DEF At
<1>3. msg'[t].at = l /\ msg'[t].topic = msg[t].topic /\ msg'[t].id = msg[t].id /\ called'[t] = g
  BY <1>1, <1>2
<1>4. \A u \in Tasks \ {t} : msg'[u] = msg[u] /\ called'[u] = called[u]
  BY <1>1, <1>2
<1>5. msg' \in [Tasks -> [at : {"start", "star", "http", "topic", "sent", "done", "panicked"},
                          http : BOOLEAN, topic : Topics \cup {NoTopic}, id : Nat]]
      /\ called' \in [Tasks -> Seq(Nat)]
  BY <1>1, <1>2, Zenon
<1>6. MuxTypes'
  BY <1>5 DEF MuxInv, MuxTypes
<1>7. HandlersInv' /\ \A u \in Tasks \ {t} : GivenInv(u)'
  BY <1>4, OneMessage DEF MuxFrame, OthersKept
<1>8. \A u \in Tasks : msg'[u].id = msg[u].id
  BY <1>3, <1>4
<1>9. NumbersInv'
  BY <1>8 DEF MuxInv, NumbersInv
<1>10. \A p : Now(p)' = Now(p) /\ Was(t, p)' = Was(t, p)
  BY DEF Now, Was
<1> QED  BY <1>3, <1>6, <1>7, <1>9, <1>10, Zenon

\* A request that is answered without a message, or after its message was handled.
LEMMA MuxAnswered ==
  ASSUME MuxInv, NEW t \in Tasks, AnsweredOnly(t) \/ MuxReturn(t), httpMux' = httpMux
  PROVE  MuxInv'
<1>1. called \in [Tasks -> Seq(Nat)] /\ GivenInv(t) /\ fatal \in BOOLEAN
  BY DEF MuxInv, MuxTypes
<1>2. called' = [called EXCEPT ![t] = called[t]] /\ called[t] \in Seq(Nat)
      /\ UNCHANGED <<handlers, adding, added, lastId, had>> /\ fatal' \in BOOLEAN
      /\ At(t, "done")
  BY <1>1 DEF AnsweredOnly, MuxReturn, At
<1>3. /\ MuxTypes' /\ HandlersInv' /\ NumbersInv'
      /\ \A u \in Tasks \ {t} : GivenInv(u)'
      /\ msg'[t].at = "done" /\ msg'[t].topic = msg[t].topic /\ called'[t] = called[t]
      /\ \A p : Now(p)' = Now(p) /\ Was(t, p)' = Was(t, p)
  BY <1>2, MessageMoves, Zenon
<1>4. msg[t].at = "sent" \/ msg[t].topic = NoTopic
  BY <1>1, Zenon DEF AnsweredOnly, MuxReturn, GivenInv
<1>5. Got(t)' = Got(t)
  BY <1>3 DEF Got
<1>6. GivenInv(t)'
  BY ONLY <1>1, <1>3, <1>4, <1>5, httpMux' = httpMux, Zenon DEF GivenInv
<1> QED  BY <1>3, <1>6 DEF MuxInv

\* HandleMessageForNode gives the message to the handlers for everything.
LEMMA MuxStar ==
  ASSUME MuxInv, NEW t \in Tasks, HandleStar(t), httpMux' = httpMux
  PROVE  MuxInv'
<1> DEFINE l == IF httpMux THEN "http" ELSE "topic"
<1>1. called \in [Tasks -> Seq(Nat)] /\ GivenInv(t) /\ "*" \in Paths /\ handlers["*"] \in Seq(Nat)
      /\ IsInjective(handlers["*"]) /\ httpMux \in BOOLEAN
  BY Zenon DEF MuxInv, MuxTypes, HandlersInv, Paths
<1>2. msg[t].at = "star" /\ called[t] = <<>> /\ msg[t].topic # NoTopic
  BY <1>1, Zenon DEF HandleStar, GivenInv
<1>3. called[t] \o handlers["*"] = handlers["*"]
  BY <1>1, <1>2
<1>4. called' = [called EXCEPT ![t] = handlers["*"]]
      /\ UNCHANGED <<handlers, adding, added, lastId, had>> /\ fatal' \in BOOLEAN
      /\ At(t, l) /\ l \in {"http", "topic"} /\ (httpMux <=> l = "http")
  BY <1>1, <1>3, Zenon DEF HandleStar, GiveTo, MapRead
<1> HIDE DEF l
<1>5. /\ MuxTypes' /\ HandlersInv' /\ NumbersInv'
      /\ \A u \in Tasks \ {t} : GivenInv(u)'
      /\ msg'[t].at = l /\ msg'[t].topic = msg[t].topic /\ called'[t] = handlers["*"]
      /\ \A p : Now(p)' = Now(p) /\ Was(t, p)' = Was(t, p)
  BY <1>1, <1>4, MessageMoves, Zenon
<1>6. Got(t)' = Now("*")
  BY <1>5, Zenon DEF Got, Now
<1>7. \A p \in Paths : Was(t, p) \subseteq Now(p)
  BY <1>1, Zenon DEF GivenInv
<1>8. GivenInv(t)'
  BY ONLY <1>1, <1>2, <1>4, <1>5, <1>6, <1>7, httpMux' = httpMux, Zenon DEF GivenInv
<1> QED  BY <1>5, <1>8 DEF MuxInv

\* The HTTP handler for the path takes the message: no other handler gets it.
LEMMA MuxHTTP ==
  ASSUME MuxInv, NEW t \in Tasks, NEW w \in BOOLEAN, HandleHTTP(t, w), httpMux' = httpMux
  PROVE  MuxInv'
<1> DEFINE l == IF w THEN "panicked" ELSE "sent"
<1>1. called \in [Tasks -> Seq(Nat)] /\ GivenInv(t) /\ msg[t].at = "http"
      /\ msg[t].topic \in Topics \cup {NoTopic}
  BY DEF MuxInv, MuxTypes, HandleHTTP
<1>2. called' = [called EXCEPT ![t] = called[t]] /\ called[t] \in Seq(Nat)
      /\ UNCHANGED <<handlers, adding, added, lastId, had>> /\ fatal' \in BOOLEAN
      /\ At(t, l) /\ l \in {"panicked", "sent"}
  BY <1>1 DEF HandleHTTP
<1> HIDE DEF l
<1>3. /\ MuxTypes' /\ HandlersInv' /\ NumbersInv'
      /\ \A u \in Tasks \ {t} : GivenInv(u)'
      /\ msg'[t].at = l /\ msg'[t].topic = msg[t].topic /\ called'[t] = called[t]
      /\ \A p : Now(p)' = Now(p) /\ Was(t, p)' = Was(t, p)
  BY <1>2, MessageMoves, Zenon
<1>4. Got(t)' = Got(t) /\ "*" \in Paths /\ "" \in Paths
  BY <1>3 DEF Got, Paths
<1>5. httpMux /\ Was(t, "*") \subseteq Got(t) /\ Got(t) \subseteq Now("*")
      /\ msg[t].topic # NoTopic
  BY <1>1 DEF GivenInv
<1>6. Got(t) \cap Now("") = {}
  BY <1>4, <1>5, Zenon DEF MuxInv, HandlersInv
<1>7. GivenInv(t)'
  BY ONLY <1>1, <1>2, <1>3, <1>4, <1>5, <1>6, httpMux' = httpMux, Zenon DEF GivenInv
<1> QED  BY <1>3, <1>7 DEF MuxInv

\* The handlers for the topic get the message, or, if there are none, those for what
\* nobody handles.
LEMMA MuxTopic ==
  ASSUME MuxInv, NEW t \in Tasks, HandleTopic(t), httpMux' = httpMux
  PROVE  MuxInv'
<1>0. PICK topic : topic = msg[t].topic
  OBVIOUS
<1>1. called \in [Tasks -> Seq(Nat)] /\ GivenInv(t) /\ msg[t].at = "topic"
      /\ topic \in Topics \cup {NoTopic} /\ handlers \in [Paths -> Seq(Nat)]
  BY <1>0, Zenon DEF MuxInv, MuxTypes, HandleTopic
<1>2. ~httpMux /\ Was(t, "*") \subseteq Got(t) /\ Got(t) \subseteq Now("*") /\ topic # NoTopic
      /\ IsInjective(called[t]) /\ (\A p \in Paths : Was(t, p) \subseteq Now(p))
  BY <1>0, <1>1 DEF GivenInv
<1>3. topic \in Paths /\ "*" \in Paths /\ "" \in Paths /\ topic # "*" /\ topic # "" /\ "*" # ""
  BY <1>1, <1>2, MuxAssumption, Zenon DEF Paths
<1>4. PICK q : q = IF handlers[topic] # <<>> THEN topic ELSE ""
  BY Zenon
<1>5. q \in {topic, ""} /\ q \in Paths /\ q # "*" /\ handlers[q] \in Seq(Nat)
  BY <1>1, <1>3, <1>4, Zenon
<1>6. /\ q = topic \/ (q = "" /\ Now(topic) = {})
      /\ q = "" => Now(topic) = {}
      /\ Now(topic) = {} => q = ""
  <2>1. handlers[topic] = <<>> <=> Now(topic) = {}
    <3>1. Range(<<>>) = {}
      BY DEF Range
    <3>2. handlers[topic] # <<>> => handlers[topic][1] \in Range(handlers[topic])
      <4>1. ASSUME NEW s \in Seq(Nat), s # <<>>
            PROVE  1 \in DOMAIN s
        BY <4>1
      <4> QED  BY <4>1, <1>1, <1>3, Zenon DEF Range
    <3> QED  BY <3>1, <3>2 DEF Now
  <2> QED  BY <2>1, <1>3, <1>4, Zenon
<1>7. (\A p, r \in Paths : p # r => Now(p) \cap Now(r) = {}) /\ IsInjective(handlers[q])
  BY <1>5, Zenon DEF MuxInv, HandlersInv
<1>8. Range(called[t]) \cap Range(handlers[q]) = {}
  <2>1. Now("*") \cap Now(q) = {}
    BY <1>3, <1>5, <1>7, Zenon
  <2> QED  BY <2>1, <1>2 DEF Got, Now
<1>9. called[t] \o handlers[q] \in Seq(Nat) /\ IsInjective(called[t] \o handlers[q])
      /\ Range(called[t] \o handlers[q]) = Got(t) \cup Now(q)
  BY <1>1, <1>2, <1>5, <1>7, <1>8, RangeJoined, Zenon DEF Got, Now
<1>10. called' = [called EXCEPT ![t] = called[t] \o handlers[q]]
       /\ UNCHANGED <<handlers, adding, added, lastId, had>> /\ fatal' \in BOOLEAN
       /\ At(t, "sent")
  BY <1>0, <1>1, <1>4, Zenon DEF HandleTopic, GiveTo, MapRead
<1>11. /\ MuxTypes' /\ HandlersInv' /\ NumbersInv'
       /\ \A u \in Tasks \ {t} : GivenInv(u)'
       /\ msg'[t].at = "sent" /\ msg'[t].topic = topic
       /\ called'[t] = called[t] \o handlers[q]
       /\ \A p : Now(p)' = Now(p) /\ Was(t, p)' = Was(t, p)
  BY <1>0, <1>9, <1>10, MessageMoves, Zenon
<1>12. Got(t)' = Got(t) \cup Now(q) /\ IsInjective(called'[t])
  BY <1>9, <1>11 DEF Got
<1>13. Now(topic) \subseteq Now(q)
  BY <1>6, Zenon
<1>14. (Got(t) \cup Now(q)) \cap Now("") # {} => Now(topic) = {}
  BY <1>2, <1>3, <1>6, <1>7, Zenon
<1>15. /\ Was(t, "*") \subseteq Got(t) \cup Now(q)
       /\ Got(t) \cup Now(q) \subseteq Now("*") \cup Now(topic) \cup Now("")
       /\ Was(t, topic) \subseteq Got(t) \cup Now(q)
       /\ (Got(t) \cup Now(q)) \cap Now("") # {} => Was(t, topic) = {}
       /\ Now(topic) = {} => Was(t, "") \subseteq Got(t) \cup Now(q)
  <2>1. Was(t, topic) \subseteq Now(topic) /\ Was(t, "") \subseteq Now("")
    BY <1>2, <1>3, Zenon
  <2>2. Now(q) \subseteq Now(topic) \cup Now("")
    BY <1>5, Zenon
  <2>3. (Got(t) \cup Now(q)) \cap Now("") # {} => Was(t, topic) = {}
    BY <2>1, <1>14, Zenon
  <2>4. Now(topic) = {} => Was(t, "") \subseteq Now(q)
    BY <2>1, <1>6, Zenon
  <2> QED  BY <2>1, <2>2, <2>3, <2>4, <1>2, <1>13, Zenon
<1>16. GivenInv(t)'
  BY ONLY <1>2, <1>11, <1>12, <1>15, httpMux' = httpMux, Zenon DEF GivenInv
<1> QED  BY <1>11, <1>16 DEF MuxInv

\* Every step of the mux.
LEMMA MuxStep ==
  ASSUME MuxInv, NextMux \/ UNCHANGED muxAll
  PROVE  MuxInv'
<1>1. CASE UNCHANGED muxAll
  <2>1. UNCHANGED <<httpMux, handlers, adding, added, lastId, msg, called, had, fatal>>
    BY <1>1 DEF muxAll, muxVars
  <2> QED  BY <2>1, Zenon DEF MuxInv, MuxTypes, HandlersInv, GivenInv, NumbersInv, Now, Was, Got
<1>2. CASE NextMux
  <2>1. httpMux' = httpMux /\ ((\E p \in Paths : AddStart(p)) \/ AddHandler \/ (\E t \in Tasks : Task(t)))
    BY <1>2 DEF NextMux
  <2>2. ASSUME NEW p \in Paths, AddStart(p)
        PROVE  MuxInv'
    BY <2>1, <2>2, MuxAddStart
  <2>3. ASSUME AddHandler
        PROVE  MuxInv'
    BY <2>1, <2>3, MuxAddHandler
  <2>4. ASSUME NEW t \in Tasks, Task(t)
        PROVE  MuxInv'
    <3>1. ASSUME NEW http \in BOOLEAN, NEW topic \in Topics \cup {NoTopic},
                 NEW numbered \in BOOLEAN, MuxMessage(t, http, topic, numbered)
          PROVE  MuxInv'
      BY <2>1, <3>1, MuxMessageStep
    <3>2. CASE MuxSend(t) \/ FromStream(t) \/ HTTPHandlerSend(t) \/ HTTPHandlerWebpush(t)
      <4>1. CASE AnsweredOnly(t)
        BY <4>1, <2>1, MuxAnswered
      <4>2. CASE MuxSend(t) \/ FromStream(t)
        BY <4>2, <3>1, Zenon DEF MuxSend, FromStream
      <4> QED  BY <4>1, <4>2, <3>1, <3>2, Zenon DEF HTTPHandlerSend, HTTPHandlerWebpush
    <3>3. CASE HandleStar(t)
      BY <3>3, <2>1, MuxStar
    <3>4. ASSUME NEW w \in BOOLEAN, HandleHTTP(t, w)
          PROVE  MuxInv'
      BY <3>4, <2>1, MuxHTTP
    <3>5. CASE HandleTopic(t)
      BY <3>5, <2>1, MuxTopic
    <3>6. CASE MuxReturn(t)
      BY <3>6, <2>1, MuxAnswered
    <3> QED  BY <3>2, <3>3, <3>4, <3>5, <3>6, <2>4 DEF Task
  <2> QED  BY <2>1, <2>2, <2>3, <2>4
<1> QED  BY <1>1, <1>2

\* However handlers are added while messages are handled, for any topics and any number
\* of messages and handlers, a message that HandleMessageForNode handled went once to
\* each handler meant for it that was there when it came, and to no other.
THEOREM MessagesHandledOnce == SpecMux => []HandledOnce
<1>1. ASSUME MuxInv
      PROVE  HandledOnce
  <2>1. ASSUME NEW t \in Tasks, msg[t].at = "done"
        PROVE  IsInjective(called[t]) /\ GivenInv(t)
    BY <1>1, Zenon DEF MuxInv, GivenInv
  <2>2. Range(<<>>) = {}
    BY DEF Range
  <2>3. \A t, u \in Tasks : t # u /\ msg[t].id # 0 => msg[u].id # msg[t].id
    BY <1>1 DEF MuxInv, NumbersInv
  <2> QED  BY <2>1, <2>2, <2>3, Zenon DEF HandledOnce, GivenInv, Now, Was, Got
<1> QED  BY <1>1, MuxInit, MuxStep, PTL DEF SpecMux

-----------------------------------------------------------------------------
(***************************************************************************)
(* HttpForward: the headers of the request that goes upstream.             *)
(***************************************************************************)

Finite == INSTANCE FiniteSetTheorems

\* Induction over the natural numbers, for a set: were k not in T, the numbers up to k
\* that are in T would be closed under n + 1, an injection that never gives 0.
LEMMA NatSetInduction ==
  ASSUME NEW T, 0 \in T, \A n \in Nat : n \in T => n + 1 \in T, NEW k \in Nat
  PROVE  k \in T
<1> SUFFICES ASSUME k \notin T PROVE FALSE
  OBVIOUS
<1> DEFINE S == {n \in 0..k : n \in T}
           f == [n \in S |-> n + 1]
<1>1. Finite!IsFiniteSet(S)
  BY Finite!FS_Interval, Finite!FS_Subset, 0 \in Int, k \in Int, Zenon
<1>2. \A n \in S : n + 1 \in S
  <2> SUFFICES ASSUME NEW n \in S PROVE n + 1 \in S
    OBVIOUS
  <2>1. n \in Nat /\ n \in T /\ n <= k /\ n # k
    OBVIOUS
  <2> QED BY <2>1
<1>3. f \in Finite!Injection(S, S)
  BY <1>2 DEF Finite!Injection, Finite!IsInjective
<1>4. f \in Finite!Surjection(S, S)
  BY <1>1, <1>3, Finite!FS_Injection
<1>5. 0 \in S
  OBVIOUS
<1>6. PICK n \in S : f[n] = 0
  BY <1>4, <1>5, Zenon DEF Finite!Surjection
<1> QED BY <1>6

RequestTypes == reqHdr \in [Names -> Vals] /\ listed \in Seq(Names)

\* The names that Connection lists.
LEMMA ListedSeq ==
  ASSUME RequestTypes
  PROVE  /\ Len(listed) \in Nat /\ DOMAIN listed = 1..Len(listed)
         /\ \A k \in 1..Len(listed) : listed[k] \in Names
  BY DEF RequestTypes

\* The hop-by-hop names.
LEMMA HopSeq ==
  /\ Len(Hop) \in Nat /\ DOMAIN Hop = 1..Len(Hop)
  /\ \A k \in 1..Len(Hop) : Hop[k] \in Names
  BY HttpForwardAssumption DEF Names, Range

\* The header after the first k listed names were deleted.
AfterListed(k) ==
  [hdr |-> [n \in Names |-> IF \E j \in 1..k : listed[j] = n THEN "absent" ELSE reqHdr[n]],
   copied |-> (k > 0)]

\* One deletion of the first loop.
LEMMA AfterListedStep ==
  ASSUME RequestTypes, NEW k \in 1..Len(listed)
  PROVE  AfterListed(k) = Del(AfterListed(k - 1), listed[k])
<1> DEFINE s == listed
           hdr(i) == [n \in Names |-> IF \E j \in 1..i : s[j] = n THEN "absent" ELSE reqHdr[n]]
<1>1. Len(listed) \in Nat /\ s[k] \in Names /\ k \in Nat /\ k >= 1
  BY ListedSeq DEF RequestTypes
<1>2. \A j : j \in 1..k <=> j \in 1..(k - 1) \/ j = k
  BY <1>1
<1> HIDE DEF s
<1>3. hdr(k) = [hdr(k - 1) EXCEPT ![s[k]] = "absent"]
  BY <1>1, <1>2, Zenon
<1>4. CASE k = 1
  <2>1. ~(k - 1 > 0) /\ k > 0 /\ 1..(k - 1) = {}
    BY <1>4
  <2>2. hdr(k - 1) = reqHdr
    BY <2>1 DEF RequestTypes
  <2> USE DEF s
  <2> QED BY <1>3, <2>1, <2>2, Zenon DEF AfterListed, Del
<1>5. CASE k # 1
  <2>1. k - 1 > 0 /\ k > 0
    BY <1>1, <1>5
  <2> USE DEF s
  <2> QED BY <1>3, <2>1, Zenon DEF AfterListed, Del
<1> QED BY <1>4, <1>5

\* The header after k deletions of the first loop.
LEMMA UnlistedIs ==
  ASSUME RequestTypes, NEW k \in 0..Len(listed)
  PROVE  Unlisted[k] = AfterListed(k)
<1> DEFINE N == Len(listed)
           s == listed
           start == [hdr |-> reqHdr, copied |-> FALSE]
           g == [i \in 0..N |-> AfterListed(i)]
<1>1. N \in Nat
  BY ListedSeq
<1>2. AfterListed(0) = start
  <2>1. 1..0 = {} /\ (0 > 0) = FALSE
    OBVIOUS
  <2>2. [n \in Names |-> IF \E j \in 1..0 : s[j] = n THEN "absent" ELSE reqHdr[n]] = reqHdr
    BY <2>1 DEF RequestTypes
  <2> QED BY <2>1, <2>2, Zenon DEF AfterListed
<1>3. \A i \in 1..N : AfterListed(i) = Del(AfterListed(i - 1), s[i])
  BY AfterListedStep
<1>4. \A i \in 0..N : i # 0 => i \in 1..N /\ i - 1 \in 0..N
  BY <1>1
<1> HIDE DEF s, N, start
<1>5. g = [i \in 0..N |-> IF i = 0 THEN start ELSE Del(g[i - 1], s[i])]
  BY <1>2, <1>3, <1>4
<1>6. \E h : h = [i \in 0..N |-> IF i = 0 THEN start ELSE Del(h[i - 1], s[i])]
  BY <1>5, Zenon
<1>7. Unlisted = [i \in 0..N |-> IF i = 0 THEN start ELSE Del(Unlisted[i - 1], s[i])]
  BY <1>6, Zenon DEF Unlisted, N, s, start
<1> DEFINE T == {i \in Nat : i \in 0..N => Unlisted[i] = AfterListed(i)}
<1>8. 0 \in T
  BY <1>1, <1>2, <1>7
<1>9. ASSUME NEW i \in Nat, i \in T PROVE i + 1 \in T
  <2> SUFFICES ASSUME i + 1 \in 0..N PROVE Unlisted[i + 1] = AfterListed(i + 1)
    OBVIOUS
  <2>1. i \in 0..N /\ i + 1 \in 1..N /\ (i + 1) - 1 = i /\ i + 1 # 0
    BY <1>1
  <2>2. Unlisted[i] = AfterListed(i)
    BY <1>9, <2>1
  <2> QED BY <1>3, <1>7, <2>1, <2>2
<1>10. k \in Nat /\ k \in 0..N
  BY <1>1 DEF N
<1> HIDE DEF T
<1>11. k \in T
  BY <1>8, <1>9, <1>10, NatSetInduction
<1> QED BY <1>10, <1>11 DEF T

\* The header after the first k of hopHeaders as well.
Gone(n, k) == n \in Range(listed) \/ (reqHdr[n] = "set" /\ \E j \in 1..k : Hop[j] = n)
AfterHop(k) ==
  [hdr |-> [n \in Names |-> IF Gone(n, k) THEN "absent" ELSE reqHdr[n]],
   copied |-> \E n \in Names : Gone(n, k)]

\* One deletion of the second loop.
LEMMA AfterHopStep ==
  ASSUME RequestTypes, NEW k \in 1..Len(Hop)
  PROVE  AfterHop(k) = DelIfSet(AfterHop(k - 1), Hop[k])
<1> DEFINE x == Hop[k]
           hdr(i) == [n \in Names |-> IF Gone(n, i) THEN "absent" ELSE reqHdr[n]]
           cop(i) == \E n \in Names : Gone(n, i)
<1>1. Len(Hop) \in Nat /\ k \in Nat /\ k >= 1 /\ x \in Names
  BY HopSeq
<1>2. \A j : j \in 1..k <=> j \in 1..(k - 1) \/ j = k
  BY <1>1
<1>3. \A n : Gone(n, k) <=> Gone(n, k - 1) \/ (reqHdr[n] = "set" /\ n = x)
  BY <1>2 DEF Gone
<1>4. reqHdr \in [Names -> Vals]
  BY DEF RequestTypes
<1>5. hdr(k - 1)[x] = "set" <=> ~Gone(x, k - 1) /\ reqHdr[x] = "set"
  BY <1>1
<1> HIDE DEF x
<1>6. CASE hdr(k - 1)[x] = "set"
  <2>1. hdr(k) = [hdr(k - 1) EXCEPT ![x] = "absent"]
    BY <1>1, <1>3, <1>5, <1>6, Zenon
  <2>2. ~cop(k - 1) => hdr(k - 1) = reqHdr
    BY <1>4
  <2>3. cop(k) = TRUE
    BY <1>1, <1>3, <1>5, <1>6
  <2>4. Del(AfterHop(k - 1), x) = [hdr |-> [hdr(k - 1) EXCEPT ![x] = "absent"], copied |-> TRUE]
    BY <2>2, Zenon DEF AfterHop, Del
  <2>5. AfterHop(k) = [hdr |-> hdr(k), copied |-> TRUE]
    BY <2>3, Zenon DEF AfterHop
  <2>6. AfterHop(k - 1).hdr[x] = "set"
    BY <1>6 DEF AfterHop
  <2> QED BY <2>1, <2>4, <2>5, <2>6, Zenon DEF DelIfSet, x
<1>7. CASE hdr(k - 1)[x] # "set"
  <2>1. \A n : Gone(n, k) <=> Gone(n, k - 1)
    BY <1>3, <1>5, <1>7
  <2>2. hdr(k) = hdr(k - 1) /\ cop(k) = cop(k - 1)
    BY <2>1
  <2>3. AfterHop(k) = AfterHop(k - 1)
    BY <2>2, Zenon DEF AfterHop
  <2>4. AfterHop(k - 1).hdr[x] # "set"
    BY <1>7 DEF AfterHop
  <2> QED BY <2>3, <2>4 DEF DelIfSet, x
<1> QED BY <1>6, <1>7

\* The header after k deletions of the second loop.
LEMMA StrippedIs ==
  ASSUME RequestTypes, NEW k \in 0..Len(Hop)
  PROVE  Stripped[k] = AfterHop(k)
<1> DEFINE N == Len(Hop)
           start == Unlisted[Len(listed)]
           g == [i \in 0..N |-> AfterHop(i)]
<1>1. N \in Nat
  BY HopSeq
<1>2. AfterHop(0) = start
  <2> DEFINE c == Len(listed)
  <2>1. c \in Nat /\ c \in 0..c
    BY ListedSeq
  <2>2. start = AfterListed(c)
    BY <2>1, UnlistedIs
  <2>3. \A n : n \in Range(listed) <=> \E j \in 1..c : listed[j] = n
    BY ListedSeq DEF Range
  <2>4. \A n : Gone(n, 0) <=> n \in Range(listed)
    BY DEF Gone
  <2>5. (c > 0) = \E n \in Names : Gone(n, 0)
    <3>1. c > 0 => \E n \in Names : Gone(n, 0)
      <4> SUFFICES ASSUME c > 0 PROVE \E n \in Names : Gone(n, 0)
        OBVIOUS
      <4>1. 1 \in 1..c
        BY <2>1
      <4>2. listed[1] \in Names /\ listed[1] \in Range(listed)
        BY <2>3, <4>1, ListedSeq
      <4> QED BY <2>4, <4>2
    <3>2. ~(c > 0) => ~\E n \in Names : Gone(n, 0)
      <4>1. ~(c > 0) => 1..c = {}
        BY <2>1
      <4> QED BY <2>3, <2>4, <4>1
    <3> DEFINE P == c > 0
               Q == \E n \in Names : Gone(n, 0)
    <3>3. P \in BOOLEAN /\ Q \in BOOLEAN /\ (P => Q) /\ (~P => ~Q)
      BY <2>1, <3>1, <3>2
    <3> HIDE DEF P, Q
    <3>4. P = Q
      BY <3>3
    <3> QED BY <3>4, Zenon DEF P, Q
  <2> HIDE DEF c
  <2>6. [n \in Names |-> IF Gone(n, 0) THEN "absent" ELSE reqHdr[n]]
          = [n \in Names |-> IF \E j \in 1..c : listed[j] = n THEN "absent" ELSE reqHdr[n]]
    BY <2>3, <2>4
  <2> QED BY <2>2, <2>5, <2>6, Zenon DEF AfterHop, AfterListed
<1>3. \A i \in 1..N : AfterHop(i) = DelIfSet(AfterHop(i - 1), Hop[i])
  BY AfterHopStep
<1>4. \A i \in 0..N : i # 0 => i \in 1..N /\ i - 1 \in 0..N
  BY <1>1
<1> HIDE DEF N, start
<1>5. g = [i \in 0..N |-> IF i = 0 THEN start ELSE DelIfSet(g[i - 1], Hop[i])]
  BY <1>2, <1>3, <1>4
<1>6. \E h : h = [i \in 0..N |-> IF i = 0 THEN start ELSE DelIfSet(h[i - 1], Hop[i])]
  BY <1>5, Zenon
<1>7. Stripped = [i \in 0..N |-> IF i = 0 THEN start ELSE DelIfSet(Stripped[i - 1], Hop[i])]
  BY <1>6, Zenon DEF Stripped, N, start
<1> DEFINE T == {i \in Nat : i \in 0..N => Stripped[i] = AfterHop(i)}
<1>8. 0 \in T
  BY <1>1, <1>2, <1>7
<1>9. ASSUME NEW i \in Nat, i \in T PROVE i + 1 \in T
  <2> SUFFICES ASSUME i + 1 \in 0..N PROVE Stripped[i + 1] = AfterHop(i + 1)
    OBVIOUS
  <2>1. i \in 0..N /\ i + 1 \in 1..N /\ (i + 1) - 1 = i /\ i + 1 # 0
    BY <1>1
  <2>2. Stripped[i] = AfterHop(i)
    BY <1>9, <2>1
  <2> QED BY <1>3, <1>7, <2>1, <2>2
<1>10. k \in Nat /\ k \in 0..N
  BY <1>1 DEF N
<1> HIDE DEF T
<1>11. k \in T
  BY <1>8, <1>9, <1>10, NatSetInduction
<1> QED BY <1>10, <1>11 DEF T

\* The header of the upstream request, name by name.
LEMMA UpstreamIs ==
  ASSUME RequestTypes, NEW n \in Names
  PROVE  CreateUpstreamRequest[n] = IF n \in Range(listed) \/ (n \in Range(Hop) /\ reqHdr[n] = "set")
                                    THEN "absent" ELSE reqHdr[n]
<1>1. CreateUpstreamRequest = AfterHop(Len(Hop)).hdr
  BY HopSeq, StrippedIs DEF CreateUpstreamRequest
<1>2. CreateUpstreamRequest[n] = IF Gone(n, Len(Hop)) THEN "absent" ELSE reqHdr[n]
  BY <1>1 DEF AfterHop
<1>3. Gone(n, Len(Hop)) <=> n \in Range(listed) \/ (n \in Range(Hop) /\ reqHdr[n] = "set")
  BY HopSeq DEF Gone, Range
<1> QED BY <1>2, <1>3

\* CreateUpstreamRequest: the request that goes upstream has lost the hop-by-hop headers that
\* carry a value and the ones the client's Connection header lists, for any header and any
\* list of names, in whatever order they are deleted, and nothing else.
THEOREM UpstreamHeadersStripped == SpecForward => []UpstreamHeaders
<1> DEFINE Inv == RequestTypes /\ UpstreamHeaders
<1>1. InitForward => Inv
  <2> SUFFICES ASSUME InitForward PROVE Inv
    OBVIOUS
  <2>1. PICK k \in 0..MaxListed : listed \in [1..k -> Names]
    BY DEF InitForward
  <2>2. listed \in Seq(Names)
    BY <2>1, HttpForwardAssumption
  <2> QED BY <2>2 DEF InitForward, RequestTypes, UpstreamHeaders
<1>2. Inv /\ [NextForward]_fwdAll => Inv'
  <2> SUFFICES ASSUME Inv, [NextForward]_fwdAll PROVE Inv'
    OBVIOUS
  <2>1. reqHdr' = reqHdr /\ listed' = listed
    BY DEF NextForward, fwdAll
  <2>2. \/ UNCHANGED <<fpc, upHdr>>
        \/ fpc' # "forward"
        \/ fpc' = "forward" /\ upHdr' = CreateUpstreamRequest
    BY DEF NextForward, fwdAll, fwdVars, Discover, RoundTripFails, SendBackResponse, CopyBody,
           CopyFails, CopyEnds, HandlerReturns
  <2>3. \A n \in Names : CreateUpstreamRequest[n] =
          IF n \in Range(listed) \/ (n \in Range(Hop) /\ reqHdr[n] = "set")
          THEN "absent" ELSE reqHdr[n]
    BY UpstreamIs
  <2> QED BY <2>1, <2>2, <2>3 DEF RequestTypes, UpstreamHeaders
<1>3. Inv => UpstreamHeaders
  OBVIOUS
<1> QED BY <1>1, <1>2, <1>3, PTL DEF SpecForward
=============================================================================
