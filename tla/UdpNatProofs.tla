---------------------------- MODULE UdpNatProofs ----------------------------
(***************************************************************************)
(* Proofs about the UDP NAT (UdpNat): for any number of clients,           *)
(* destinations, ports and goroutines, and any number of packets, the      *)
(* table ActiveUdp stays exact and replies reach their client from the     *)
(* address it has sent to.                                                 *)
(***************************************************************************)
EXTENDS UdpNat, TLAPS

\* Time for each leaf of the proofs.
USE SMTT(30), ZenonT(20)

\* Where HandleUdp and forwardReadLoop have a packet, and where a socket too.
Holding  == {"insert", "stamp", "send"}
Handling == {"lookup", "listen"} \cup Holding

\* ... and where the packet is still to be written.
Unsent == IF mode = "forward" THEN Holding ELSE {"insert", "send"}

\* A handler has the packet it was called for, and after its lookup or its
\* ListenUDP a socket with a UdpNat; the one it is about to insert is its own.
WorkersOK ==
  \A w \in Workers :
    /\ pc[w] \in Handling => pkt[w] \in Packets
    /\ pc[w] \in Holding => mine[w] \in Socks /\ nat[mine[w]] # NoNat
    /\ pc[w] = "insert" =>
         /\ nat[mine[w]].local = Local(pkt[w])
         /\ sock[mine[w]] = "open"
         /\ \A a \in Addrs : active[a] # mine[w]
         /\ \A v \in Workers : v # w /\ pc[v] = "insert" => mine[v] # mine[w]

\* A port that ListenUDP may still return has no UdpNat, and one that was
\* written to has.
PortsOK ==
  /\ \A s \in Socks : sock[s] = "free" => nat[s] = NoNat
  /\ \A m \in sent : nat[m.sock] # NoNat

\* forwardReadLoop and the TUN call the handler for one packet at a time, so
\* nothing is filed under its client between its lookup and its insertion.
OneAtATime ==
  mode # "tproxy" =>
    /\ \A v, w \in Workers : pc[v] # "ready" /\ pc[w] # "ready" => v = w
    /\ \A w \in Workers : pc[w] \in {"listen", "insert"} => active[Local(pkt[w])] = None

\* The packet a UdpNat was made for.
MadeFor(s, p) == p.src = nat[s].local /\ p.dst = nat[s].seenAs

\* It was written, or its handler is about to.
Written(s) == \E m \in sent : m.sock = s /\ MadeFor(s, m.pkt)
Pending(s) == \E w \in Workers : mine[w] = s /\ pc[w] \in Unsent /\ MadeFor(s, pkt[w])

\* No packet leaves through a port before the one it was opened for.
FirstPacket ==
  mode # "tproxy" =>
    /\ \A s \in Socks : sock[s] = "open" /\ nat[s] # NoNat => Written(s) \/ Pending(s)
    /\ \A m \in sent : Written(m.sock)

IInv ==
  /\ TypeOK /\ TableExact /\ RepliesMatch
  /\ WorkersOK /\ PortsOK /\ OneAtATime /\ FirstPacket

-----------------------------------------------------------------------------
\* Facts about the constants and the helpers.

\* A new entry is none of the placeholders.
LEMMA NoNatNew ==
  ASSUME TypeOK, NEW p \in Packets
  PROVE  /\ NewNat(p) \in [local : Addrs, dest : Addrs, seenAs : Addrs]
         /\ NewNat(p) # NoNat
         /\ Local(p) \in Addrs
         /\ NewNat(p).local = Local(p) /\ NewNat(p).seenAs = Dst(p)
BY UdpNatAssumption DEF NewNat, NoNat, Packets, Local, Dst, Addrs

\* No packet is the placeholder.
LEMMA NoPacketNew == NoPacket \notin Packets
BY UdpNatAssumption DEF NoPacket, Packets

\* Leaving a handler forgets its packet and its socket, and touches no other.
LEMMA ProceedType ==
  ASSUME TypeOK, NEW t \in Threads, NEW l \in Labels, Proceed(t, l)
  PROVE  /\ pc' \in [Threads -> Labels]
         /\ pkt' \in [Workers -> Packets \cup {NoPacket}]
         /\ mine' \in [Workers -> Socks \cup {None}]
         /\ pc'[t] = l
         /\ \A u \in Threads : u # t => pc'[u] = pc[u]
         /\ \A v \in Workers : v # t \/ l # "ready" => pkt'[v] = pkt[v] /\ mine'[v] = mine[v]
BY DEF TypeOK, Proceed, Goto, Threads, Timer

-----------------------------------------------------------------------------
\* Type correctness, action by action.

\* The initial types.
LEMMA InitTypeOK == Init => TypeOK
<1> SUFFICES ASSUME Init PROVE TypeOK
  OBVIOUS
<1>1. received \in 0..MaxPackets
  BY UdpNatAssumption DEF Init
<1>2. /\ idle \in [Socks -> BOOLEAN] /\ shut \in BOOLEAN /\ crashed \in BOOLEAN
      /\ victims \in [Threads -> SUBSET Addrs]
  BY Zenon DEF Init
<1> QED
  BY <1>1, <1>2 DEF Init, TypeOK, Labels

\* The types after a step of a worker.
LEMMA HandleTypeOK ==
  ASSUME IInv, NEW w \in Workers, Handle(w), UNCHANGED <<mode, shut>>
  PROVE  TypeOK'
<1> USE UdpNatAssumption DEF IInv
<1>0. w \in Threads /\ pc[w] \in Labels
  BY DEF Threads, TypeOK
<1>1. CASE Drop(w)
  <2>1. Proceed(w, "ready") /\ "ready" \in Labels BY <1>1 DEF Drop, Labels
  <2> QED BY <1>0, <1>1, <2>1, ProceedType DEF Drop, TypeOK, tableVars
<1>2. CASE Lookup(w)
  <2>1. pkt[w] \in Packets
    BY <1>2 DEF Lookup, WorkersOK, Handling
  <2>2. active[Local(pkt[w])] \in Socks \cup {None}
    BY <2>1, NoNatNew DEF TypeOK
  <2>3. pc' \in [Threads -> Labels]
    BY <1>0, <1>2 DEF Lookup, Goto, TypeOK, Labels
  <2> QED BY <1>2, <2>2, <2>3 DEF Lookup, TypeOK, tableVars
<1>3. CASE Listen(w)
  <2>1. pkt[w] \in Packets
    BY <1>3 DEF Listen, WorkersOK, Handling
  <2>2. NewNat(pkt[w]) \in [local : Addrs, dest : Addrs, seenAs : Addrs]
    BY <2>1, NoNatNew
  <2>3. pc' \in [Threads -> Labels]
    BY <1>0, <1>3 DEF Listen, Goto, TypeOK, Labels
  <2> QED BY <1>3, <2>2, <2>3 DEF Listen, TypeOK, tableVars
<1>4. CASE ListenFails(w)
  <2> DEFINE l == IF mode = "forward" THEN "ready" ELSE "mark"
  <2>1. Proceed(w, l) /\ l \in Labels BY <1>4 DEF ListenFails, Labels
  <2> QED BY <1>0, <1>4, <2>1, ProceedType DEF ListenFails, TypeOK, tableVars
<1>5. CASE ResolveFails(w)
  <2>1. Proceed(w, "ready") /\ "ready" \in Labels BY <1>5 DEF ResolveFails, Labels
  <2> QED BY <1>0, <1>5, <2>1, ProceedType DEF ResolveFails, TypeOK, tableVars
<1>6. CASE Insert(w)
  <2> DEFINE l == IF mode = "forward" THEN "stamp" ELSE "send"
  <2>1. Proceed(w, l) /\ l \in Labels BY <1>6 DEF Insert, Labels
  <2>2. mine[w] \in Socks
    BY <1>6 DEF Insert, WorkersOK, Holding
  <2> QED BY <1>0, <1>6, <2>1, <2>2, ProceedType, Zenon DEF Insert, TypeOK, tableVars
<1>7. CASE Stamp(w)
  <2> DEFINE l == IF mode = "forward" THEN "send" ELSE "ready"
  <2>1. Proceed(w, l) /\ l \in Labels BY <1>7 DEF Stamp, Labels
  <2> QED BY <1>0, <1>7, <2>1, ProceedType, Zenon DEF Stamp, TypeOK, tableVars
<1>8. CASE Send(w)
  <2> DEFINE l == IF mode = "forward" THEN "ready" ELSE "stamp"
  <2>1. Proceed(w, l) /\ l \in Labels BY <1>8 DEF Send, Labels
  <2>2. mine[w] \in Socks /\ pkt[w] \in Packets
    BY <1>8 DEF Send, WorkersOK, Holding, Handling
  <2>3. sent' \subseteq [pkt : Packets, sock : Socks]
    BY <1>8, <2>2 DEF Send, TypeOK
  <2> QED BY <1>0, <1>8, <2>1, <2>3, ProceedType DEF Send, TypeOK, tableVars
<1> QED
  BY <1>1, <1>2, <1>3, <1>4, <1>5, <1>6, <1>7, <1>8 DEF Handle

\* The types after any other step.
LEMMA OthersTypeOK ==
  ASSUME IInv, Next, ~ \E w \in Workers : Handle(w)
  PROVE  TypeOK'
<1> USE UdpNatAssumption DEF IInv
<1>0. UNCHANGED mode /\ Timer \in Threads
  BY DEF Next, Threads
<1>1. CASE Close
  BY <1>0, <1>1 DEF Close, TypeOK, threadVars
<1>2. ASSUME UNCHANGED shut, NEW w \in Workers, NEW src \in Clients, NEW dst \in Dests,
             Receive(w, src, dst)
      PROVE  TypeOK'
  <2>1. w \in Threads BY DEF Threads
  <2> QED BY <1>0, <1>2, <2>1 DEF Receive, TypeOK, tableVars, Goto, Labels, Packets
<1>3. CASE UNCHANGED shut /\ Periodic
  <2>1. Proceed(Timer, "mark") /\ "mark" \in Labels BY <1>3 DEF Periodic, Labels
  <2> QED BY <1>0, <1>3, <2>1, ProceedType DEF Periodic, TypeOK, tableVars
<1>4. ASSUME UNCHANGED shut, NEW t \in Threads, MarkIdle(t)
      PROVE  TypeOK'
  <2> DEFINE l == IF \A a \in Addrs : active[a] = None THEN "ready" ELSE "close"
  <2>1. Proceed(t, l) /\ l \in Labels BY <1>4 DEF MarkIdle, Labels
  <2> QED BY <1>0, <1>4, <2>1, ProceedType DEF MarkIdle, TypeOK, tableVars
<1>5. ASSUME UNCHANGED shut, NEW t \in Threads, CloseIdle(t)
      PROVE  TypeOK'
  <2>1. Proceed(t, "ready") /\ "ready" \in Labels BY <1>5 DEF CloseIdle, Labels
  <2>2. active' \in [Addrs -> Socks \cup {None}] /\ sock' \in [Socks -> {"free", "open", "closed"}]
    BY <1>5 DEF CloseIdle, TypeOK
  <2> QED BY <1>0, <1>5, <2>1, <2>2, ProceedType, Zenon DEF CloseIdle, TypeOK
<1>6. ASSUME UNCHANGED shut, NEW s \in Socks, Reply(s)
      PROVE  TypeOK'
  <2>1. nat[s] \in [local : Addrs, dest : Addrs, seenAs : Addrs]
    BY <1>6 DEF Reply, TypeOK, PortsOK
  <2> QED BY <1>0, <1>6, <2>1 DEF Reply, TypeOK, tableVars, threadVars
<1>7. ASSUME UNCHANGED shut, NEW s \in Socks, TimePasses(s)
      PROVE  TypeOK'
  BY <1>0, <1>7 DEF TimePasses, TypeOK, threadVars
<1> QED
  BY <1>1, <1>2, <1>3, <1>4, <1>5, <1>6, <1>7 DEF Next, FreeIdleSockets

-----------------------------------------------------------------------------
\* The other conjuncts, action by action.

Safety == TableExact /\ RepliesMatch /\ WorkersOK /\ PortsOK /\ OneAtATime /\ FirstPacket

\* A step of one handler that does not make it insert, in a table that stays as it is.
LEMMA WorkersFrame ==
  ASSUME WorkersOK, UNCHANGED <<mode, active, sock, nat>>, NEW w \in Workers,
         \A v \in Workers : v # w => pc'[v] = pc[v] /\ pkt'[v] = pkt[v] /\ mine'[v] = mine[v],
         pc'[w] # "insert",
         pc'[w] \in Handling => pkt'[w] \in Packets,
         pc'[w] \in Holding => mine'[w] \in Socks /\ nat[mine'[w]] # NoNat
  PROVE  WorkersOK'
<1> SUFFICES ASSUME NEW v \in Workers PROVE WorkersOK!(v)'
  BY DEF WorkersOK
<1>1. CASE v = w
  BY <1>1
<1>2. CASE v # w
  <2>1. WorkersOK!(v)
    BY DEF WorkersOK
  <2>2. pc'[v] = pc[v] /\ pkt'[v] = pkt[v] /\ mine'[v] = mine[v]
    BY <1>2
  <2>3. \A u \in Workers : pc'[u] = "insert" => pc[u] = "insert" /\ mine'[u] = mine[u]
    OBVIOUS
  <2> QED BY <2>1, <2>2, <2>3 DEF Local
<1> QED BY <1>1, <1>2

\* A socket is filed as long as the table and the inserting handlers stay as they are.
LEMMA TableFrame ==
  ASSUME TableExact, UNCHANGED <<mode, shut, active, sock, nat>>,
         \A v \in Workers : pc[v] = "insert" => pc'[v] = "insert" /\ mine'[v] = mine[v]
  PROVE  TableExact'
<1>1. \A x \in Socks : InFlight(x) => InFlight(x)'
  BY DEF InFlight
<1> QED BY <1>1 DEF TableExact

\* The packets written, and those a handler is about to write, stay as they are.
LEMMA FirstPacketFrame ==
  ASSUME FirstPacket, sent \subseteq [pkt : Packets, sock : Socks],
         UNCHANGED <<mode, nat, sent>>,
         \A x \in Socks : sock'[x] = "open" /\ nat[x] # NoNat => sock[x] = "open",
         \A v \in Workers : pc[v] \in Unsent =>
            pc'[v] \in Unsent /\ pkt'[v] = pkt[v] /\ mine'[v] = mine[v]
  PROVE  FirstPacket'
<1>0. Unsent' = Unsent
  BY DEF Unsent, Holding
<1>1. \A x \in Socks : Written(x)' <=> Written(x)
  BY DEF Written, MadeFor
<1>2. \A x \in Socks : Pending(x) => Pending(x)'
  BY <1>0 DEF Pending, MadeFor
<1>3. \A m \in sent : m.sock \in Socks
  OBVIOUS
<1> QED BY <1>1, <1>2, <1>3 DEF FirstPacket

\* A goroutine that holds no socket moves between its loop and FreeIdleSockets:
\* Drop, ListenFails, Periodic, MarkIdle, and a CloseIdle that panics.
LEMMA QuietSafe ==
  ASSUME IInv, TypeOK', NEW t \in Threads, NEW l \in {"ready", "mark", "close"},
         Proceed(t, l), pc[t] \notin Holding, pc[t] # "ready" \/ t = Timer,
         UNCHANGED <<mode, shut, active, sock, nat, sent, replies>>
  PROVE  Safety'
<1> USE DEF IInv
<1>0. /\ l \in Labels /\ pc'[t] = l
      /\ \A u \in Threads : u # t => pc'[u] = pc[u]
      /\ \A v \in Workers : v # t \/ l # "ready" => pkt'[v] = pkt[v] /\ mine'[v] = mine[v]
      /\ Workers \subseteq Threads
  BY ProceedType DEF Labels, Threads
<1>1. \A v \in Workers : pc'[v] \in Handling \/ pc'[v] = "insert" =>
        v # t /\ pc'[v] = pc[v] /\ pkt'[v] = pkt[v] /\ mine'[v] = mine[v]
  BY <1>0 DEF Handling, Holding
<1>2. \A v \in Workers : pc[v] \in Holding => 
        v # t /\ pc'[v] = pc[v] /\ pkt'[v] = pkt[v] /\ mine'[v] = mine[v]
  BY <1>0
<1>3. \A v \in Workers : pc'[v] # "ready" => pc[v] # "ready"
  BY <1>0, UdpNatAssumption DEF Timer
<1>4. TableExact'
  BY <1>2, TableFrame DEF Holding
<1>5. WorkersOK'
  <2> SUFFICES ASSUME NEW v \in Workers PROVE WorkersOK!(v)'
    BY DEF WorkersOK
  <2>1. WorkersOK!(v)
    BY DEF WorkersOK
  <2> QED BY <1>1, <2>1 DEF Local, Handling, Holding
<1>6. PortsOK'
  BY DEF PortsOK
<1>7. OneAtATime'
  BY <1>1, <1>3 DEF OneAtATime, Local, Handling, Holding
<1>8. FirstPacket'
  BY <1>2, FirstPacketFrame DEF TypeOK, Unsent, Holding
<1>9. RepliesMatch'
  BY DEF RepliesMatch
<1> QED BY <1>4, <1>5, <1>6, <1>7, <1>8, <1>9 DEF Safety

\* Lookup preserves the invariant.
LEMMA LookupSafe ==
  ASSUME IInv, TypeOK', NEW w \in Workers, Lookup(w), UNCHANGED <<mode, shut>>
  PROVE  Safety'
<1> USE DEF IInv
<1> DEFINE p == pkt[w]
           e == active[Local(p)]
<1>0. /\ pc[w] = "lookup" /\ pkt' = pkt /\ active' = active /\ sock' = sock /\ nat' = nat
      /\ sent' = sent /\ replies' = replies /\ idle' = idle
  BY DEF Lookup, tableVars
<1>1. p \in Packets /\ Local(p) \in Addrs
  BY <1>0, NoNatNew DEF WorkersOK, Handling
<1>2. e # None => e \in Socks /\ nat[e].local = Local(p)
  BY <1>1 DEF TypeOK, TableExact
<1>3. e # None => nat[e] # NoNat
  BY <1>1, <1>2, UdpNatAssumption DEF NoNat, Addrs
<1>4. /\ w \in Threads /\ Workers \subseteq Threads
      /\ mine'[w] = e
      /\ \A v \in Workers : v # w => mine'[v] = mine[v] /\ pc'[v] = pc[v]
      /\ pc'[w] = IF e = None THEN "listen" ELSE IF mode = "forward" THEN "stamp" ELSE "send"
  BY DEF Lookup, Goto, Threads, TypeOK
<1>5. \A v \in Workers : pc[v] \in Holding => v # w
  BY <1>0 DEF Holding
<1>6. TableExact'
  BY <1>0, <1>4, <1>5, TableFrame DEF Holding
<1>7. WorkersOK'
  BY <1>0, <1>1, <1>2, <1>3, <1>4, WorkersFrame DEF Holding
<1>8. PortsOK'
  BY <1>0 DEF PortsOK
<1>9. OneAtATime'
  BY <1>0, <1>4 DEF OneAtATime, Local
<1>10. FirstPacket'
  BY <1>0, <1>4, <1>5, FirstPacketFrame DEF TypeOK, Unsent, Holding
<1>11. RepliesMatch'
  BY <1>0 DEF RepliesMatch
<1> QED BY <1>6, <1>7, <1>8, <1>9, <1>10, <1>11 DEF Safety

\* Listen preserves the invariant.
LEMMA ListenSafe ==
  ASSUME IInv, TypeOK', NEW w \in Workers, Listen(w), UNCHANGED <<mode, shut>>
  PROVE  Safety'
<1> USE DEF IInv
<1> DEFINE p == pkt[w]
<1>0. /\ pc[w] = "listen" /\ pkt' = pkt /\ active' = active /\ sent' = sent
      /\ replies' = replies
  BY DEF Listen
<1>1. PICK s \in Socks : /\ sock[s] = "free"
                         /\ sock' = [sock EXCEPT ![s] = "open"]
                         /\ mine' = [mine EXCEPT ![w] = s]
                         /\ nat' = [nat EXCEPT ![s] = NewNat(p)]
  BY Zenon DEF Listen
<1>2. p \in Packets
  BY <1>0 DEF WorkersOK, Handling
<1>3. /\ NewNat(p) # NoNat /\ Local(p) \in Addrs
      /\ NewNat(p).local = Local(p) /\ NewNat(p).seenAs = Dst(p)
  BY <1>2, NoNatNew
<1>4. nat[s] = NoNat
  BY <1>1 DEF PortsOK
<1>5. \A a \in Addrs : active[a] # s
  <2>1. \A a \in Addrs : a # None
    BY UdpNatAssumption DEF Addrs
  <2> QED BY <1>4, <2>1, UdpNatAssumption DEF TableExact, NoNat
<1>6. /\ sock'[s] = "open" /\ nat'[s] = NewNat(p)
      /\ \A x \in Socks : x # s => sock'[x] = sock[x] /\ nat'[x] = nat[x]
  BY <1>1 DEF TypeOK
<1>7. /\ w \in Threads /\ Workers \subseteq Threads
      /\ mine'[w] = s /\ pc'[w] = "insert"
      /\ \A v \in Workers : v # w => mine'[v] = mine[v] /\ pc'[v] = pc[v]
  BY <1>1 DEF Listen, Goto, Threads, TypeOK
<1>8. \A v \in Workers : pc[v] \in Holding => v # w /\ mine[v] # s /\ mine[v] \in Socks
  BY <1>0, <1>4 DEF Holding, WorkersOK
<1>9. TableExact'
  <2>1. \A x \in Socks : InFlight(x) => InFlight(x)'
    BY <1>7, <1>8 DEF InFlight, Holding
  <2>2. InFlight(s)'
    BY <1>7 DEF InFlight
  <2>3. \A a \in Addrs : active[a] # None => active[a] \in Socks /\ active[a] # s
    BY <1>5 DEF TypeOK
  <2> QED BY <1>0, <1>6, <2>1, <2>2, <2>3 DEF TableExact
<1>10. WorkersOK'
  <2> SUFFICES ASSUME NEW v \in Workers PROVE WorkersOK!(v)'
    BY DEF WorkersOK
  <2>1. CASE v = w
    <3>1. \A u \in Workers : u # w /\ pc'[u] = "insert" => mine'[u] # s
      BY <1>7, <1>8 DEF Holding
    <3> QED BY <2>1, <3>1, <1>0, <1>2, <1>3, <1>5, <1>6, <1>7 DEF Local
  <2>2. CASE v # w
    <3>1. \A u \in Workers : pc'[u] = "insert" /\ u # v /\ pc[v] = "insert" => mine'[u] # mine[v]
      BY <2>2, <1>7, <1>8 DEF WorkersOK, Holding
    <3> QED BY <2>2, <3>1, <1>0, <1>6, <1>7, <1>8 DEF WorkersOK, Local, Holding
  <2> QED BY <2>1, <2>2
<1>11. PortsOK'
  <2>1. \A m \in sent : m.sock \in Socks /\ m.sock # s
    BY <1>4 DEF PortsOK, TypeOK
  <2> QED BY <1>0, <1>6, <2>1 DEF PortsOK
<1>12. OneAtATime'
  BY <1>0, <1>7 DEF OneAtATime, Local
<1>13. FirstPacket'
  <2> SUFFICES ASSUME mode # "tproxy" PROVE FirstPacket'
    BY DEF FirstPacket
  <2>1. \A x \in Socks : x # s => (Written(x) <=> Written(x)') /\ (Pending(x) => Pending(x)')
    BY <1>0, <1>6, <1>7, <1>8 DEF Written, Pending, MadeFor, Unsent, Holding
  <2>2. Pending(s)'
    BY <1>0, <1>3, <1>6, <1>7 DEF Pending, MadeFor, Unsent, Holding, Local, Dst
  <2>3. \A m \in sent : m.sock \in Socks /\ m.sock # s
    BY <1>4 DEF PortsOK, TypeOK
  <2> QED BY <1>0, <1>6, <2>1, <2>2, <2>3 DEF FirstPacket
<1>14. RepliesMatch'
  BY <1>0 DEF RepliesMatch
<1> QED BY <1>9, <1>10, <1>11, <1>12, <1>13, <1>14 DEF Safety

\* The port that ResolveFails leaves open has no UdpNat.
LEMMA ResolveFailsSafe ==
  ASSUME IInv, TypeOK', NEW w \in Workers, ResolveFails(w), UNCHANGED <<mode, shut>>
  PROVE  Safety'
<1> USE DEF IInv
<1>0. /\ pc[w] = "listen" /\ active' = active /\ sent' = sent /\ nat' = nat
      /\ replies' = replies /\ Proceed(w, "ready")
  BY DEF ResolveFails
<1>1. PICK s \in Socks : sock[s] = "free" /\ sock' = [sock EXCEPT ![s] = "open"]
  BY Zenon DEF ResolveFails
<1>2. /\ w \in Threads /\ Workers \subseteq Threads /\ pc'[w] = "ready"
      /\ \A v \in Workers : v # w => pc'[v] = pc[v] /\ pkt'[v] = pkt[v] /\ mine'[v] = mine[v]
  BY <1>0, ProceedType DEF Labels, Threads
<1>3. nat[s] = NoNat
  BY <1>1 DEF PortsOK
<1>4. \A x \in Socks : (x # s => sock'[x] = sock[x]) /\ (sock[x] = "open" => sock'[x] = "open")
  BY <1>1 DEF TypeOK
<1>5. \A v \in Workers : pc[v] \in Holding => v # w
  BY <1>0 DEF Holding
<1>6. TableExact'
  <2>1. \A x \in Socks : InFlight(x) => InFlight(x)'
    BY <1>2, <1>5 DEF InFlight, Holding
  <2>2. \A a \in Addrs : active[a] # None => active[a] \in Socks
    BY DEF TypeOK
  <2> QED BY <1>0, <1>3, <1>4, <2>1, <2>2 DEF TableExact
<1>7. WorkersOK'
  <2> SUFFICES ASSUME NEW v \in Workers PROVE WorkersOK!(v)'
    BY DEF WorkersOK
  <2>1. CASE v = w
    BY <2>1, <1>2 DEF Holding, Handling
  <2>2. CASE v # w
    <3>1. WorkersOK!(v)
      BY DEF WorkersOK
    <3>2. \A u \in Workers : pc'[u] = "insert" => pc[u] = "insert" /\ mine'[u] = mine[u]
      BY <1>2
    <3> QED BY <2>2, <3>1, <3>2, <1>0, <1>2, <1>4 DEF Local, Holding
  <2> QED BY <2>1, <2>2
<1>8. PortsOK'
  BY <1>0, <1>1, <1>4 DEF PortsOK
<1>9. OneAtATime'
  BY <1>0, <1>2 DEF OneAtATime, Local
<1>10. FirstPacket'
  BY <1>0, <1>2, <1>3, <1>4, <1>5, FirstPacketFrame DEF TypeOK, Unsent, Holding
<1>11. RepliesMatch'
  BY <1>0 DEF RepliesMatch
<1> QED BY <1>6, <1>7, <1>8, <1>9, <1>10, <1>11 DEF Safety

\* Insert preserves the invariant.
LEMMA InsertSafe ==
  ASSUME IInv, TypeOK', NEW w \in Workers, Insert(w), UNCHANGED <<mode, shut>>
  PROVE  Safety'
<1> USE DEF IInv
<1> DEFINE s == mine[w]
           k == Local(pkt[w])
           l == IF mode = "forward" THEN "stamp" ELSE "send"
<1>0. /\ pc[w] = "insert" /\ sock' = sock /\ sent' = sent /\ nat' = nat
      /\ replies' = replies /\ Proceed(w, l) /\ active' = [active EXCEPT ![k] = s]
  BY DEF Insert
<1>1. /\ pkt[w] \in Packets /\ s \in Socks /\ nat[s] # NoNat /\ nat[s].local = k
      /\ sock[s] = "open" /\ \A a \in Addrs : active[a] # s
      /\ \A v \in Workers : v # w /\ pc[v] = "insert" => mine[v] # s
  BY <1>0 DEF WorkersOK, Holding, Handling
<1>2. k \in Addrs
  BY <1>1, NoNatNew
<1>3. /\ w \in Threads /\ Workers \subseteq Threads /\ pc'[w] = l
      /\ \A v \in Workers : pkt'[v] = pkt[v] /\ mine'[v] = mine[v]
      /\ \A v \in Workers : v # w => pc'[v] = pc[v]
  <2>1. l \in Labels /\ l # "ready" /\ w \in Threads BY DEF Labels, Threads
  <2> QED BY <1>0, <2>1, ProceedType DEF Threads
<1>4. active'[k] = s /\ \A a \in Addrs : a # k => active'[a] = active[a]
  BY <1>0, <1>2 DEF TypeOK
<1>5. TableExact'
  <2>1. \A x \in Socks : x # s /\ InFlight(x) => InFlight(x)'
    BY <1>3 DEF InFlight
  <2>2. mode # "tproxy" => active[k] = None
    BY <1>0 DEF OneAtATime
  <2>3. None \notin Socks
    BY UdpNatAssumption
  <2>4. ASSUME mode # "tproxy", NEW x \in Socks, sock[x] = "open", nat[x] # NoNat
        PROVE  InFlight(x)' \/ active'[nat[x].local] = x
    <3>1. CASE x = s
      BY <3>1, <1>1, <1>4
    <3>2. CASE x # s
      <4>1. nat[x].local \in Addrs
        BY <2>4 DEF TypeOK
      <4> QED BY <2>1, <2>2, <2>3, <2>4, <3>2, <4>1, <1>4 DEF TableExact
    <3> QED BY <3>1, <3>2
  <2> QED BY <1>0, <1>1, <1>4, <2>4 DEF TableExact
<1>6. WorkersOK'
  <2> SUFFICES ASSUME NEW v \in Workers PROVE WorkersOK!(v)'
    BY DEF WorkersOK
  <2>1. CASE v = w
    BY <2>1, <1>0, <1>1, <1>3 DEF Holding, Handling
  <2>2. CASE v # w
    <3>1. pc[v] = "insert" => \A a \in Addrs : active'[a] # mine[v]
      BY <2>2, <1>1, <1>4 DEF WorkersOK
    <3>2. WorkersOK!(v)
      BY DEF WorkersOK
    <3>3. \A u \in Workers : pc'[u] = "insert" => pc[u] = "insert" /\ mine'[u] = mine[u]
      BY <1>3
    <3> QED BY <2>2, <3>1, <3>2, <3>3, <1>0, <1>3 DEF Local
  <2> QED BY <2>1, <2>2
<1>7. PortsOK'
  BY <1>0 DEF PortsOK
<1>8. OneAtATime'
  <2>1. mode # "tproxy" => \A v \in Workers : pc'[v] # "ready" => v = w
    BY <1>0, <1>3 DEF OneAtATime
  <2> QED BY <1>3, <2>1 DEF OneAtATime
<1>9. FirstPacket'
  BY <1>0, <1>3, FirstPacketFrame DEF TypeOK, Unsent, Holding
<1>10. RepliesMatch'
  BY <1>0 DEF RepliesMatch
<1> QED BY <1>5, <1>6, <1>7, <1>8, <1>9, <1>10 DEF Safety

\* Stamp preserves the invariant.
LEMMA StampSafe ==
  ASSUME IInv, TypeOK', NEW w \in Workers, Stamp(w), UNCHANGED <<mode, shut>>
  PROVE  Safety'
<1> USE DEF IInv
<1> DEFINE l == IF mode = "forward" THEN "send" ELSE "ready"
<1>0. /\ pc[w] = "stamp" /\ sock' = sock /\ sent' = sent /\ nat' = nat /\ active' = active
      /\ replies' = replies /\ Proceed(w, l)
  BY DEF Stamp
<1>1. /\ w \in Threads /\ Workers \subseteq Threads /\ pc'[w] = l
      /\ \A v \in Workers : v # w \/ l # "ready" => pkt'[v] = pkt[v] /\ mine'[v] = mine[v]
      /\ \A v \in Workers : v # w => pc'[v] = pc[v]
  <2>1. l \in Labels /\ w \in Threads BY DEF Labels, Threads
  <2> QED BY <1>0, <2>1, ProceedType DEF Threads
<1>2. mine[w] \in Socks /\ nat[mine[w]] # NoNat /\ pkt[w] \in Packets
  BY <1>0 DEF WorkersOK, Holding, Handling
<1>3. TableExact'
  BY <1>0, <1>1, TableFrame
<1>4. WorkersOK'
  BY <1>0, <1>1, <1>2, WorkersFrame DEF Handling, Holding
<1>5. PortsOK'
  BY <1>0 DEF PortsOK
<1>6. OneAtATime'
  BY <1>0, <1>1 DEF OneAtATime, Local
<1>7. FirstPacket'
  BY <1>0, <1>1, FirstPacketFrame DEF TypeOK, Unsent, Holding
<1>8. RepliesMatch'
  BY <1>0 DEF RepliesMatch
<1> QED BY <1>3, <1>4, <1>5, <1>6, <1>7, <1>8 DEF Safety

\* Send preserves the invariant.
LEMMA SendSafe ==
  ASSUME IInv, TypeOK', NEW w \in Workers, Send(w), UNCHANGED <<mode, shut>>
  PROVE  Safety'
<1> USE DEF IInv
<1>1. PICK s \in Socks : s = mine[w] /\ nat[s] # NoNat /\ pkt[w] \in Packets
  BY DEF Send, WorkersOK, Holding, Handling
<1>2. PICK m0 : m0 = [pkt |-> pkt[w], sock |-> s]
  BY Zenon
<1> DEFINE l == IF mode = "forward" THEN "ready" ELSE "stamp"
<1>3. /\ pc[w] = "send" /\ sock' = sock /\ nat' = nat /\ active' = active
      /\ replies' = replies /\ Proceed(w, l)
      /\ sent' = IF sock[s] # "open" THEN sent ELSE sent \cup {m0}
  BY <1>1, <1>2 DEF Send, tableVars
<1>4. /\ w \in Threads /\ Workers \subseteq Threads /\ pc'[w] = l
      /\ \A v \in Workers : v # w \/ l # "ready" => pkt'[v] = pkt[v] /\ mine'[v] = mine[v]
      /\ \A v \in Workers : v # w => pc'[v] = pc[v]
  <2>1. l \in Labels /\ w \in Threads BY DEF Labels, Threads
  <2> QED BY <1>3, <2>1, ProceedType DEF Threads
<1>5. TableExact'
  BY <1>3, <1>4, TableFrame
<1>6. WorkersOK'
  BY <1>1, <1>3, <1>4, WorkersFrame DEF Handling, Holding
<1>7. PortsOK'
  <2>1. \A m \in sent' : m \in sent \/ m.sock = s
    BY <1>2, <1>3
  <2> QED BY <1>1, <1>3, <2>1 DEF PortsOK
<1>8. OneAtATime'
  BY <1>3, <1>4 DEF OneAtATime, Local
<1>9. FirstPacket'
  <2> SUFFICES ASSUME mode # "tproxy" PROVE FirstPacket'
    BY DEF FirstPacket
  <2>1. \A x \in Socks : Written(x) => Written(x)'
    BY <1>3 DEF Written, MadeFor
  <2>2. \A v \in Workers : pc[v] # "ready" => v = w
    BY <1>3 DEF OneAtATime
  <2>3. sock[s] = "open" => Written(s)'
    <3>1. CASE Written(s)
      BY <3>1, <2>1, <1>1
    <3>2. CASE sock[s] = "open" /\ Pending(s)
      <4>1. MadeFor(s, pkt[w])
        BY <3>2, <2>2, <1>1 DEF Pending, Unsent, Holding
      <4>2. m0 \in sent' /\ m0.sock = s /\ m0.pkt = pkt[w]
        BY <3>2, <1>3, <1>2
      <4> QED BY <4>1, <4>2, <1>3 DEF Written, MadeFor
    <3> QED BY <3>1, <3>2, <1>1 DEF FirstPacket
  <2>4. \A x \in Socks : Pending(x) => x = s
    BY <2>2, <1>1 DEF Pending, Unsent, Holding
  <2>5. \A m \in sent' : m \in sent \/ (m.sock = s /\ sock[s] = "open")
    BY <1>3, <1>2
  <2> QED BY <1>3, <1>1, <2>1, <2>3, <2>4, <2>5 DEF FirstPacket, TypeOK
<1>10. RepliesMatch'
  BY <1>3 DEF RepliesMatch
<1> QED BY <1>5, <1>6, <1>7, <1>8, <1>9, <1>10 DEF Safety

\* Receive preserves the invariant.
LEMMA ReceiveSafe ==
  ASSUME IInv, TypeOK', NEW w \in Workers, NEW src \in Clients, NEW dst \in Dests,
         Receive(w, src, dst), UNCHANGED <<mode, shut>>
  PROVE  Safety'
<1> USE DEF IInv
<1>0. /\ pc[w] = "ready" /\ active' = active /\ sock' = sock /\ nat' = nat /\ mine' = mine
      /\ sent' = sent /\ replies' = replies
      /\ mode = "tproxy" \/ \A v \in Workers : pc[v] = "ready"
  BY DEF Receive, tableVars
<1>1. /\ Workers \subseteq Threads /\ pc'[w] = "lookup"
      /\ pkt'[w] \in Packets
      /\ \A v \in Workers : v # w => pc'[v] = pc[v] /\ pkt'[v] = pkt[v]
  BY DEF Receive, Goto, TypeOK, Threads, Packets
<1>2. TableExact'
  BY <1>0, <1>1, TableFrame
<1>3. WorkersOK'
  BY <1>0, <1>1, WorkersFrame DEF Holding
<1>4. PortsOK'
  BY <1>0 DEF PortsOK
<1>5. OneAtATime'
  BY <1>0, <1>1 DEF OneAtATime
<1>6. FirstPacket'
  BY <1>0, <1>1, FirstPacketFrame DEF TypeOK, Unsent, Holding
<1>7. RepliesMatch'
  BY <1>0 DEF RepliesMatch
<1> QED BY <1>2, <1>3, <1>4, <1>5, <1>6, <1>7 DEF Safety

\* Closing the sockets of a set of entries, and forgetting some of those entries:
\* FreeIdleSockets, which forgets them all, and Close, which keeps them all.
LEMMA ClosedSafe ==
  ASSUME IInv, TypeOK', NEW V \in SUBSET Addrs, UNCHANGED <<mode, nat, sent, replies>>,
         sock' = [s \in Socks |-> IF \E a \in V : active[a] = s THEN "closed" ELSE sock[s]],
         \/ active' = [a \in Addrs |-> IF a \in V THEN None ELSE active[a]] /\ shut' = shut
         \/ active' = active /\ shut' = TRUE,
         \A w \in Workers : pc[w] \in Handling =>
            pc'[w] = pc[w] /\ pkt'[w] = pkt[w] /\ mine'[w] = mine[w],
         \A w \in Workers : pc'[w] \in Handling => pc'[w] = pc[w],
         \A w \in Workers : pc'[w] # "ready" => pc[w] # "ready"
  PROVE  Safety'
<1> USE DEF IInv
<1>1. \A x \in Socks : sock'[x] # sock[x] => sock'[x] = "closed"
  OBVIOUS
<1>2. \A a \in Addrs : active'[a] # None => active'[a] = active[a]
  BY DEF TypeOK
<1>3. TableExact'
  <2>1. \A x \in Socks : InFlight(x) => InFlight(x)'
    BY DEF InFlight, Handling, Holding
  <2>2. ASSUME NEW a \in Addrs, active'[a] # None
        PROVE  nat'[active'[a]].local = a /\ (shut' \/ sock'[active'[a]] = "open")
    <3>1. nat[active[a]].local = a /\ active[a] \in Socks /\ active'[a] = active[a]
      BY <2>2, <1>2 DEF TableExact, TypeOK
    <3>2. CASE active' = active /\ shut' = TRUE
      BY <3>1, <3>2
    <3>3. CASE active' = [b \in Addrs |-> IF b \in V THEN None ELSE active[b]] /\ shut' = shut
      <4>1. a \notin V
        BY <2>2, <3>3
      <4>2. \A b \in V : active[b] # active[a]
        BY <3>1, <4>1, <2>2, <1>2 DEF TableExact
      <4>3. sock'[active[a]] = sock[active[a]]
        BY <3>1, <4>2
      <4> QED BY <3>1, <3>3, <4>3, <2>2, <1>2 DEF TableExact
    <3> QED BY <3>2, <3>3, Zenon
  <2>3. ASSUME mode # "tproxy", NEW x \in Socks, sock'[x] = "open", nat[x] # NoNat
        PROVE  InFlight(x)' \/ active'[nat[x].local] = x
    <3>1. sock[x] = "open" /\ \A a \in V : active[a] # x
      BY <2>3
    <3>2. InFlight(x) \/ active[nat[x].local] = x
      BY <2>3, <3>1 DEF TableExact
    <3>3. nat[x].local \in Addrs
      BY <2>3 DEF TypeOK
    <3> QED BY <2>1, <3>1, <3>2, <3>3
  <2> QED BY <2>2, <2>3 DEF TableExact
<1>4. WorkersOK'
  <2> SUFFICES ASSUME NEW v \in Workers PROVE WorkersOK!(v)'
    BY DEF WorkersOK
  <2>1. pc'[v] = "insert" => sock'[mine'[v]] = "open" /\ \A a \in Addrs : active'[a] # mine'[v]
    <3> SUFFICES ASSUME pc'[v] = "insert" PROVE <2>1!2
      OBVIOUS
    <3>1. /\ pc[v] = "insert" /\ mine'[v] = mine[v] /\ mine[v] \in Socks /\ sock[mine[v]] = "open"
          /\ \A a \in Addrs : active[a] # mine[v]
      BY DEF WorkersOK, Handling, Holding
    <3> QED BY <3>1, <1>2, UdpNatAssumption
  <2>2. WorkersOK!(v)
    BY DEF WorkersOK
  <2> QED BY <2>1, <2>2 DEF Local, Holding, Handling, WorkersOK
<1>5. PortsOK'
  BY <1>1 DEF PortsOK
<1>6. OneAtATime'
  <2> SUFFICES ASSUME mode # "tproxy" PROVE OneAtATime'
    BY DEF OneAtATime
  <2>1. ASSUME NEW v \in Workers, pc'[v] \in {"listen", "insert"}
        PROVE  active'[Local(pkt'[v])] = None
    <3>1. /\ pc'[v] = pc[v] /\ pkt'[v] = pkt[v] /\ active[Local(pkt[v])] = None
          /\ pkt[v] \in Packets
      BY <2>1 DEF OneAtATime, WorkersOK, Handling, Holding
    <3> QED BY <3>1, <1>2, NoNatNew
  <2> QED BY <2>1 DEF OneAtATime, Local
<1>7. FirstPacket'
  BY <1>1, FirstPacketFrame DEF TypeOK, Unsent, Handling, Holding
<1>8. RepliesMatch'
  BY DEF RepliesMatch
<1> QED BY <1>3, <1>4, <1>5, <1>6, <1>7, <1>8 DEF Safety

\* CloseIdle preserves the invariant.
LEMMA CloseIdleSafe ==
  ASSUME IInv, TypeOK', NEW t \in Threads, CloseIdle(t), UNCHANGED <<mode, shut>>
  PROVE  Safety'
<1> USE DEF IInv
<1>1. /\ pc[t] = "close" /\ Proceed(t, "ready") /\ "ready" \in Labels
      /\ nat' = nat /\ sent' = sent /\ replies' = replies
  BY DEF CloseIdle, Labels
<1>2. CASE \E a \in victims[t] : active[a] = None
  <2>1. active' = active /\ sock' = sock
    BY <1>2 DEF CloseIdle
  <2> QED BY <1>1, <2>1, QuietSafe DEF Holding
<1>3. CASE \A a \in victims[t] : active[a] # None
  <2>1. /\ sock' = [s \in Socks |-> IF \E a \in victims[t] : active[a] = s
                                    THEN "closed" ELSE sock[s]]
        /\ active' = [a \in Addrs |-> IF a \in victims[t] THEN None ELSE active[a]]
        /\ victims[t] \in SUBSET Addrs
    BY <1>3 DEF CloseIdle, TypeOK
  <2>2. /\ \A u \in Threads : u # t => pc'[u] = pc[u]
        /\ \A v \in Workers : v # t => pkt'[v] = pkt[v] /\ mine'[v] = mine[v]
        /\ pc'[t] = "ready" /\ Workers \subseteq Threads
    BY <1>1, ProceedType DEF Threads
  <2>3. /\ \A w \in Workers : pc[w] \in Handling =>
             pc'[w] = pc[w] /\ pkt'[w] = pkt[w] /\ mine'[w] = mine[w]
        /\ \A w \in Workers : pc'[w] \in Handling => pc'[w] = pc[w]
        /\ \A w \in Workers : pc'[w] # "ready" => pc[w] # "ready"
    BY <1>1, <2>2 DEF Handling, Holding
  <2> QED BY <1>1, <2>1, <2>3, ClosedSafe, Zenon
<1> QED BY <1>2, <1>3

\* Close preserves the invariant.
LEMMA CloseSafe ==
  ASSUME IInv, TypeOK', Close, UNCHANGED mode
  PROVE  Safety'
<1>1. Addrs \in SUBSET Addrs
  OBVIOUS
<1> QED BY <1>1, ClosedSafe DEF Close, threadVars

\* Reply preserves the invariant.
LEMMA ReplySafe ==
  ASSUME IInv, TypeOK', NEW s \in Socks, Reply(s), UNCHANGED <<mode, shut>>
  PROVE  Safety'
<1> USE DEF IInv
<1>1. UNCHANGED <<active, sock, nat, pc, pkt, mine, sent>>
  BY DEF Reply, tableVars, threadVars
<1>2. RepliesMatch'
  <2> SUFFICES ASSUME mode # "tproxy" PROVE RepliesMatch'
    BY DEF RepliesMatch
  <2>1. Written(s)
    BY DEF Reply, FirstPacket
  <2> QED BY <1>1, <2>1 DEF Reply, RepliesMatch, Written, MadeFor
<1>3. TableExact'
  BY <1>1 DEF TableExact, InFlight
<1>4. WorkersOK' /\ PortsOK' /\ OneAtATime'
  BY <1>1 DEF WorkersOK, PortsOK, OneAtATime, Local
<1>5. FirstPacket'
  BY <1>1 DEF FirstPacket, Written, Pending, MadeFor, Unsent
<1> QED BY <1>2, <1>3, <1>4, <1>5 DEF Safety

\* A step that changes nothing.
LEMMA StutterSafe ==
  ASSUME IInv, UNCHANGED <<mode, shut, active, sock, nat, pc, pkt, mine, sent, replies>>
  PROVE  Safety'
<1> USE DEF IInv
<1>1. TableExact' /\ RepliesMatch'
  BY DEF TableExact, InFlight, RepliesMatch
<1>2. WorkersOK' /\ PortsOK' /\ OneAtATime'
  BY DEF WorkersOK, PortsOK, OneAtATime, Local
<1>3. FirstPacket'
  BY DEF FirstPacket, Written, Pending, MadeFor, Unsent
<1> QED BY <1>1, <1>2, <1>3 DEF Safety

-----------------------------------------------------------------------------
\* Every step keeps the invariant.

\* The invariant holds at first.
LEMMA InitIInv == Init => IInv
<1> SUFFICES ASSUME Init PROVE IInv
  OBVIOUS
<1>1. TypeOK
  BY InitTypeOK
<1>2. \A w \in Workers : pc[w] = "ready"
  BY DEF Init, Threads
<1>3. TableExact /\ RepliesMatch /\ PortsOK
  BY DEF Init, TableExact, RepliesMatch, PortsOK
<1>4. WorkersOK /\ OneAtATime
  BY <1>2 DEF Init, WorkersOK, OneAtATime, Holding, Handling
<1>5. FirstPacket
  BY DEF Init, FirstPacket
<1> QED BY <1>1, <1>3, <1>4, <1>5 DEF IInv

\* Every step of a worker preserves the invariant.
LEMMA HandleSafe ==
  ASSUME IInv, TypeOK', NEW w \in Workers, Handle(w), UNCHANGED <<mode, shut>>
  PROVE  Safety'
<1>0. w \in Threads
  BY DEF Threads
<1>1. CASE Drop(w)
  BY <1>0, <1>1, QuietSafe DEF Drop, tableVars, Holding
<1>2. CASE ListenFails(w)
  <2> DEFINE l == IF mode = "forward" THEN "ready" ELSE "mark"
  <2>1. Proceed(w, l) /\ l \in {"ready", "mark", "close"}
    BY <1>2 DEF ListenFails
  <2> QED BY <1>0, <1>2, <2>1, QuietSafe DEF ListenFails, tableVars, Holding
<1> QED
  BY <1>1, <1>2, LookupSafe, ListenSafe, ResolveFailsSafe, InsertSafe, StampSafe, SendSafe
  DEF Handle

\* Every step preserves the invariant.
LEMMA NextIInv == IInv /\ [Next]_vars => IInv'
<1> SUFFICES ASSUME IInv, [Next]_vars PROVE IInv'
  OBVIOUS
<1>1. CASE UNCHANGED vars
  <2>1. TypeOK'
    BY <1>1 DEF IInv, TypeOK, vars, runVars, tableVars, threadVars
  <2>2. Safety'
    BY <1>1, StutterSafe DEF vars, runVars, tableVars, threadVars
  <2> QED BY <2>1, <2>2 DEF IInv, Safety
<1>2. CASE Next
  <2>0. UNCHANGED mode
    BY <1>2 DEF Next
  <2>1. TypeOK'
    <3>1. CASE \E w \in Workers : Handle(w) /\ UNCHANGED shut
      BY <2>0, <3>1, HandleTypeOK
    <3>2. CASE ~ \E w \in Workers : Handle(w)
      BY <1>2, <3>2, OthersTypeOK
    <3>3. CASE Close
      BY <2>0, <3>3 DEF IInv, Close, TypeOK, threadVars
    <3> QED BY <1>2, <3>1, <3>2, <3>3 DEF Next
  <2>2. CASE Close
    BY <2>0, <2>1, <2>2, CloseSafe DEF IInv, Safety
  <2>3. ASSUME UNCHANGED shut, NEW w \in Workers, NEW src \in Clients, NEW dst \in Dests,
               Receive(w, src, dst)
        PROVE  Safety'
    BY <2>0, <2>1, <2>3, ReceiveSafe
  <2>4. ASSUME UNCHANGED shut, NEW w \in Workers, Handle(w)
        PROVE  Safety'
    BY <2>0, <2>1, <2>4, HandleSafe
  <2>5. CASE UNCHANGED shut /\ Periodic
    <3>1. Timer \in Threads
      BY DEF Threads
    <3> QED BY <2>0, <2>1, <2>5, <3>1, QuietSafe DEF Periodic, tableVars, Holding, IInv, Safety
  <2>6. ASSUME UNCHANGED shut, NEW t \in Threads, MarkIdle(t)
        PROVE  Safety'
    <3> DEFINE l == IF \A a \in Addrs : active[a] = None THEN "ready" ELSE "close"
    <3>1. Proceed(t, l) /\ l \in {"ready", "mark", "close"}
      BY <2>6 DEF MarkIdle
    <3> QED BY <2>0, <2>1, <2>6, <3>1, QuietSafe DEF MarkIdle, tableVars, Holding
  <2>7. ASSUME UNCHANGED shut, NEW t \in Threads, CloseIdle(t)
        PROVE  Safety'
    BY <2>0, <2>1, <2>7, CloseIdleSafe
  <2>8. ASSUME UNCHANGED shut, NEW s \in Socks, Reply(s)
        PROVE  Safety'
    BY <2>0, <2>1, <2>8, ReplySafe
  <2>9. ASSUME UNCHANGED shut, NEW s \in Socks, TimePasses(s)
        PROVE  Safety'
    BY <2>0, <2>9, StutterSafe DEF TimePasses, threadVars
  <2>10. Safety'
    BY <1>2, <2>2, <2>3, <2>4, <2>5, <2>6, <2>7, <2>8, <2>9 DEF Next, FreeIdleSockets, IInv, Safety
  <2> QED BY <2>1, <2>10 DEF IInv, Safety
<1> QED BY <1>1, <1>2

\* The table, the handlers and the histories of the NAT satisfy IInv in every reachable
\* state, for every caller of HandleUdp and forwardReadLoop.
THEOREM Invariance == Spec => []IInv
BY InitIInv, NextIInv, PTL DEF Spec

\* Type correctness of the table, the sockets and the goroutines of pkg/udp.
THEOREM Types == Spec => []TypeOK
<1>1. IInv => TypeOK
  BY DEF IInv
<1> QED BY <1>1, Invariance, PTL

\* The lookup under RLock and the insertion under Lock are separate critical sections,
\* and so are the two halves of FreeIdleSockets; still an entry of ActiveUdp is always
\* its client's, with an open socket, and a sequential caller never loses a port.
THEOREM TableStaysExact == Spec => []TableExact
<1>1. IInv => TableExact
  BY DEF IInv
<1> QED BY <1>1, Invariance, PTL

\* remoteConnectionReadLoop: a reply comes to a client from an address it sent to.
THEOREM RepliesComeFromDestination == Spec => []RepliesMatch
<1>1. IInv => RepliesMatch
  BY DEF IInv
<1> QED BY <1>1, Invariance, PTL

-----------------------------------------------------------------------------
(***************************************************************************)
(* The nil dereference of FreeIdleSockets needs two callers: with the      *)
(* timer alone, an entry it has marked is still there when it comes back   *)
(* to close it.                                                            *)
(***************************************************************************)

\* Only the timer calls FreeIdleSockets.
OneCleaner == mode = "forward" \/ "listen" \notin Faults

CleanerInv ==
  OneCleaner =>
    /\ NoCrash
    /\ \A w \in Workers : pc[w] \notin {"mark", "close"}
    /\ pc[Timer] = "close" => \A a \in victims[Timer] : active[a] # None

\* With the timer as the only cleaner, what it is about to close is still in the table.
LEMMA NextCleanerInv ==
  ASSUME IInv, CleanerInv, [Next]_vars
  PROVE  CleanerInv'
<1> SUFFICES ASSUME OneCleaner PROVE CleanerInv'
  <2>1. mode' = mode
    BY DEF Next, vars
  <2> QED BY <2>1 DEF CleanerInv, OneCleaner
<1> USE DEF NoCrash
<1>0. /\ Timer \in Threads /\ Workers \subseteq Threads /\ Timer \notin Workers
      /\ ~crashed /\ TypeOK
      /\ \A w \in Workers : pc[w] \notin {"mark", "close"}
      /\ pc[Timer] = "close" => \A a \in victims[Timer] : active[a] # None
  BY UdpNatAssumption DEF CleanerInv, Threads, Timer, IInv
<1>1. CASE UNCHANGED vars
  BY <1>0, <1>1 DEF CleanerInv, vars, runVars, tableVars, threadVars
<1>2. CASE Close
  BY <1>0, <1>2 DEF CleanerInv, Close, threadVars
<1>3. ASSUME NEW w \in Workers, NEW src \in Clients, NEW dst \in Dests, Receive(w, src, dst)
      PROVE  CleanerInv'
  <2>1. pc'[Timer] = pc[Timer] /\ \A v \in Workers : pc'[v] \notin {"mark", "close"}
    BY <1>0, <1>3 DEF Receive, Goto, TypeOK
  <2> QED BY <1>0, <1>3, <2>1 DEF CleanerInv, Receive, tableVars
<1>4. ASSUME NEW w \in Workers, Handle(w), UNCHANGED mode
      PROVE  CleanerInv'
  <2>1. UNCHANGED <<victims, crashed>>
    BY <1>4 DEF Handle, Drop, Lookup, Listen, ListenFails, ResolveFails, Insert, Stamp, Send
  <2>2. \A a \in Addrs : active[a] # None => active'[a] # None
    <3>1. CASE Insert(w)
      <4>1. mine[w] # None
        BY <3>1, UdpNatAssumption DEF Insert, IInv, WorkersOK, Holding
      <4> QED BY <1>0, <3>1, <4>1 DEF Insert, TypeOK
    <3>2. CASE ~Insert(w)
      <4>1. active' = active
        BY <1>4, <3>2 DEF Handle, Drop, Lookup, Listen, ListenFails, ResolveFails, Stamp, Send,
                          tableVars
      <4> QED BY <4>1
    <3> QED BY <3>1, <3>2
  <2>3. \E l \in Labels \ {"mark", "close"} : pc' = [pc EXCEPT ![w] = l]
    BY <1>4 DEF OneCleaner, Handle, Drop, Lookup, Listen, ListenFails, ResolveFails, Insert,
                Stamp, Send, Proceed, Goto, Labels
  <2>4. pc'[Timer] = pc[Timer] /\ \A v \in Workers : pc'[v] \notin {"mark", "close"}
    BY <1>0, <2>3 DEF TypeOK
  <2>5. victims[Timer] \subseteq Addrs
    BY <1>0 DEF TypeOK
  <2> QED BY <1>0, <2>1, <2>2, <2>4, <2>5 DEF CleanerInv
<1>5. CASE Periodic
  <2>1. pc'[Timer] = "mark" /\ \A v \in Workers : pc'[v] = pc[v]
    BY <1>0, <1>5 DEF Periodic, Proceed, Goto, TypeOK
  <2> QED BY <1>0, <1>5, <2>1 DEF CleanerInv, Periodic
<1>6. ASSUME NEW t \in Threads, MarkIdle(t)
      PROVE  CleanerInv'
  <2>1. t = Timer
    BY <1>0, <1>6 DEF MarkIdle, Threads
  <2>2. \A a \in victims'[Timer] : active[a] # None
    BY <1>0, <1>6, <2>1 DEF MarkIdle, TypeOK
  <2>3. \A v \in Workers : pc'[v] = pc[v]
    BY <1>0, <1>6, <2>1 DEF MarkIdle, Proceed, Goto, TypeOK
  <2> QED BY <1>0, <1>6, <2>2, <2>3 DEF CleanerInv, MarkIdle, tableVars
<1>7. ASSUME NEW t \in Threads, CloseIdle(t)
      PROVE  CleanerInv'
  <2>1. t = Timer
    BY <1>0, <1>7 DEF CloseIdle, Threads
  <2>2. crashed' = crashed
    BY <1>0, <1>7, <2>1 DEF CloseIdle
  <2>3. pc'[Timer] = "ready" /\ \A v \in Workers : pc'[v] = pc[v]
    BY <1>0, <1>7, <2>1 DEF CloseIdle, Proceed, Goto, TypeOK
  <2> QED BY <1>0, <2>2, <2>3 DEF CleanerInv
<1>8. ASSUME NEW s \in Socks, Reply(s) \/ TimePasses(s)
      PROVE  CleanerInv'
  BY <1>0, <1>8 DEF CleanerInv, Reply, TimePasses, tableVars, threadVars
<1> QED
  BY <1>1, <1>2, <1>3, <1>4, <1>5, <1>6, <1>7, <1>8 DEF Next, FreeIdleSockets

\* FreeIdleSockets never dereferences a missing entry when the timer is its only caller:
\* on a forwarding port, or as long as ListenUDP succeeds.
THEOREM OneCleanerNoCrash == Spec => [](OneCleaner => NoCrash)
<1>1. Init => CleanerInv
  BY UdpNatAssumption DEF Init, CleanerInv, NoCrash, Threads, Timer
<1>2. IInv /\ CleanerInv /\ [Next]_vars => CleanerInv'
  BY NextCleanerInv
<1>3. CleanerInv => (OneCleaner => NoCrash)
  BY DEF CleanerInv
<1> QED BY <1>1, <1>2, <1>3, Invariance, PTL DEF Spec
=============================================================================
