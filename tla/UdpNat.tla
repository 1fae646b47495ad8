------------------------------- MODULE UdpNat -------------------------------
(***************************************************************************)
(* The UDP NAT of pkg/udp: UDPListener.HandleUdp for captured packets,     *)
(* forwardReadLoop for a forwarding port, FreeIdleSockets, and the loop    *)
(* that reads replies (pkg/udp/udpproxy.go); blockingLoop, which starts a  *)
(* goroutine per captured packet (pkg/udp/tproxy_udp.go).                  *)
(*                                                                         *)
(* The table ActiveUdp is read under RLock and written under Lock, but a   *)
(* lookup and the insertion that follows it are separate critical          *)
(* sections, and so are the two halves of FreeIdleSockets.                 *)
(*                                                                         *)
(* LastWrite is abstracted to whether it is more than ConnTimeout ago; in  *)
(* a new UdpNat it is the zero time, which is.                             *)
(***************************************************************************)
EXTENDS Integers, FiniteSets

CONSTANTS
  Clients,   \* addresses that send packets
  Dests,     \* addresses they send to
  Ignored,   \* the ones HandleUdp drops or leaves to the DNSHandler
  Routed,    \* the ones Discover finds a route for
  ForwardTo, \* where a forwarding port, or a route, leads
  Socks,     \* local UDP ports, each used once
  Workers,   \* goroutines that handle packets
  Modes,     \* who calls: "forward" (forwardReadLoop), "tun", "tproxy" (blockingLoop)
  Faults,    \* what may go wrong: "listen", "resolve"; and "close", a call of Close
  MaxPackets,\* bound on the packets received
  None

ASSUME UdpNatAssumption ==
  /\ Modes \subseteq {"forward", "tun", "tproxy"}
  /\ Ignored \subseteq Dests /\ Routed \subseteq Dests
  /\ Faults \subseteq {"listen", "resolve", "close"}
  /\ MaxPackets \in Nat
  /\ None \notin Socks \cup Clients \cup Dests \cup {ForwardTo}
  /\ "timer" \notin Workers

Addrs   == Clients \cup Dests \cup {ForwardTo}
Timer   == "timer"   \* the goroutine of periodic()
Loop    == CHOOSE w \in Workers : TRUE  \* the one goroutine of a sequential caller
Threads == Workers \cup {Timer}
Packets == [src : Clients, dst : Dests]

VARIABLES
  mode,     \* who calls; fixed
  shut,     \* Close was called
  received, \* number of packets read from the capture or the listener
  active,   \* ActiveUdp: source address -> socket, or None
  sock,     \* per socket: "free", "open" or "closed"
  nat,      \* per socket: its client (localAddr), DestAddr, and the address
            \* the client sees replies come from
  idle,     \* per socket: LastWrite is more than ConnTimeout ago
  pc,       \* per thread
  pkt,      \* per worker: the packet it handles
  mine,     \* per worker: the socket it has looked up or opened
  victims,  \* per thread: clientsToTimeout
  sent,     \* history: packets written, and to which socket
  replies,  \* history: replies written, to whom and from which address
  crashed   \* a nil UdpNat was dereferenced

tableVars == <<active, sock, nat, idle>>
threadVars == <<pc, pkt, mine, victims>>
runVars == <<received, tableVars, threadVars, sent, replies, crashed>>
vars == <<mode, shut, runVars>>

NoPacket == [src |-> None, dst |-> None]
NoNat    == [local |-> None, dest |-> None, seenAs |-> None]

Init ==
  /\ mode \in Modes /\ shut = FALSE
  /\ received = 0
  /\ active = [a \in Addrs |-> None]
  /\ sock = [s \in Socks |-> "free"]
  /\ nat = [s \in Socks |-> NoNat]
  /\ idle = [s \in Socks |-> TRUE]
  /\ pc = [t \in Threads |-> "ready"]
  /\ pkt = [w \in Workers |-> NoPacket]
  /\ mine = [w \in Workers |-> None]
  /\ victims = [t \in Threads |-> {}]
  /\ sent = {} /\ replies = {}
  /\ crashed = FALSE

Goto(t, l) == pc' = [pc EXCEPT ![t] = l]

\* The same where the handler may return, and its locals go.
Proceed(t, l) ==
  /\ Goto(t, l)
  /\ pkt' = IF l = "ready" /\ t # Timer THEN [pkt EXCEPT ![t] = NoPacket] ELSE pkt
  /\ mine' = IF l = "ready" /\ t # Timer THEN [mine EXCEPT ![t] = None] ELSE mine

\* What HandleUdp is told: blockingLoop passes the packet's source first and
\* its original destination second, where HandleUdp expects the destination
\* first.
Local(p) == IF mode = "tproxy" THEN p.dst ELSE p.src
Dst(p)   == IF mode = "tproxy" THEN p.src ELSE p.dst

-----------------------------------------------------------------------------
\* A packet arrives.  blockingLoop starts a goroutine for every packet; the other
\* callers wait for the handler to return.
Receive(w, src, dst) ==
  /\ pc[w] = "ready" /\ received < MaxPackets
  /\ mode = "tproxy" \/ (w = Loop /\ \A v \in Workers : pc[v] = "ready")
  /\ received' = received + 1
  /\ pkt' = [pkt EXCEPT ![w] = [src |-> src, dst |-> dst]]
  /\ Goto(w, "lookup")
  /\ UNCHANGED <<tableVars, mine, victims, sent, replies, crashed>>

\* HandleUdp drops discovery and time traffic and passes DNS on.
Drop(w) ==
  /\ pc[w] = "lookup" /\ mode # "forward" /\ Dst(pkt[w]) \in Ignored
  /\ Proceed(w, "ready")
  /\ UNCHANGED <<received, tableVars, victims, sent, replies, crashed>>

\* The lookup under RLock.
Lookup(w) ==
  /\ pc[w] = "lookup" /\ (mode = "forward" \/ Dst(pkt[w]) \notin Ignored)
  /\ mine' = [mine EXCEPT ![w] = active[Local(pkt[w])]]
  /\ Goto(w, IF active[Local(pkt[w])] = None THEN "listen"
             ELSE IF mode = "forward" THEN "stamp" ELSE "send")
  /\ UNCHANGED <<received, tableVars, pkt, victims, sent, replies, crashed>>

\* Mutant: ReverseSrcAddr is not set.
NewNatNoReverse(p) ==
  LET dest == IF mode = "forward" \/ Dst(p) \in Routed THEN ForwardTo ELSE Dst(p)
  IN  [local |-> Local(p), dest |-> dest, seenAs |-> dest]

\* The UdpNat made for a packet.  Replies come back through the listener that
\* forwards, or from ReverseSrcAddr if there is a route, or else from DestAddr.
NewNat(p) ==
  [local  |-> Local(p),
   dest   |-> IF mode = "forward" \/ Dst(p) \in Routed THEN ForwardTo ELSE Dst(p),
   seenAs |-> Dst(p)]

\* ListenUDP on a new port and a new UdpNat for it.
Listen(w) ==
  /\ pc[w] = "listen"
  /\ \E s \in Socks :
       /\ sock[s] = "free"
       /\ sock' = [sock EXCEPT ![s] = "open"]
       /\ mine' = [mine EXCEPT ![w] = s]
       /\ nat' = [nat EXCEPT ![s] = NewNat(pkt[w])]
  /\ Goto(w, "insert")
  /\ UNCHANGED <<received, active, idle, pkt, victims, sent, replies, crashed>>

\* ListenUDP fails: HandleUdp frees idle sockets and drops the packet,
\* forwardReadLoop only drops it.
ListenFails(w) ==
  /\ "listen" \in Faults /\ pc[w] = "listen"
  /\ Proceed(w, IF mode = "forward" THEN "ready" ELSE "mark")
  /\ UNCHANGED <<received, tableVars, victims, sent, replies, crashed>>

\* The address of the route does not resolve: HandleUdp returns and leaves the
\* new port open.
ResolveFails(w) ==
  /\ "resolve" \in Faults /\ mode # "forward"
  /\ pc[w] = "listen" /\ Dst(pkt[w]) \in Routed
  /\ \E s \in Socks : sock[s] = "free" /\ sock' = [sock EXCEPT ![s] = "open"]
  /\ Proceed(w, "ready")
  /\ UNCHANGED <<received, active, nat, idle, victims, sent, replies, crashed>>

\* The insertion under Lock; the reply loop starts.
Insert(w) ==
  /\ pc[w] = "insert"
  /\ active' = [active EXCEPT ![Local(pkt[w])] = mine[w]]
  /\ Proceed(w, IF mode = "forward" THEN "stamp" ELSE "send")
  /\ UNCHANGED <<received, sock, nat, idle, victims, sent, replies, crashed>>

\* LastWrite and the counters; before the write in forwardReadLoop, after it in
\* HandleUdp.
Stamp(w) ==
  /\ pc[w] = "stamp"
  /\ idle' = [idle EXCEPT ![mine[w]] = FALSE]
  /\ Proceed(w, IF mode = "forward" THEN "send" ELSE "ready")
  /\ UNCHANGED <<received, active, sock, nat, victims, sent, replies, crashed>>

\* The write to DestAddr; on a closed socket it fails and the packet is dropped.
Send(w) ==
  LET s == mine[w] IN
  /\ pc[w] = "send"
  /\ sent' = IF sock[s] # "open" THEN sent
             ELSE sent \cup {[pkt |-> pkt[w], sock |-> s]}
  /\ Proceed(w, IF mode = "forward" THEN "ready" ELSE "stamp")
  /\ UNCHANGED <<received, tableVars, victims, replies, crashed>>

-----------------------------------------------------------------------------
\* periodic() calls FreeIdleSockets every minute.
Periodic ==
  /\ pc[Timer] = "ready"
  /\ \E a \in Addrs : active[a] # None
  /\ Proceed(Timer, "mark")
  /\ UNCHANGED <<received, tableVars, victims, sent, replies, crashed>>

\* Mutant: the sockets are collected, not the clients.
MarkSockets(t) ==
  /\ pc[t] = "mark"
  /\ victims' = [victims EXCEPT ![t] =
       {active[a] : a \in {b \in Addrs : active[b] # None /\ idle[active[b]]}}]
  /\ Proceed(t, "close")
  /\ UNCHANGED <<received, tableVars, sent, replies, crashed>>

\* FreeIdleSockets, first critical section: who is idle.
MarkIdle(t) ==
  /\ pc[t] = "mark"
  /\ victims' = [victims EXCEPT ![t] =
       {a \in Addrs : active[a] # None /\ idle[active[a]]}]
  /\ Proceed(t, IF \A a \in Addrs : active[a] = None THEN "ready" ELSE "close")
  /\ UNCHANGED <<received, tableVars, sent, replies, crashed>>

\* Mutant: the entries are deleted and their sockets stay open.
DeleteWithoutClose(t) ==
  /\ pc[t] = "close"
  /\ active' = [a \in Addrs |-> IF a \in victims[t] THEN None ELSE active[a]]
  /\ victims' = [victims EXCEPT ![t] = {}]
  /\ Proceed(t, "ready")
  /\ UNCHANGED <<received, sock, nat, idle, sent, replies, crashed>>

\* Second critical section: close and forget them, whatever they are by now.
CloseIdle(t) ==
  /\ pc[t] = "close"
  /\ \/ /\ \A a \in victims[t] : active[a] # None
        /\ sock' = [s \in Socks |-> IF \E a \in victims[t] : active[a] = s
                                    THEN "closed" ELSE sock[s]]
        /\ active' = [a \in Addrs |-> IF a \in victims[t] THEN None ELSE active[a]]
        /\ UNCHANGED crashed
     \/ /\ \E a \in victims[t] : active[a] = None
        /\ crashed' = TRUE
        /\ UNCHANGED <<active, sock>>
  /\ victims' = [victims EXCEPT ![t] = {}]
  /\ Proceed(t, "ready")
  /\ UNCHANGED <<received, nat, idle, sent, replies>>

\* Close() closes the sockets and leaves the table as it is.
Close ==
  /\ "close" \in Faults /\ ~shut /\ shut' = TRUE
  /\ sock' = [s \in Socks |-> IF \E a \in Addrs : active[a] = s THEN "closed" ELSE sock[s]]
  /\ UNCHANGED <<received, active, nat, idle, threadVars, sent, replies, crashed>>

\* remoteConnectionReadLoop: the remote side answers a packet, and the answer
\* is written to the client.
Reply(s) ==
  /\ sock[s] = "open" /\ \E m \in sent : m.sock = s
  /\ replies' = replies \cup {[to |-> nat[s].local, from |-> nat[s].seenAs]}
  /\ UNCHANGED <<received, tableVars, threadVars, sent, crashed>>

\* More than ConnTimeout passes without a write to a socket.
TimePasses(s) ==
  /\ sock[s] = "open" /\ ~idle[s]
  /\ idle' = [idle EXCEPT ![s] = TRUE]
  /\ UNCHANGED <<received, active, sock, nat, threadVars, sent, replies, crashed>>

-----------------------------------------------------------------------------
Handle(w) ==
  \/ Drop(w) \/ Lookup(w) \/ Listen(w) \/ ListenFails(w) \/ ResolveFails(w)
  \/ Insert(w) \/ Stamp(w) \/ Send(w)

FreeIdleSockets(t) == MarkIdle(t) \/ CloseIdle(t)

Next ==
  /\ ~crashed /\ UNCHANGED mode
  /\ \/ Close
     \/ /\ UNCHANGED shut
        /\ \/ \E w \in Workers, src \in Clients, dst \in Dests : Receive(w, src, dst)
           \/ \E w \in Workers : Handle(w)
           \/ Periodic
           \/ \E t \in Threads : FreeIdleSockets(t)
           \/ \E s \in Socks : Reply(s) \/ TimePasses(s)

Spec == Init /\ [][Next]_vars

\* Goroutines run; the timer fires; packets and the passing of time are free.
FairSpec ==
  /\ Spec
  /\ \A w \in Workers : WF_runVars(~crashed /\ Handle(w))
  /\ \A t \in Threads : WF_runVars(~crashed /\ FreeIdleSockets(t))
  /\ WF_runVars(~crashed /\ Periodic)

-----------------------------------------------------------------------------
Labels == {"ready", "lookup", "listen", "insert", "stamp", "send", "mark", "close"}

\* Type correctness of the table, the sockets and the goroutines.
TypeOK ==
  /\ mode \in Modes /\ shut \in BOOLEAN
  /\ received \in 0..MaxPackets
  /\ active \in [Addrs -> Socks \cup {None}]
  /\ sock \in [Socks -> {"free", "open", "closed"}]
  /\ nat \in [Socks -> [local : Addrs, dest : Addrs, seenAs : Addrs] \cup {NoNat}]
  /\ idle \in [Socks -> BOOLEAN]
  /\ pc \in [Threads -> Labels]
  /\ pkt \in [Workers -> Packets \cup {NoPacket}]
  /\ mine \in [Workers -> Socks \cup {None}]
  /\ victims \in [Threads -> SUBSET Addrs]
  /\ sent \subseteq [pkt : Packets, sock : Socks]
  /\ replies \subseteq [to : Addrs, from : Addrs]
  /\ crashed \in BOOLEAN

\* The socket is in the hands of a worker that has not filed it yet.
InFlight(s) == \E w \in Workers : mine[w] = s /\ pc[w] = "insert"

\* An entry of ActiveUdp belongs to the client it is filed under, so replies read from it
\* go to that client, and its socket is open until Close.  If packets are handled one at a
\* time, every open socket that got its UdpNat is filed, or about to be: FreeIdleSockets
\* can find it, and "NAT will open one port per clientIP+port" (comment of
\* remoteConnectionReadLoop).
TableExact ==
  /\ \A a \in Addrs : active[a] # None =>
       /\ nat[active[a]].local = a
       /\ shut \/ sock[active[a]] = "open"
  /\ mode # "tproxy" => \A s \in Socks : sock[s] = "open" /\ nat[s] # NoNat =>
       InFlight(s) \/ active[nat[s].local] = s

\* FreeIdleSockets never meets an entry that is gone: it is "called on the
\* periodic cleanup thread (~60sec), or if too many sockets open".
NoCrash == ~crashed

\* "For UDP, must match the original address used by client": a reply comes from
\* an address its client has sent a packet to (blockingLoop, which confuses the
\* two addresses, excepted).
RepliesMatch ==
  mode # "tproxy" => \A r \in replies : \E m \in sent : m.pkt.src = r.to /\ m.pkt.dst = r.from

\* An association that stays idle is closed and its port freed, if packets are
\* handled one at a time.
IdleFreed ==
  \A s \in Socks :
    (nat[s] # NoNat /\ mode # "tproxy") ~> (crashed \/ sock[s] = "closed" \/ ~idle[s])
=============================================================================
