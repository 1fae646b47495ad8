----------------------------- MODULE Discovery -----------------------------
(***************************************************************************)
(* Link-local discovery (pkg/local_discovery): the refresh of interfaces,  *)
(* which starts readers on unicast and multicast sockets, and what the     *)
(* readers do with the announcements of other nodes: remember the sender   *)
(* and, on a multicast socket, send an acknowledgement back.  Packets that *)
(* are too short, badly signed or this node's own change nothing.          *)
(*                                                                         *)
(* Nothing in the package makes the map Nodes, nor assigns                 *)
(* ActiveInterfaces, which is therefore empty: the pass of RefreshNetworks *)
(* over it, which closes sockets or hands them on, never does anything.    *)
(***************************************************************************)
EXTENDS Integers, FiniteSets, FiniteSetsExt, Functions

CONSTANTS
  Ifs,         \* network interfaces
  Peers,       \* other nodes of the link
  Readers,     \* goroutines that read a socket; bounds the number of sockets
  Tries,       \* attempts of listen6 and listen4 (10 in the code)
  MaxPackets   \* bound on the packets received

ASSUME DiscoveryAssumption == Tries \in Nat /\ MaxPackets \in Nat

VARIABLES
  fams,      \* [Ifs -> SUBSET {4, 6}]: the addresses an interface has; fixed
  made,      \* whoever embeds the package has made Nodes; fixed
  crashed,   \* a goroutine has panicked
  brokenNet, \* brokenAndroidNetworks
  socket,    \* [Readers -> the socket it reads, or Idle]
  Nodes,     \* [Peers -> record under the peer's id, or 0]
  recent,    \* record -> families in which LastSeen4, LastSeen6 is less than 10 s old
  task,      \* [Readers -> the packet in hand: [at, from, fam, rec]]
  packets,   \* packets received so far, which number the records
  acked,     \* peers that were sent an acknowledgement
  heard      \* peers whose acknowledgement came in on a unicast socket

discVars == <<crashed, brokenNet, socket, Nodes, recent, task, packets, acked, heard>>
discAll  == <<fams, made, discVars>>

\* Of an ActiveInterface: the families in which it has an address.
ActiveInterface == (SUBSET {4, 6}) \ {{}}

\* Of a Node: the families in which it was seen less than ten seconds ago.
Node == SUBSET {4, 6}

NoSocket == [kind |-> "none", if |-> "none", fam |-> 0, port |-> 0]
Main     == [kind |-> "unicast", if |-> "any", fam |-> 0, port |-> 0]
NoTask   == [at |-> "read", from |-> "none", fam |-> 0, rec |-> 0]

\* Start: the main socket has its reader.
InitDisc ==
  /\ fams \in [Ifs -> ActiveInterface] /\ made \in BOOLEAN
  /\ crashed = FALSE /\ brokenNet = FALSE
  /\ socket = [r \in Readers |-> IF r = CHOOSE q \in Readers : TRUE THEN Main ELSE NoSocket]
  /\ Nodes = [p \in Peers |-> 0] /\ recent = [n \in 1..MaxPackets |-> {}]
  /\ task = [r \in Readers |-> NoTask]
  /\ packets = 0 /\ acked = {} /\ heard = {}

-----------------------------------------------------------------------------
(***************************************************************************)
(* RefreshNetworks, at the start, from a ticker and from its callers.  The *)
(* mutexes make it one step.                                               *)
(***************************************************************************)

InUse(i, f) == {socket[r].port : r \in {q \in Readers : /\ socket[q].kind = "unicast"
                                                        /\ socket[q].if = i /\ socket[q].fam = f}}

\* listen6 adds the number of the attempt to a base that it also increments;
\* listen4 does not.  The result is the first free port, or none.
Listen(i, f) ==
  LET tried == {IF f = 6 THEN 2 * k ELSE k : k \in 0..(Tries - 1)}
      free  == tried \ InUse(i, f)
  IN  IF f \notin fams[i] \/ free = {} THEN {} ELSE {[kind |-> "unicast", if |-> i, fam |-> f, port |-> Min(free)]}

\* ListenMulticastUDP shares its port, and so does not fail because it is in use.
ListenMulticast(i, f) ==
  IF f \in fams[i] THEN {[kind |-> "multicast", if |-> i, fam |-> f, port |-> 0]} ELSE {}

\* New sockets and their readers, in goroutines that do not run yet.
StartReaders(new) ==
  LET unused == {r \in Readers : socket[r] = NoSocket} IN
  /\ Cardinality(new) <= Cardinality(unused)
  /\ LET rs == CHOOSE q \in kSubset(Cardinality(new), unused) : TRUE
         s  == CHOOSE g \in [rs -> new] : IsInjective(g)
     IN  socket' = [r \in Readers |-> IF r \in rs THEN s[r] ELSE socket[r]]

\* Every interface that is up gets its sockets, as if it had none before.
RefreshNetworks ==
  /\ ~crashed /\ ~brokenNet
  /\ \E ups \in (SUBSET Ifs) \ {{}}, failed \in SUBSET {4, 6} :
       StartReaders(UNION {Listen(i, f) \cup (IF f \in failed THEN {} ELSE ListenMulticast(i, f))
                           : i \in ups, f \in {4, 6}})
  /\ UNCHANGED <<crashed, brokenNet, Nodes, recent, task, packets, acked, heard>>

\* The interfaces cannot be listed: from now on a refresh only announces.
RefreshFails ==
  /\ ~crashed /\ ~brokenNet
  /\ brokenNet' = TRUE
  /\ UNCHANGED <<crashed, socket, Nodes, recent, task, packets, acked, heard>>

\* AnnounceMulticast has no interface and passes nil to mcMessage, which reads a field
\* of it: the goroutine panics.
AnnounceMulticast ==
  /\ ~crashed /\ brokenNet
  /\ crashed' = TRUE
  /\ UNCHANGED <<brokenNet, socket, Nodes, recent, task, packets, acked, heard>>

\* The goroutine of PeriodicThread: a refresh at the start and at every tick.
PeriodicThread == RefreshNetworks \/ RefreshFails \/ AnnounceMulticast

\* Mutant: the socket is closed under a reader that is at work.
ReaderFailsBusy(r) ==
  /\ ~crashed /\ socket[r] # NoSocket
  /\ socket' = [socket EXCEPT ![r] = NoSocket]
  /\ UNCHANGED <<crashed, brokenNet, Nodes, recent, task, packets, acked, heard>>

\* A read fails: the reader closes its socket and ends.
ReaderFails(r) ==
  /\ ~crashed /\ socket[r] # NoSocket /\ task[r].at = "read"
  /\ socket' = [socket EXCEPT ![r] = NoSocket]
  /\ UNCHANGED <<crashed, brokenNet, Nodes, recent, task, packets, acked, heard>>

-----------------------------------------------------------------------------
(***************************************************************************)
(* A packet.  The table is looked up and written in two critical sections; *)
(* the fields of a record are not protected.                               *)
(***************************************************************************)

\* Peers announce over multicast and acknowledge to unicast sockets.
Receive(r) ==
  /\ ~crashed /\ socket[r] # NoSocket /\ task[r].at = "read" /\ packets < MaxPackets
  /\ packets' = packets + 1
  /\ \E p \in Peers, f \in (IF socket[r].fam = 0 THEN {4, 6} ELSE {socket[r].fam}) :
       task' = [task EXCEPT ![r] = [at |-> "lookup", from |-> p, fam |-> f, rec |-> packets']]
  /\ UNCHANGED <<crashed, brokenNet, socket, Nodes, recent, acked, heard>>

\* processMCAnnounce: the record of the sender, if there is one.
Lookup(r) ==
  /\ ~crashed /\ task[r].at = "lookup"
  /\ LET n == Nodes[task[r].from] IN
     task' = [task EXCEPT ![r].at = IF n = 0 THEN "insert" ELSE "window",
                          ![r].rec = IF n = 0 THEN @ ELSE n]
  /\ UNCHANGED <<crashed, brokenNet, socket, Nodes, recent, packets, acked, heard>>

\* A new record, also if another reader has inserted one meanwhile.  A nil map panics.
Insert(r) ==
  /\ ~crashed /\ task[r].at = "insert"
  /\ IF made
     THEN /\ Nodes' = [Nodes EXCEPT ![task[r].from] = task[r].rec]
          /\ task' = [task EXCEPT ![r].at = "window"]
          /\ UNCHANGED crashed
     ELSE crashed' = TRUE /\ UNCHANGED <<Nodes, task>>
  /\ UNCHANGED <<brokenNet, socket, recent, packets, acked, heard>>

\* Mutant: the window is the node's, whatever family the packet came by.
WindowAny(r) ==
  /\ ~crashed /\ task[r].at = "window"
  /\ task' = [task EXCEPT ![r].at = IF recent[task[r].rec] # {} THEN "read" ELSE "accept"]
  /\ UNCHANGED <<crashed, brokenNet, socket, Nodes, recent, packets, acked, heard>>

\* The test of LastSeen4 or LastSeen6: one packet in ten seconds is enough.
Window(r) ==
  /\ ~crashed /\ task[r].at = "window"
  /\ task' = [task EXCEPT ![r].at = IF task[r].fam \in recent[task[r].rec] THEN "read" ELSE "accept"]
  /\ UNCHANGED <<crashed, brokenNet, socket, Nodes, recent, packets, acked, heard>>

\* The stamp, and, on a multicast socket, the acknowledgement, sent twice (to the
\* port it came from and to udpPort).
AcceptPacket(r) ==
  /\ ~crashed /\ task[r].at = "accept"
  /\ recent' = [recent EXCEPT ![task[r].rec] = @ \cup {task[r].fam}]
  /\ IF socket[r].kind = "multicast"
     THEN acked' = acked \cup {<<task[r].from, task[r].fam>>} /\ UNCHANGED heard
     ELSE heard' = heard \cup {<<task[r].from, task[r].fam>>} /\ UNCHANGED acked
  /\ task' = [task EXCEPT ![r] = NoTask]
  /\ UNCHANGED <<crashed, brokenNet, socket, Nodes, packets>>

TenSeconds == /\ ~crashed /\ \E n \in 1..MaxPackets : recent[n] # {} /\ recent' = [recent EXCEPT ![n] = {}]
              /\ UNCHANGED <<crashed, brokenNet, socket, Nodes, task, packets, acked, heard>>

Process(r) == Lookup(r) \/ Insert(r) \/ Window(r) \/ AcceptPacket(r)

NextDisc ==
  /\ \/ PeriodicThread \/ TenSeconds
     \/ \E r \in Readers : ReaderFails(r) \/ Receive(r) \/ Process(r)
  /\ UNCHANGED <<fams, made>>

DiscSpec == InitDisc /\ [][NextDisc]_discAll

-----------------------------------------------------------------------------
DiscTypeOK ==
  /\ Nodes \in [Peers -> 0..packets] /\ recent \in [1..MaxPackets -> Node]
  /\ \A r \in Readers : task[r].at \in {"read", "lookup", "insert", "window", "accept"}
  /\ \A r \in Readers : task[r].at # "read" => socket[r] # NoSocket

\* "Multicast registration server. One for each interface" (multicastReaderThread).
OneListener ==
  \A q, r \in Readers : socket[q].kind = "multicast" /\ socket[q] = socket[r] => q = r

\* multicastReaderThread: a node that announces itself for the first time is
\* acknowledged in the family of its announcement, whatever the other readers do
\* meanwhile with packets of that node, unless it was heard itself on a unicast
\* socket in that family, which starts the same ten seconds without an answer.
FirstAnnounceAnswered ==
  \A r \in Readers, p \in Peers, f \in {4, 6} :
    (/\ task[r].at = "lookup" /\ task[r].from = p /\ task[r].fam = f
     /\ socket[r].kind = "multicast" /\ Nodes[p] = 0)
      ~> (crashed \/ <<p, f>> \in acked \cup heard)
=============================================================================
