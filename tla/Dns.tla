-------------------------------- MODULE Dns --------------------------------
(***************************************************************************)
(* DmDns, the resolver of the gateway (pkg/dns/dns.go, pkg/dns/dns_http.go).*)
(* Do is called by many goroutines at once: by the DNS server for every    *)
(* packet, by HandleUdp for every captured packet, by DNSOverTCP for a     *)
(* captured connection to port 53, and by ServeHTTP.  It                   *)
(* takes dnsLock twice, before and after it asks the nameservers, and in   *)
(* between anything may happen; what it builds is the map from addresses   *)
(* back to names that NameByAddr and HostByAddr serve.                     *)
(*                                                                         *)
(* A DnsEntry is created once per name and never replaced, so a pointer to *)
(* it is its name.  Record types, latencies and times are left out.        *)
(***************************************************************************)
EXTENDS Integers, Sequences, FiniteSets, SequencesExt

CONSTANTS
  Names,      \* names with an entry of their own
  LocalNames, \* the ones under .dm. or .m.
  Probe,      \* a single long label: what devices ask to see if there is a resolver
  Addrs,      \* addresses in answers
  NServers,   \* len(s.Nameservers)
  Workers,    \* goroutines
  MaxQueries, \* bound on the queries received
  None

ASSUME DnsAssumption ==
  /\ LocalNames \subseteq Names /\ Probe \notin Names
  /\ NServers \in Nat \ {0} /\ MaxQueries \in Nat
  /\ None \notin Names \cup Addrs

Ids    == 1..MaxQueries
Vias   == {"packet", "post"}  \* a POST to ServeHTTP; any other caller of Do
Answer == Names \X Addrs                        \* the name in the header, the address

\* What a nameserver may answer for n: nothing, an address, an address under
\* the name n is an alias for, or both.
AnswersFor(n) ==
  {<<>>} \cup {<< <<n, a>> >> : a \in Addrs} \cup {<< <<c, a>> >> : c \in Names \ {n}, a \in Addrs}
         \cup {<< <<c, a>>, <<n, a>> >> : c \in Names \ {n}, a \in Addrs}

VARIABLES
  clients,  \* "packet": many at once; "tcp": one, on a captured connection; fixed
  records,  \* dnsEntries: the address of a local name, or None
  byName,   \* dnsByName: an entry [count, rcount, ip], or None
  byAddr,   \* dnsByAddr: the name of the entry, or None
  pc,       \* per worker: where Do is
  cur,      \* per worker: the number of its query, 0 when it has none
  nsIdx,    \* per worker: the nameserver to ask
  res,      \* per worker: the reply so far
  tcp,      \* the captured TCP connection: its goroutine w or None, the queries ids
            \* that have not been read to the end, the bytes left unread, the
            \* offset off, and whether the buffer no longer starts with a message
  query,    \* per query: [name, via], or None
  tried,    \* history, per query: what each nameserver asked said
  sent,     \* history, per query: the reply sent, None so far, or Lost
  added     \* history: local names AddRecord was called for

mapVars == <<byName, byAddr>>
workVars == <<pc, cur, nsIdx, res, tcp>>
histVars == <<query, tried, sent>>
vars == <<clients, records, mapVars, workVars, histVars, added>>

Lost  == [rcode |-> "lost", answer |-> <<>>]
NoRes == [rcode |-> "none", answer |-> <<>>]
NoTcp == [w |-> None, ids |-> <<>>, left |-> 0, off |-> 0, astray |-> FALSE]
Fail  == [rcode |-> "servfail", answer |-> <<>>]

Init ==
  /\ clients \in {"packet", "tcp"}
  /\ records = [n \in LocalNames |-> None]
  /\ byName = [n \in Names |-> None]
  /\ byAddr = [a \in Addrs |-> None]
  /\ pc = [w \in Workers |-> "ready"]
  /\ cur = [w \in Workers |-> 0]
  /\ nsIdx = [w \in Workers |-> 0]
  /\ res = [w \in Workers |-> NoRes]
  /\ tcp = NoTcp
  /\ query = [i \in Ids |-> None]
  /\ tried = [i \in Ids |-> <<>>]
  /\ sent = [i \in Ids |-> None]
  /\ added = {}

Goto(w, l) == pc' = [pc EXCEPT ![w] = l]

Name(w) == query[cur[w]].name

\* The next free query number.
Fresh == CHOOSE i \in Ids : query[i] = None /\ \A j \in Ids : query[j] = None => i <= j

\* The name an address was looked up for; HostByAddr and IPResolve return it too.
NameByAddr(a) == byAddr[a]

-----------------------------------------------------------------------------
\* A query arrives.  A DNS-over-HTTP POST is read with io.ReadFull into the
\* whole 4096 byte buffer: a shorter body is an error and is dropped.
Receive(w, n, v) ==
  /\ clients = "packet" /\ pc[w] = "ready" /\ \E i \in Ids : query[i] = None
  /\ LET i == Fresh IN
     /\ query' = [query EXCEPT ![i] = [name |-> n, via |-> v]]
     /\ IF v = "post"
        THEN sent' = [sent EXCEPT ![i] = Lost] /\ UNCHANGED workVars
        ELSE /\ cur' = [cur EXCEPT ![w] = i] /\ Goto(w, "do")
             /\ UNCHANGED <<nsIdx, res, tcp, sent>>
  /\ UNCHANGED <<records, mapVars, tried, added>>

\* Mutant: a probe gets no reply.
RefuseDrops(w) ==
  /\ pc[w] = "do" /\ Name(w) \in {None, Probe}
  /\ cur' = [cur EXCEPT ![w] = 0]
  /\ Goto(w, "ready")
  /\ UNCHANGED <<records, mapVars, nsIdx, res, tcp, histVars, added>>

\* A probe is answered at once, and so is a message without a question (a
\* query for None).
Refuse(w) ==
  /\ pc[w] = "do" /\ Name(w) \in {None, Probe}
  /\ res' = [res EXCEPT ![w] = IF Name(w) = None THEN Fail ELSE [Fail EXCEPT !.rcode = "nxdomain"]]
  /\ Goto(w, "send")
  /\ UNCHANGED <<records, mapVars, cur, nsIdx, tcp, histVars, added>>

\* The first critical section: the entry of the name exists and is counted.
Register(w) ==
  /\ pc[w] = "do" /\ Name(w) \in Names
  /\ byName' = [byName EXCEPT ![Name(w)] =
                  IF @ = None THEN [count |-> 1, rcount |-> 0, ip |-> None]
                  ELSE [@ EXCEPT !.count = @ + 1]]
  /\ Goto(w, IF Name(w) \in LocalNames THEN "local" ELSE "forward")
  /\ UNCHANGED <<records, byAddr, cur, nsIdx, res, tcp, histVars, added>>

\* localQuery: what getRecord has, under RLock.
localQuery(w) ==
  /\ pc[w] = "local"
  /\ res' = [res EXCEPT ![w] =
               [rcode |-> "success",
                answer |-> IF records[Name(w)] = None THEN <<>>
                           ELSE << <<Name(w), records[Name(w)]>> >>]]
  /\ Goto(w, "record")
  /\ UNCHANGED <<records, mapVars, cur, nsIdx, tcp, histVars, added>>

\* AddRecord: a domain without records gets a new map of its own, which is
\* filled and never put into dnsEntries.
AddRecord(n, a) ==
  /\ n \notin added
  /\ records' = IF records[n] = None THEN records ELSE [records EXCEPT ![n] = a]
  /\ added' = added \cup {n}
  /\ UNCHANGED <<mapVars, workVars, histVars>>

-----------------------------------------------------------------------------
(* ForwardRealDNS: at most two tries, each at the next nameserver.         *)

\* One Exchange: an answer, a refusal that ends the search ("nxdomain" stands
\* for the three other final codes too), a failure at the server, or none.
Outcomes(n) ==
  [rcode : {"success"}, answer : AnswersFor(n)]
    \cup [rcode : {"nxdomain", "servfail", "timeout"}, answer : {<<>>}]

Final(o) == o.rcode \in {"success", "nxdomain"}

\* Mutant: the index may run past the list.
LastTryOver(w) == nsIdx[w] = NServers

\* Whether the loop ends after this try.
LastTry(w) == nsIdx[w] = 1 \/ nsIdx[w] = NServers - 1

Exchange(w, o) ==
  /\ pc[w] = "forward" /\ o \in Outcomes(Name(w))
  /\ tried' = [tried EXCEPT ![cur[w]] = Append(@, [server |-> nsIdx[w], said |-> o])]
  /\ IF Final(o) \/ LastTry(w)
     THEN /\ res' = [res EXCEPT ![w] = IF o.rcode = "timeout" THEN Fail ELSE o]
          /\ Goto(w, "record") /\ UNCHANGED nsIdx
     ELSE nsIdx' = [nsIdx EXCEPT ![w] = @ + 1] /\ UNCHANGED <<pc, res>>
  /\ UNCHANGED <<records, mapVars, cur, tcp, query, sent, added>>

-----------------------------------------------------------------------------
(* The second critical section, over the answers in order.                 *)

\* Mutant: every address is entered for the first name of the answer.
RecordOneAlways(m, x) ==
  LET n == x[1]  a == x[2] IN
  IF m.name[n] = None THEN [m EXCEPT !.addr[a] = n]
  ELSE [m EXCEPT !.name[n].ip = a, !.name[n].rcount = @ + 1, !.addr[a] = n]

RecordOne(m, x) ==
  LET n == x[1]  a == x[2]
      e == IF m.addr[a] = None THEN n ELSE m.addr[a]
  IN IF m.name[n] = None THEN m
     ELSE [name |-> [[m.name EXCEPT ![n].ip = a] EXCEPT ![e].rcount = @ + 1],
           addr |-> [m.addr EXCEPT ![a] = e]]

\* Mutant: the reply goes out first.
RecordLater(w) ==
  /\ pc[w] = "record"
  /\ Goto(w, "send")
  /\ UNCHANGED <<records, mapVars, cur, nsIdx, res, tcp, histVars, added>>

Record(w) ==
  /\ pc[w] = "record"
  /\ LET m == FoldLeft(RecordOne, [name |-> byName, addr |-> byAddr], res[w].answer)
     IN byName' = m.name /\ byAddr' = m.addr
  /\ Goto(w, "send")
  /\ UNCHANGED <<records, cur, nsIdx, res, tcp, histVars, added>>

\* The reply is written, or every way to write it fails; the goroutine is done.
Send(w, ok) ==
  /\ pc[w] = "send" /\ query[cur[w]].via # "tcp"
  /\ sent' = [sent EXCEPT ![cur[w]] = IF ok THEN res[w] ELSE Lost]
  /\ pc' = [pc EXCEPT ![w] = "ready"] /\ cur' = [cur EXCEPT ![w] = 0]
  /\ nsIdx' = [nsIdx EXCEPT ![w] = 0] /\ res' = [res EXCEPT ![w] = NoRes]
  /\ UNCHANGED <<records, mapVars, tcp, query, tried, added>>

-----------------------------------------------------------------------------
(* DNSOverTCP.  A message is its length, in two bytes, and one more byte.  *)

Prefix == 2
Packet == 3

TcpOpen(w) ==
  /\ clients = "tcp" /\ pc[w] = "ready" /\ tcp.w = None
  /\ tcp' = [tcp EXCEPT !.w = w] /\ Goto(w, "tcp")
  /\ UNCHANGED <<records, mapVars, cur, nsIdx, res, histVars, added>>

\* The client sends a query, without waiting for the reply to an earlier one.
TcpAsk(n) ==
  /\ tcp.w # None /\ \E i \in Ids : query[i] = None
  /\ query' = [query EXCEPT ![Fresh] = [name |-> n, via |-> "tcp"]]
  /\ tcp' = [tcp EXCEPT !.ids = Append(@, Fresh), !.left = @ + Packet]
  /\ UNCHANGED <<records, mapVars, pc, cur, nsIdx, res, tried, sent, added>>

\* A Read of k bytes does not make a message: the goroutine reads on.
TcpReadOn(w, k) ==
  /\ tcp' = [tcp EXCEPT !.off = @ + k, !.left = @ - k]
  /\ UNCHANGED <<pc, cur, query>>

\* The message at the front of the buffer is given to Do, as a query for n.  off stays
\* as it is, so the next message follows the part of this one that was read first.
TcpDo(w, k, n) ==
  /\ tcp.ids # <<>>
  /\ query' = [query EXCEPT ![Head(tcp.ids)].name = n]
  /\ tcp' = [tcp EXCEPT !.ids = Tail(@), !.left = @ - k,
                       !.astray = @ \/ tcp.off > 0 \/ k # Packet]
  /\ cur' = [cur EXCEPT ![w] = Head(tcp.ids)] /\ Goto(w, "do")

\* Fewer bytes than the length says are unpacked with what the buffer held before,
\* which may be any query; more bytes than it says are taken for too few.
TcpRead(w, k) ==
  /\ pc[w] = "tcp" /\ k <= tcp.left
  /\ LET end == tcp.off + k IN
     CASE tcp.astray -> TcpReadOn(w, k) \/ (\E n \in Names \cup {Probe, None} : TcpDo(w, k, n))
       [] ~tcp.astray /\ end = Prefix -> \E n \in Names \cup {Probe, None} : TcpDo(w, k, n)
       [] ~tcp.astray /\ end = Packet -> TcpDo(w, k, query[Head(tcp.ids)].name)
       [] OTHER -> TcpReadOn(w, k)
  /\ UNCHANGED <<records, mapVars, nsIdx, res, tried, sent, added>>

TcpEnd(w, answered) ==
  /\ sent' = [i \in Ids |-> IF i \in Range(tcp.ids) THEN Lost ELSE answered[i]]
  /\ tcp' = NoTcp /\ Goto(w, "ready")

\* The reply is written; a failure ends the connection, and so does a reply of another
\* length than the last Read.
TcpSend(w, ok, same) ==
  /\ pc[w] = "send" /\ query[cur[w]].via = "tcp"
  /\ LET answered == [sent EXCEPT ![cur[w]] = IF ok THEN res[w] ELSE Lost] IN
     IF ok /\ same
     THEN sent' = answered /\ Goto(w, "tcp") /\ UNCHANGED tcp
     ELSE TcpEnd(w, answered)
  /\ cur' = [cur EXCEPT ![w] = 0]
  /\ nsIdx' = [nsIdx EXCEPT ![w] = 0] /\ res' = [res EXCEPT ![w] = NoRes]
  /\ UNCHANGED <<records, mapVars, query, tried, added>>

\* The client closes, or the buffer is full and Read returns 0.
TcpClose(w) ==
  /\ pc[w] = "tcp"
  /\ TcpEnd(w, sent)
  /\ UNCHANGED <<records, mapVars, cur, nsIdx, res, query, tried, added>>

TcpServe(w) == \E k \in 1..(MaxQueries * Packet) : TcpRead(w, k)

Work(w) ==
  \/ Refuse(w)
  \/ Register(w)
  \/ localQuery(w)
  \/ \E o \in Outcomes(Name(w)) : Exchange(w, o)
  \/ Record(w)
  \/ \E ok \in BOOLEAN : Send(w, ok)
  \/ \E ok, same \in BOOLEAN : TcpSend(w, ok, same)

Next ==
  /\ \/ \E w \in Workers :
          \/ \E n \in Names \cup {Probe, None}, v \in Vias : Receive(w, n, v)
          \/ cur[w] # 0 /\ Work(w)
          \/ TcpOpen(w)
          \/ TcpServe(w)
          \/ TcpClose(w)
     \/ \E n \in Names \cup {Probe, None} : TcpAsk(n)
     \/ \E n \in LocalNames, a \in Addrs : AddRecord(n, a)
  /\ UNCHANGED clients

Spec == Init /\ [][Next]_vars

\* Exchange has a timeout, and goroutines are scheduled.
FairSpec ==
  /\ Spec
  /\ \A w \in Workers : /\ WF_vars(cur[w] # 0 /\ Work(w) /\ UNCHANGED clients)
                        /\ WF_vars(TcpServe(w) /\ UNCHANGED clients)

-----------------------------------------------------------------------------
(* Properties.                                                             *)

Entry == [count : Nat, rcount : Nat, ip : Addrs \cup {None}]

\* The maps of DmDns and the goroutines in Do keep their types; a nameserver index is
\* always one of s.Nameservers (pkg/dns/dns.go:494-573).
TypeOK ==
  /\ clients \in {"packet", "tcp"}
  /\ \A n \in Names : byName[n] = None \/ byName[n] \in Entry
  /\ byAddr \in [Addrs -> Names \cup {None}]
  /\ pc \in [Workers -> {"ready", "tcp", "do", "local", "forward", "record", "send"}]
  /\ cur \in [Workers -> 0..MaxQueries]
  /\ nsIdx \in [Workers -> 0..(NServers - 1)]
  /\ \A w \in Workers : (cur[w] = 0) = (pc[w] \in {"ready", "tcp"})
  /\ tcp.left \in Nat /\ tcp.off \in Nat /\ Range(tcp.ids) \subseteq Ids

Answered(i) == sent[i] # None /\ sent[i] # Lost

\* The address map leads only to names that were asked for, and from an
\* address only to a name that a nameserver gave it to: never, through an
\* alias or another goroutine's answer, to a name without that address
\* (pkg/dns/dns.go:402-428).
AddrMapSound ==
  \A a \in Addrs : byAddr[a] # None =>
    /\ byName[byAddr[a]] # None
    /\ \E i \in Ids : \E k \in 1..Len(tried[i]) :
         <<byAddr[a], a>> \in Range(tried[i][k].said.answer)

\* When a client has been sent an address for a name, the address can be
\* mapped back, for whoever asks about the connection it opens next
\* (pkg/dns/dns.go:401-431, 226-232).
KnownWhenSent ==
  \A i \in Ids : Answered(i) =>
    \A k \in 1..Len(sent[i].answer) :
      sent[i].answer[k][1] = query[i].name => NameByAddr(sent[i].answer[k][2]) # None

\* Every query that gets to Do ends: its goroutine sends a reply, or fails to,
\* whatever the nameservers and the other goroutines do.  Over TCP, except when more
\* than a message came in one Read (pkg/dns/dns.go:287), or one came in parts.
EveryQueryEnds ==
  \A i \in Ids : (query[i] # None) ~> (sent[i] # None \/ tcp.off > Packet \/ tcp.astray)
=============================================================================
