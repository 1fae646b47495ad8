-------------------------------- MODULE Uds --------------------------------
(***************************************************************************)
(* The server of pkg/uds (uds.go, stream.go) and the table of connections  *)
(* of the message mux it feeds (pkg/webpush/mux.go, gate.go).              *)
(*                                                                         *)
(* Each accepted connection has a goroutine that cuts the byte stream into *)
(* frames (nextMessage), does the handshake, registers the connection with *)
(* the mux, hands its messages to the local handlers and unregisters it in *)
(* the end.  The application sends over all registered connections.        *)
(*                                                                         *)
(* A byte is its position in the stream of its connection.  A frame is     *)
(* Header bytes and a body; the buffer holds positions, so that a byte     *)
(* moved to the wrong place shows.                                         *)
(***************************************************************************)
EXTENDS Integers, Sequences, FiniteSetsExt

CONSTANTS
  None,
  Conns,      \* the connections
  Procs,      \* the processes at their other ends
  Header,     \* length of a frame header (5 in the code)
  BufSize,    \* len(uds.buffer) (32K in the code)
  Loads       \* what the others do: the body lengths of the frames the peers send, how
              \* many frames they send in all, whether the socket cuts and joins them,
              \* how many of the connections are used and how many messages the
              \* application sends

ASSUME UdsAssumption ==
  /\ Header \in Nat \ {0} /\ BufSize \in Nat /\ Header < BufSize
  /\ \A l \in Loads : /\ l.lens \subseteq Nat \ {0}
                       /\ l.frames \in Nat /\ l.conns \in Nat /\ l.sends \in Nat

VARIABLES
  load,       \* the load; fixed
  proc,       \* per connection: the process of its peer; fixed
  member,     \* per connection: its peer is of the server's group; fixed
  peer,       \* per connection: "none", "open" or "closed" by the peer
  frames,     \* per connection: the frames its peer wrote: where each starts in the
              \* stream, and the length of its body
  taken,      \* per connection: bytes taken from the socket
  buffer,     \* per connection: buffer[:endData] of the nextMessage in progress
  pc,         \* per connection: where serverStream is
  name,       \* per connection: conn.Name
  messages,   \* per connection: bodies handed to HandleMessageForNode
  cnt,        \* the package variable cnt
  connections,\* mux.connections, a map from names
  sending,    \* the SendMessage in progress
  sends,      \* messages the application has sent
  crashed     \* a panic or a fatal error has ended the process

readVars == <<taken, buffer>>
sendVars == <<sending, sends>>
sysVars  == <<peer, frames, readVars, pc, name, messages, cnt, connections, sendVars, crashed>>
vars     == <<load, proc, member, sysVars>>

ServerName == [proc |-> None, n |-> 0]
Names      == [proc : Procs, n : Nat] \cup {ServerName}

\* No SendMessage in progress: its phase, the topic, the names its loop must still visit
\* and those it has, the connections served when the loop started, and how often each
\* connection was written to.
Idle == [at |-> "idle", topic |-> "none", due |-> {}, seen |-> {}, served |-> {},
         copies |-> [c \in Conns |-> 0]]

Init ==
  /\ load \in Loads
  /\ proc \in [Conns -> Procs] /\ member \in [Conns -> BOOLEAN]
  /\ peer = [c \in Conns |-> "none"]
  /\ frames = [c \in Conns |-> <<>>]
  /\ taken = [c \in Conns |-> 0]
  /\ buffer = [c \in Conns |-> <<>>]
  /\ pc = [c \in Conns |-> "none"]
  /\ name = [c \in Conns |-> ServerName]
  /\ messages = [c \in Conns |-> <<>>]
  /\ cnt = 0
  /\ connections = <<>>
  /\ sending = Idle /\ sends = 0
  /\ crashed = FALSE

-----------------------------------------------------------------------------
(***************************************************************************)
(* The peers, and the socket between.  A frame is written by one Write.    *)
(***************************************************************************)

\* The stream position at which a frame ends, and how much a peer has written.
End(f)     == f.at + Header + f.len
Written(c) == IF frames[c] = <<>> THEN 0 ELSE End(frames[c][Len(frames[c])])
Available(c) == Written(c) - taken[c]

\* accept, and go serverStream.
Connect(c) ==
  /\ peer[c] = "none" /\ Cardinality({d \in Conns : peer[d] # "none"}) < load.conns
  /\ peer' = [peer EXCEPT ![c] = "open"]
  /\ pc' = [pc EXCEPT ![c] = "hello"]
  /\ UNCHANGED <<frames, readVars, name, messages, cnt, connections, sendVars, crashed>>

FramesSent == MapThenSumSet(LAMBDA d : Len(frames[d]), Conns)

PeerSends(c) ==
  /\ peer[c] = "open" /\ FramesSent < load.frames
  /\ \E n \in load.lens :
       frames' = [frames EXCEPT ![c] = Append(@, [at |-> Written(c), len |-> n])]
  /\ UNCHANGED <<peer, readVars, pc, name, messages, cnt, connections, sendVars, crashed>>

PeerCloses(c) ==
  /\ peer[c] = "open"
  /\ peer' = [peer EXCEPT ![c] = "closed"]
  /\ UNCHANGED <<frames, readVars, pc, name, messages, cnt, connections, sendVars, crashed>>

-----------------------------------------------------------------------------
(***************************************************************************)
(* nextMessage.                                                            *)
(***************************************************************************)

Receiving(c) == pc[c] \in {"hello", "serve"}
endData(c)   == Len(buffer[c])

\* The length the header at the front of the buffer says: that of the frame which
\* starts there, and no valid one if none does.
len1(c) ==
  LET is == {i \in 1..Len(frames[c]) :
               \A j \in 1..Header : buffer[c][j] = frames[c][i].at + j}
  IN IF is = {} THEN 0 ELSE frames[c][CHOOSE i \in is : TRUE].len

HasHeader(c) == endData(c) >= Header
Refused(c)   == HasHeader(c) /\ (len1(c) > BufSize \/ len1(c) = 0)
Complete(c)  == HasHeader(c) /\ ~Refused(c) /\ endData(c) >= len1(c) + Header

\* Mutant: streamCommon goes on after an error.
FailContinues(c) ==
  /\ pc' = [pc EXCEPT ![c] = IF @ = "hello" THEN "add" ELSE "serve"]
  /\ buffer' = [buffer EXCEPT ![c] = <<>>]

\* What serverHandshake and streamCommon do with an error: the first one's result is
\* not looked at (line 239), the second one closes.
Fail(c) ==
  /\ pc' = [pc EXCEPT ![c] = IF @ = "hello" THEN "add" ELSE "close"]
  /\ buffer' = [buffer EXCEPT ![c] = <<>>]

\* What they do with a message: the first is the handshake, the others are for the
\* handlers of the node.
Handle(c, body) ==
  /\ messages' = [messages EXCEPT ![c] = Append(@, body)]
  /\ pc' = [pc EXCEPT ![c] =
       IF @ = "serve" THEN "serve" ELSE IF member[c] THEN "name" ELSE "add"]

\* Mutant: the message itself is left over with what follows it.
KeepWhole(c) == UNCHANGED buffer

\* Lines 432-443 and, at the start of the next call, 406-414: what follows the message
\* is left over and moves to the front.
Keep(c) == buffer' = [buffer EXCEPT ![c] = SubSeq(@, len1(c) + Header + 1, Len(@))]

\* Lines 416-445.  A message that ends behind the buffer is out of the slice's bounds.
Parse(c) ==
  /\ Receiving(c)
  /\ \/ Refused(c) /\ Fail(c) /\ UNCHANGED <<messages, crashed>>
     \/ /\ Complete(c) /\ len1(c) + Header <= BufSize
        /\ Keep(c)
        /\ Handle(c, SubSeq(buffer[c], Header + 1, Header + len1(c)))
        /\ UNCHANGED crashed
     \/ /\ Complete(c) /\ len1(c) + Header > BufSize
        /\ crashed' = TRUE
        /\ UNCHANGED <<buffer, messages, pc>>
  /\ UNCHANGED <<peer, frames, taken, name, cnt, connections, sendVars>>

\* Mutant: what is read is not limited to the room in the buffer.
ReadMoreOver(c) ==
  /\ Receiving(c) /\ ~Refused(c) /\ ~Complete(c)
  /\ \E k \in 1..Available(c) :
       /\ buffer' = [buffer EXCEPT ![c] = @ \o [i \in 1..k |-> taken[c] + i]]
       /\ taken' = [taken EXCEPT ![c] = @ + k]
  /\ UNCHANGED <<peer, frames, pc, name, messages, cnt, connections, sendVars, crashed>>

\* Lines 447-457.  With no room left ReadMsgUnix takes one byte all the same, to receive
\* the control data that comes with it; the next Read is out of the slice's bounds.
ReadMore(c) ==
  /\ Receiving(c) /\ ~Refused(c) /\ ~Complete(c)
  /\ \/ /\ endData(c) <= BufSize
        /\ \E k \in 1..Available(c) :
             /\ k = 1 \/ endData(c) + k <= BufSize
             /\ load.cut \/ taken[c] + k \in {End(frames[c][i]) : i \in 1..Len(frames[c])}
             /\ buffer' = [buffer EXCEPT ![c] = @ \o [i \in 1..k |-> taken[c] + i]]
             /\ taken' = [taken EXCEPT ![c] = @ + k]
        /\ UNCHANGED <<pc, crashed>>
     \/ /\ endData(c) <= BufSize /\ Available(c) = 0 /\ peer[c] = "closed"
        /\ Fail(c)
        /\ UNCHANGED <<taken, crashed>>
     \/ /\ endData(c) > BufSize
        /\ crashed' = TRUE
        /\ UNCHANGED <<taken, buffer, pc>>
  /\ UNCHANGED <<peer, frames, name, messages, cnt, connections, sendVars>>

-----------------------------------------------------------------------------
(***************************************************************************)
(* serverHandshake and streamCommon around it.                             *)
(***************************************************************************)

\* Line 198: the name counts the connections, with a variable they share without a lock.
TakeName(c) ==
  /\ pc[c] = "name"
  /\ name' = [name EXCEPT ![c] = [proc |-> proc[c], n |-> cnt]]
  /\ pc' = [pc EXCEPT ![c] = "count"]
  /\ UNCHANGED <<peer, frames, readVars, messages, cnt, connections, sendVars, crashed>>

\* Lines 199-202: the increment may be lost to one that runs at the same time.  The
\* answer goes out.
Count(c) ==
  /\ pc[c] = "count"
  /\ cnt' \in {cnt + 1, name[c].n + 1}
  /\ pc' = [pc EXCEPT ![c] = "add"]
  /\ UNCHANGED <<peer, frames, readVars, name, messages, connections, sendVars, crashed>>

\* A write to the map while SendMessage reads or ranges over it, which holds no lock, may
\* be noticed by the runtime: a fatal error.
MapWrite == crashed' \in IF sending.at = "idle" THEN {FALSE} ELSE BOOLEAN

\* An entry written or deleted during the loop may be missed by it.
Forget(n) == sending' = [sending EXCEPT !.due = @ \ {n}]

AddConnection(c) ==
  /\ pc[c] = "add"
  /\ connections' = [n \in DOMAIN connections \cup {name[c]} |->
                       IF n = name[c] THEN c ELSE connections[n]]
  /\ MapWrite /\ Forget(name[c])
  /\ pc' = [pc EXCEPT ![c] = "serve"]
  /\ UNCHANGED <<peer, frames, readVars, name, messages, cnt, sends>>

\* Mutant: the entry stays.
RemoveNothing(c) ==
  /\ pc[c] = "close"
  /\ pc' = [pc EXCEPT ![c] = "done"]
  /\ UNCHANGED <<peer, frames, readVars, name, messages, cnt, connections, sendVars, crashed>>

\* The deferred function: the socket is closed and the entry deleted, by name, whoever is
\* registered under it.
RemoveConnection(c) ==
  /\ pc[c] = "close"
  /\ connections' = [n \in DOMAIN connections \ {name[c]} |-> connections[n]]
  /\ MapWrite /\ Forget(name[c])
  /\ pc' = [pc EXCEPT ![c] = "done"]
  /\ UNCHANGED <<peer, frames, readVars, name, messages, cnt, sends>>

-----------------------------------------------------------------------------
(***************************************************************************)
(* Mux.SendMessage of the application.                                     *)
(***************************************************************************)
Serving(c) == pc[c] \in {"serve", "close"}
Registered == DOMAIN connections
quiet == <<peer, frames, readVars, pc, name, messages, cnt, connections, crashed>>

\* Written to n's connection.
Write(n) ==
  [c \in Conns |-> sending.copies[c] + IF connections[n] = c THEN 1 ELSE 0]

\* A broadcast, or a message for one connection by name, on a topic the connections
\* have subscribed to ("net"), another one, or none.
SendStart ==
  /\ sending.at = "idle" /\ sends < load.sends
  /\ sends' = sends + 1
  /\ \E topic \in {"net", "other", "none"} :
       \E copies \in {Idle.copies} \cup {[c \in Conns |-> IF c = connections[n] THEN 1 ELSE 0] : n \in Registered} :
         sending' = [Idle EXCEPT !.at = "sent", !.topic = topic, !.copies = copies]
  /\ UNCHANGED quiet

\* Lines 156-163: without a topic nothing is passed on.
RangeStart ==
  /\ sending.at = "sent"
  /\ sending' = IF sending.topic = "none" THEN Idle
                ELSE [sending EXCEPT !.at = "range", !.due = Registered,
                                     !.served = {c \in Conns : Serving(c)}]
  /\ UNCHANGED <<quiet, sends>>

\* Mutant: the connections that have not subscribed get it.
maybeSendOther(n) == IF sending.topic = "other" THEN Write(n) ELSE sending.copies

maybeSend(n) == IF sending.topic = "net" THEN Write(n) ELSE sending.copies

RangeStep ==
  /\ sending.at = "range"
  /\ \E n \in Registered \ sending.seen :
       sending' = [sending EXCEPT !.due = @ \ {n}, !.seen = @ \cup {n}, !.copies = maybeSend(n)]
  /\ UNCHANGED <<quiet, sends>>

RangeEnd ==
  /\ sending.at = "range" /\ sending.due = {}
  /\ sending' = Idle
  /\ UNCHANGED <<quiet, sends>>

-----------------------------------------------------------------------------
Serve(c) ==
  \/ Parse(c) \/ ReadMore(c) \/ TakeName(c) \/ Count(c)
  \/ AddConnection(c) \/ RemoveConnection(c)

Send == SendStart \/ RangeStart \/ RangeStep \/ RangeEnd

Fixed == ~crashed /\ UNCHANGED <<load, proc, member>>

Next ==
  \/ \E c \in Conns : Fixed /\ (Connect(c) \/ PeerSends(c) \/ PeerCloses(c) \/ Serve(c))
  \/ Fixed /\ Send

Spec == Init /\ [][Next]_vars

\* The goroutine of a connection runs when it can; nothing makes the peers write or close.
FairSpec == Spec /\ \A c \in Conns : WF_sysVars(Fixed /\ Serve(c))

-----------------------------------------------------------------------------
\* The fields of UdsConn and of the mux keep their types.
TypeOK ==
  /\ taken \in [Conns -> Nat]
  /\ buffer \in [Conns -> Seq(Nat)]
  /\ \A c \in Conns : Len(buffer[c]) <= BufSize + 1
  /\ pc \in [Conns -> {"none", "hello", "name", "count", "add", "serve", "close", "done"}]
  /\ name \in [Conns -> Names]
  /\ Registered \subseteq Names /\ connections \in [Registered -> Conns]

\* The i-th frame of c, as the positions of its body.
Body(c, i) == [j \in 1..frames[c][i].len |-> frames[c][i].at + Header + j]

Fits(c) == \A i \in DOMAIN frames[c] : frames[c][i].len + Header <= BufSize

\* nextMessage returns the bodies that were written, whole, in order, none twice and none
\* skipped, however the reads cut or join the frames; and a connection whose frames fit the
\* buffer is closed only when all were handled, also those written right before the close.
MessagesExact ==
  \A c \in Conns :
    /\ Len(messages[c]) <= Len(frames[c])
    /\ \A i \in DOMAIN messages[c] : messages[c][i] = Body(c, i)
    /\ pc[c] \in {"close", "done"} /\ Fits(c) => Len(messages[c]) = Len(frames[c])

Unique(c) == \A d \in Conns \ {c} : name[d] # name[c]

\* The mux never holds a connection whose goroutine is gone, and a connection that is being
\* served can be reached through it, unless another one was given its name.
TableExact ==
  /\ \A n \in Registered : Serving(connections[n]) /\ name[connections[n]] = n
  /\ \A c \in Conns : Serving(c) /\ Unique(c) =>
       name[c] \in Registered /\ connections[name[c]] = c

\* When a SendMessage on a topic ends, every connection that has subscribed to it and was
\* served since the loop started has been sent the message, unless another one was given its
\* name; on other topics only the connection it was addressed to has.
SentToSubscribers ==
  /\ sending.at = "range" /\ sending.due = {} /\ sending.topic = "net" =>
       \A c \in sending.served : Serving(c) /\ Unique(c) => sending.copies[c] >= 1
  /\ sending.topic = "other" =>
       \A c, d \in Conns : sending.copies[c] > 0 /\ sending.copies[d] > 0 => c = d

\* A connection that the peer closed leaves the table.
ClosedIsRemoved == \A c \in Conns : (peer[c] = "closed") ~> (pc[c] = "done" \/ crashed)
=============================================================================
