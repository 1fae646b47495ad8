----------------------------- MODULE UdsProofs -----------------------------
(***************************************************************************)
(* Proofs about the server of pkg/uds and the table of its mux (Uds): for  *)
(* any number of connections, frames and frame lengths, and however the    *)
(* socket cuts and joins the frames, messages come out as they were        *)
(* written, the table stays exact, and SendMessage reaches every           *)
(* subscriber.                                                             *)
(***************************************************************************)
EXTENDS UdsFraming

\* Time for each leaf of the proofs.
USE SMTT(30), ZenonT(20)

SendTypes ==
  /\ sending \in [at : {"idle", "sent", "range"}, topic : {"net", "other", "none"},
                  due : SUBSET Names, seen : SUBSET Names, served : SUBSET Conns,
                  copies : [Conns -> Nat]]
  /\ sends \in Nat

-----------------------------------------------------------------------------
(***************************************************************************)
(* The table.                                                              *)
(***************************************************************************)

\* Another connection with c's name was added to the table since c was, or before.
Rival(c) == \E d \in Conns \ {c} : name[d] = name[c] /\ pc[d] \in {"serve", "close", "done"}

Table ==
  /\ \A n \in Registered : Serving(connections[n]) /\ name[connections[n]] = n
  /\ \A c \in Conns : Serving(c) /\ ~Rival(c) =>
       name[c] \in Registered /\ connections[name[c]] = c

\* SendMessage's loop still has to visit a connection, or has written to it.
Sending ==
  /\ sending.at = "range" =>
       \A c \in sending.served :
         /\ pc[c] \in {"serve", "close", "done"}
         /\ sending.topic = "net" /\ Serving(c) /\ ~Rival(c) =>
              name[c] \in sending.due \/ sending.copies[c] >= 1
  /\ sending.topic = "other" =>
       \A c, d \in Conns : sending.copies[c] > 0 /\ sending.copies[d] > 0 => c = d

IInv == TypeOK /\ MoreTypes /\ SendTypes /\ Framing /\ Table /\ Sending

-----------------------------------------------------------------------------
\* Types.

\* The initial types.
LEMMA InitTypes == Init => TypeOK /\ MoreTypes /\ SendTypes
<1> SUFFICES ASSUME Init PROVE TypeOK /\ MoreTypes /\ SendTypes
  OBVIOUS
<1>1. /\ taken \in [Conns -> Nat] /\ buffer \in [Conns -> Seq(Nat)]
      /\ \A c \in Conns : Len(buffer[c]) <= BufSize + 1
  BY UdsAssumption DEF Init
<1>2. /\ pc \in [Conns -> {"none", "hello", "name", "count", "add", "serve", "close", "done"}]
      /\ name \in [Conns -> Names]
  BY DEF Init, Names
<1>3. Registered = {} /\ connections \in [Registered -> Conns]
  BY DEF Init, Registered
<1>4. MoreTypes
  BY DEF Init, MoreTypes
<1>5. SendTypes
  BY DEF Init, Idle, SendTypes
<1> QED BY <1>1, <1>2, <1>3, <1>4, <1>5 DEF TypeOK

\* Every step preserves the types.
LEMMA TypesStep ==
  ASSUME IInv, Next
  PROVE  TypeOK' /\ MoreTypes' /\ SendTypes'
<1> USE DEF sendVars, readVars
<1>1. TypeOK /\ MoreTypes /\ SendTypes /\ Framing
  BY DEF IInv
<1>2. CASE UNCHANGED <<load, proc, member>> /\ \E c \in Conns : Connect(c)
  BY <1>1, <1>2 DEF Connect, TypeOK, MoreTypes, SendTypes, Registered
<1>3. CASE UNCHANGED <<load, proc, member>> /\ \E c \in Conns : PeerSends(c)
  <2>1. PICK c \in Conns : PeerSends(c)
    BY <1>3
  <2>2. PICK k \in load.lens :
          frames' = [frames EXCEPT ![c] = Append(@, [at |-> Written(c), len |-> k])]
    BY <2>1, Zenon DEF PeerSends
  <2>3. k \in Nat \ {0}
    BY <1>1, UdsAssumption DEF MoreTypes
  <2>4. [at |-> Written(c), len |-> k] \in Frames
    BY <1>1, <2>3, StreamTypes DEF Frames
  <2>5. Append(frames[c], [at |-> Written(c), len |-> k]) \in Seq(Frames)
    BY <1>1, <2>4, StreamTypes, Appended
  <2>6. frames' \in [Conns -> Seq(Frames)]
    BY <1>1, <2>2, <2>5 DEF MoreTypes
  <2> QED BY <1>1, <1>3, <2>1, <2>6, Zenon DEF PeerSends, TypeOK, MoreTypes, SendTypes, Registered
<1>4. CASE UNCHANGED <<load, proc, member>> /\ \E c \in Conns : PeerCloses(c)
  BY <1>1, <1>4 DEF PeerCloses, TypeOK, MoreTypes, SendTypes, Registered
<1>5. CASE UNCHANGED <<load, proc, member>> /\ \E c \in Conns : Parse(c)
  <2>1. PICK c \in Conns : Parse(c)
    BY <1>5
  <2>2. /\ UNCHANGED <<peer, frames, taken, name, cnt, connections, sending, sends>>
    BY <2>1 DEF Parse
  <2>3. /\ buffer' \in [Conns -> Seq(Nat)] /\ messages' \in [Conns -> Seq(Seq(Nat))]
        /\ \A d \in Conns : Len(buffer'[d]) <= BufSize + 1
        /\ pc' \in [Conns -> {"none", "hello", "name", "count", "add", "serve", "close", "done"}]
    <3>0. /\ buffer \in [Conns -> Seq(Nat)] /\ buffer[c] \in Seq(Nat)
          /\ messages \in [Conns -> Seq(Seq(Nat))] /\ messages[c] \in Seq(Seq(Nat))
          /\ \A d \in Conns : Len(buffer[d]) <= BufSize + 1
          /\ pc \in [Conns -> {"none", "hello", "name", "count", "add", "serve", "close", "done"}]
          /\ Len(buffer[c]) \in Nat /\ BufSize \in Nat /\ Header \in Nat
      BY <1>1, StreamTypes DEF TypeOK, MoreTypes
    <3>1. CASE Refused(c) /\ Fail(c) /\ UNCHANGED messages
      BY <3>0, <3>1 DEF Fail
    <3>2. CASE Complete(c) /\ Keep(c) /\ Handle(c, SubSeq(buffer[c], Header + 1, Header + len1(c)))
      <4>0. PICK p \in Nat : Holds(c, p)
        <5>1. FramingOf(c) /\ pc[c] \in {"hello", "serve"}
          BY <1>1, <2>1 DEF Framing, Parse, Receiving
        <5>2. NextAt(c) \in Nat
          <6>1. CASE Len(messages[c]) < Len(frames[c])
            <7>1. Len(messages[c]) + 1 \in 1..Len(frames[c])
              BY <1>1, <6>1, StreamTypes
            <7>2. frames[c][Len(messages[c]) + 1].at \in Nat
              BY <1>1, <7>1, StreamTypes
            <7> QED BY <6>1, <7>2 DEF NextAt
          <6>2. CASE ~(Len(messages[c]) < Len(frames[c]))
            BY <1>1, <6>2, StreamTypes DEF NextAt
          <6> QED BY <6>1, <6>2
        <5>3. CASE Synced(c)
          BY <5>2, <5>3 DEF Synced
        <5>4. CASE Lost(c)
          BY <5>4 DEF Lost
        <5> QED BY <5>1, <5>3, <5>4 DEF FramingOf
      <4>1. Consecutive(buffer[c], p, taken[c]) /\ taken[c] \in Nat
        BY <1>1, <4>0, StreamTypes DEF Holds, Consecutive
      <4>2. len1(c) \in Nat /\ len1(c) + Header <= Len(buffer[c])
        <5>1. len1(c) \in Nat
          <6> DEFINE is == {i \in 1..Len(frames[c]) :
                              \A j \in 1..Header : buffer[c][j] = frames[c][i].at + j}
          <6>1. \A i \in is : frames[c][i].len \in Nat
            BY <1>1, StreamTypes
          <6>2. CASE is = {}
            BY <6>2 DEF len1
          <6>3. CASE is # {}
            <7>1. (CHOOSE i \in is : TRUE) \in is
              BY <6>3
            <7>2. frames[c][CHOOSE i \in is : TRUE].len \in Nat
              BY <6>1, <7>1, Zenon
            <7> QED BY <6>3, <7>2 DEF len1
          <6> QED BY <6>2, <6>3
        <5> QED BY <3>0, <3>2, <5>1 DEF Complete, endData
      <4>3. SubSeq(buffer[c], Header + 1, Header + len1(c)) \in Seq(Nat)
        <5>1. Header + len1(c) <= Len(buffer[c])
          BY <3>0, <4>2
        <5> QED BY <3>0, <4>1, <4>2, <5>1, TakeBytes
      <4>4. /\ SubSeq(buffer[c], len1(c) + Header + 1, Len(buffer[c])) \in Seq(Nat)
            /\ Len(SubSeq(buffer[c], len1(c) + Header + 1, Len(buffer[c]))) <= Len(buffer[c])
        <5>1. len1(c) + Header \in 0..Len(buffer[c])
          BY <3>0, <4>2
        <5> DEFINE k == len1(c) + Header
        <5> HIDE DEF k
        <5>2. k \in 0..Len(buffer[c]) /\ k \in Nat
          BY <3>0, <5>1 DEF k
        <5>3. /\ SubSeq(buffer[c], k + 1, Len(buffer[c])) \in Seq(Nat)
              /\ Len(SubSeq(buffer[c], k + 1, Len(buffer[c]))) = Len(buffer[c]) - k
          BY <3>0, <4>1, <5>2, DropBytes
        <5>4. Len(SubSeq(buffer[c], k + 1, Len(buffer[c]))) <= Len(buffer[c])
          BY <3>0, <5>2, <5>3
        <5> QED BY <5>3, <5>4 DEF k
      <4>5. Append(messages[c], SubSeq(buffer[c], Header + 1, Header + len1(c))) \in Seq(Seq(Nat))
        BY <3>0, <4>3, Appended
      <4>6. messages' \in [Conns -> Seq(Seq(Nat))]
        BY <3>0, <3>2, <4>5 DEF Handle
      <4>7. buffer' \in [Conns -> Seq(Nat)]
        BY <3>0, <3>2, <4>4 DEF Keep
      <4>8. ASSUME NEW d \in Conns PROVE Len(buffer'[d]) <= BufSize + 1
        <5>1. CASE d = c
          <6>1. buffer'[d] = SubSeq(buffer[c], len1(c) + Header + 1, Len(buffer[c]))
            BY <3>0, <3>2, <5>1, Zenon DEF Keep
          <6>2. Len(buffer'[d]) \in Nat
            BY <4>7
          <6> QED BY <3>0, <4>4, <6>1, <6>2
        <5>2. CASE d # c
          BY <3>0, <3>2, <5>2 DEF Keep
        <5> QED BY <5>1, <5>2
      <4>9. pc' \in [Conns -> {"none", "hello", "name", "count", "add", "serve", "close", "done"}]
        BY <3>0, <3>2 DEF Handle
      <4> QED BY <4>6, <4>7, <4>8, <4>9
    <3>3. CASE UNCHANGED <<buffer, messages, pc>>
      BY <3>0, <3>3
    <3> QED BY <2>1, <3>1, <3>2, <3>3 DEF Parse
  <2> QED BY <1>1, <1>5, <2>2, <2>3, Zenon DEF TypeOK, MoreTypes, SendTypes, Registered
<1>6. CASE UNCHANGED <<load, proc, member>> /\ \E c \in Conns : ReadMore(c)
  <2>1. PICK c \in Conns : ReadMore(c)
    BY <1>6
  <2>2. UNCHANGED <<peer, frames, name, messages, cnt, connections, sending, sends>>
    BY <2>1 DEF ReadMore
  <2>0. /\ buffer \in [Conns -> Seq(Nat)] /\ buffer[c] \in Seq(Nat)
        /\ taken \in [Conns -> Nat] /\ taken[c] \in Nat /\ Written(c) \in Nat
        /\ \A d \in Conns : Len(buffer[d]) <= BufSize + 1
        /\ pc \in [Conns -> {"none", "hello", "name", "count", "add", "serve", "close", "done"}]
        /\ Len(buffer[c]) \in Nat /\ BufSize \in Nat
    BY <1>1, StreamTypes DEF TypeOK, MoreTypes
  <2>3. /\ buffer' \in [Conns -> Seq(Nat)] /\ taken' \in [Conns -> Nat]
        /\ \A d \in Conns : Len(buffer'[d]) <= BufSize + 1
        /\ pc' \in [Conns -> {"none", "hello", "name", "count", "add", "serve", "close", "done"}]
    <3>1. ASSUME endData(c) <= BufSize, UNCHANGED pc, NEW k \in 1..Available(c),
                 k = 1 \/ endData(c) + k <= BufSize,
                 buffer' = [buffer EXCEPT ![c] = @ \o [i \in 1..k |-> taken[c] + i]],
                 taken' = [taken EXCEPT ![c] = @ + k]
          PROVE  /\ buffer' \in [Conns -> Seq(Nat)] /\ taken' \in [Conns -> Nat]
                 /\ \A d \in Conns : Len(buffer'[d]) <= BufSize + 1
                 /\ pc' = pc
      <4>1. k \in Nat
        BY <2>0 DEF Available
      <4>2. [i \in 1..k |-> taken[c] + i] \in Seq(Nat) /\ Len([i \in 1..k |-> taken[c] + i]) = k
        BY <2>0, <4>1
      <4>3. /\ buffer[c] \o [i \in 1..k |-> taken[c] + i] \in Seq(Nat)
            /\ Len(buffer[c] \o [i \in 1..k |-> taken[c] + i]) = Len(buffer[c]) + k
        BY <2>0, <4>2, Joined
      <4>4. Len(buffer[c]) + k <= BufSize + 1
        BY <2>0, <3>1, <4>1 DEF endData
      <4>5. buffer' \in [Conns -> Seq(Nat)]
        BY <2>0, <3>1, <4>3
      <4>6. ASSUME NEW d \in Conns PROVE Len(buffer'[d]) <= BufSize + 1
        <5>1. CASE d = c
          BY <2>0, <3>1, <4>3, <4>4, <5>1
        <5>2. CASE d # c
          BY <2>0, <3>1, <5>2
        <5> QED BY <5>1, <5>2
      <4>7. taken' \in [Conns -> Nat]
        BY <2>0, <3>1, <4>1
      <4> QED BY <2>0, <3>1, <4>5, <4>6, <4>7
    <3>2. CASE Fail(c) /\ UNCHANGED taken
      BY <2>0, <3>2 DEF Fail
    <3>3. CASE UNCHANGED <<taken, buffer, pc>>
      BY <2>0, <3>3
    <3> QED BY <2>0, <2>1, <3>1, <3>2, <3>3, Zenon DEF ReadMore
  <2> QED BY <1>1, <1>6, <2>2, <2>3, Zenon DEF TypeOK, MoreTypes, SendTypes, Registered
<1>7. CASE UNCHANGED <<load, proc, member>> /\ \E c \in Conns : TakeName(c)
  <2>1. PICK c \in Conns : TakeName(c)
    BY <1>7
  <2>2. [proc |-> proc[c], n |-> cnt] \in Names
    BY <1>1 DEF MoreTypes, Names
  <2>3. name' \in [Conns -> Names]
    BY <1>1, <2>1, <2>2 DEF TakeName, TypeOK
  <2> QED BY <1>1, <1>7, <2>1, <2>3 DEF TakeName, TypeOK, MoreTypes, SendTypes, Registered
<1>8. CASE UNCHANGED <<load, proc, member>> /\ \E c \in Conns : Count(c)
  <2>1. PICK c \in Conns : Count(c)
    BY <1>8
  <2>2. name[c].n \in Nat
    BY <1>1 DEF TypeOK, Names, ServerName
  <2>3. cnt' \in Nat
    BY <1>1, <2>1, <2>2 DEF Count, MoreTypes
  <2> QED BY <1>1, <1>8, <2>1, <2>3 DEF Count, TypeOK, MoreTypes, SendTypes, Registered
<1>9. CASE UNCHANGED <<load, proc, member>> /\ \E c \in Conns : AddConnection(c)
  <2>1. PICK c \in Conns : AddConnection(c)
    BY <1>9
  <2>2. Registered' = Registered \cup {name[c]} /\ connections' \in [Registered' -> Conns]
        /\ Registered' \subseteq Names
    BY <1>1, <2>1 DEF AddConnection, Registered, TypeOK
  <2>3. SendTypes'
    BY <1>1, <2>1 DEF AddConnection, Forget, SendTypes
  <2> QED BY <1>1, <1>9, <2>1, <2>2, <2>3 DEF AddConnection, TypeOK, MoreTypes
<1>10. CASE UNCHANGED <<load, proc, member>> /\ \E c \in Conns : RemoveConnection(c)
  <2>1. PICK c \in Conns : RemoveConnection(c)
    BY <1>10
  <2>2. Registered' = Registered \ {name[c]} /\ connections' \in [Registered' -> Conns]
        /\ Registered' \subseteq Names
    BY <1>1, <2>1 DEF RemoveConnection, Registered, TypeOK
  <2>3. SendTypes'
    BY <1>1, <2>1 DEF RemoveConnection, Forget, SendTypes
  <2> QED BY <1>1, <1>10, <2>1, <2>2, <2>3 DEF RemoveConnection, TypeOK, MoreTypes
<1>11. CASE UNCHANGED <<load, proc, member>> /\ Send
  <2>1. UNCHANGED quiet
    BY <1>11, Zenon DEF Send, SendStart, RangeStart, RangeStep, RangeEnd
  <2>2. Idle \in [at : {"idle", "sent", "range"}, topic : {"net", "other", "none"},
                  due : SUBSET Names, seen : SUBSET Names, served : SUBSET Conns,
                  copies : [Conns -> Nat]]
    BY DEF Idle
  <2>3. CASE SendStart
    <3>1. PICK topic \in {"net", "other", "none"},
               copies \in {Idle.copies} \cup {[c \in Conns |-> IF c = connections[n] THEN 1 ELSE 0] : n \in Registered} :
               sending' = [Idle EXCEPT !.at = "sent", !.topic = topic, !.copies = copies]
      BY <2>3, Zenon DEF SendStart
    <3>2. copies \in [Conns -> Nat]
      BY DEF Idle
    <3>3. SendTypes'
      <4>1. sends' \in Nat
        BY <1>1, <2>3 DEF SendStart, SendTypes
      <4> QED BY <1>1, <2>2, <3>1, <3>2, <4>1, Zenon DEF SendTypes, Idle
    <3> QED BY <1>1, <1>11, <2>1, <3>3 DEF quiet, TypeOK, MoreTypes, Registered
  <2>4. CASE RangeStart
    <3>1. {c \in Conns : Serving(c)} \subseteq Conns /\ Registered \subseteq Names
      BY <1>1 DEF TypeOK
    <3>2. SendTypes'
      BY <1>1, <2>2, <2>4, <3>1, Zenon DEF RangeStart, SendTypes
    <3> QED BY <1>1, <1>11, <2>1, <3>2 DEF quiet, TypeOK, MoreTypes, Registered
  <2>5. CASE RangeStep
    <3>1. PICK n \in Registered \ sending.seen :
            sending' = [sending EXCEPT !.due = @ \ {n}, !.seen = @ \cup {n}, !.copies = maybeSend(n)]
      BY <2>5, Zenon DEF RangeStep
    <3>2. maybeSend(n) \in [Conns -> Nat]
      BY <1>1 DEF maybeSend, Write, SendTypes
    <3>3. SendTypes'
      BY <1>1, <2>5, <3>1, <3>2, Zenon DEF RangeStep, SendTypes, TypeOK
    <3> QED BY <1>1, <1>11, <2>1, <3>3 DEF quiet, TypeOK, MoreTypes, Registered
  <2>6. CASE RangeEnd
    <3>1. SendTypes'
      BY <1>1, <2>2, <2>6 DEF RangeEnd, SendTypes
    <3> QED BY <1>1, <1>11, <2>1, <3>1 DEF quiet, TypeOK, MoreTypes, Registered
  <2> QED BY <1>11, <2>3, <2>4, <2>5, <2>6 DEF Send
<1> QED BY <1>2, <1>3, <1>4, <1>5, <1>6, <1>7, <1>8, <1>9, <1>10, <1>11 DEF Next, Fixed, Serve

-----------------------------------------------------------------------------
\* The table and SendMessage.

Named(c) == pc[c] \in {"serve", "close", "done"}

\* What a step may do that leaves the table alone.
LEMMA MuxSame ==
  ASSUME Table, Sending, UNCHANGED <<connections, sending>>,
         \A d \in Conns : /\ Serving(d)' <=> Serving(d)
                          /\ Named(d)' <=> Named(d)
                          /\ Named(d) => name'[d] = name[d],
         connections \in [Registered -> Conns],
         sending.served \subseteq Conns
  PROVE  Table' /\ Sending'
<1>1. \A d \in Conns : Serving(d) => Named(d)
  BY DEF Serving, Named
<1>2. \A d \in Conns : Named(d) => (Rival(d)' <=> Rival(d))
  BY DEF Rival, Named
<1>3. Registered' = Registered
  BY DEF Registered
<1>4. \A n \in Registered' : Serving(connections[n])' /\ name'[connections'[n]] = n
  <2> SUFFICES ASSUME NEW n \in Registered
               PROVE  pc'[connections[n]] \in {"serve", "close"} /\ name'[connections[n]] = n
    BY <1>3 DEF Serving
  <2>1. connections[n] \in Conns /\ Serving(connections[n]) /\ name[connections[n]] = n
    BY DEF Table
  <2> QED BY <1>1, <2>1 DEF Serving
<1>5. ASSUME NEW d \in Conns, Serving(d)', ~Rival(d)'
      PROVE  name'[d] \in Registered' /\ connections'[name'[d]] = d
  BY <1>1, <1>2, <1>3, <1>5 DEF Table
<1>6. Table'
  BY <1>4, <1>5 DEF Table, Serving
<1>7. sending.at = "range" =>
        \A c \in sending.served :
          /\ Named(c)'
          /\ sending.topic = "net" /\ Serving(c)' /\ ~Rival(c)' =>
               name'[c] \in sending.due \/ sending.copies[c] >= 1
  BY <1>1, <1>2 DEF Sending, Named
<1> QED BY <1>6, <1>7 DEF Sending, Named

\* AddConnection files the connection under its name.
LEMMA MuxAdd ==
  ASSUME TypeOK, SendTypes, Table, Sending, NEW c \in Conns, AddConnection(c)
  PROVE  Table' /\ Sending'
<1>0. /\ pc[c] = "add" /\ pc'[c] = "serve" /\ UNCHANGED name
      /\ \A d \in Conns \ {c} : pc'[d] = pc[d]
      /\ connections \in [Registered -> Conns]
      /\ sending.served \subseteq Conns
  BY DEF AddConnection, TypeOK, SendTypes
<1>1. Registered' = Registered \cup {name[c]}
      /\ connections' = [n \in Registered' |-> IF n = name[c] THEN c ELSE connections[n]]
  BY DEF AddConnection, Registered
<1>2. /\ sending'.at = sending.at /\ sending'.topic = sending.topic
      /\ sending'.served = sending.served /\ sending'.copies = sending.copies
      /\ sending'.due = sending.due \ {name[c]}
  BY DEF AddConnection, Forget, SendTypes
<1>3. \A d \in Conns : Rival(d) => Rival(d)'
  BY <1>0 DEF Rival
<1>4. \A d \in Conns \ {c} : name[d] = name[c] => Rival(d)'
  BY <1>0 DEF Rival
<1>5. ASSUME NEW n \in Registered' PROVE Serving(connections[n])' /\ name'[connections'[n]] = n
  <2>1. CASE n = name[c]
    BY <1>0, <1>1, <2>1 DEF Serving
  <2>2. CASE n # name[c]
    <3>1. n \in Registered /\ connections'[n] = connections[n] /\ connections[n] \in Conns
      BY <1>0, <1>1, <2>2
    <3>2. Serving(connections[n]) /\ name[connections[n]] = n
      BY <3>1 DEF Table
    <3>3. connections[n] # c
      BY <2>2, <3>2
    <3> QED BY <1>0, <3>1, <3>2, <3>3 DEF Serving
  <2> QED BY <2>1, <2>2
<1>6. ASSUME NEW d \in Conns, Serving(d)', ~Rival(d)'
      PROVE  name'[d] \in Registered' /\ connections'[name'[d]] = d
  <2>1. CASE d = c
    BY <1>0, <1>1, <2>1
  <2>2. CASE d # c
    <3>1. Serving(d) /\ ~Rival(d) /\ name[d] # name[c]
      BY <1>0, <1>3, <1>4, <1>6, <2>2 DEF Serving
    <3>2. name[d] \in Registered /\ connections[name[d]] = d
      BY <3>1 DEF Table
    <3> QED BY <1>0, <1>1, <3>1, <3>2
  <2> QED BY <2>1, <2>2
<1>7. Table'
  BY <1>5, <1>6 DEF Table, Serving
<1>8. ASSUME sending.at = "range", NEW d \in sending.served
      PROVE  /\ pc'[d] \in {"serve", "close", "done"}
             /\ sending.topic = "net" /\ Serving(d)' /\ ~Rival(d)' =>
                  name'[d] \in sending'.due \/ sending.copies[d] >= 1
  <2>1. d \in Conns /\ pc[d] \in {"serve", "close", "done"}
    BY <1>0, <1>8 DEF Sending
  <2>2. d # c
    BY <1>0, <2>1
  <2>3. pc'[d] = pc[d] /\ (Serving(d)' <=> Serving(d))
    BY <1>0, <2>1, <2>2 DEF Serving
  <2>4. ASSUME sending.topic = "net", Serving(d)', ~Rival(d)'
        PROVE  name'[d] \in sending'.due \/ sending.copies[d] >= 1
    <3>1. name[d] # name[c] /\ ~Rival(d)
      BY <1>3, <1>4, <2>1, <2>2, <2>4
    <3>2. name[d] \in sending.due \/ sending.copies[d] >= 1
      BY <1>8, <2>3, <2>4, <3>1 DEF Sending
    <3> QED BY <1>0, <1>2, <3>1, <3>2
  <2> QED BY <2>1, <2>3, <2>4
<1>9. Sending'
  BY <1>2, <1>8 DEF Sending
<1> QED BY <1>7, <1>9

\* RemoveConnection takes out the connection that it names.
LEMMA MuxRemove ==
  ASSUME TypeOK, SendTypes, Table, Sending, NEW c \in Conns, RemoveConnection(c)
  PROVE  Table' /\ Sending'
<1>0. /\ pc[c] = "close" /\ pc'[c] = "done" /\ UNCHANGED name
      /\ \A d \in Conns \ {c} : pc'[d] = pc[d]
      /\ connections \in [Registered -> Conns]
      /\ sending.served \subseteq Conns
  BY DEF RemoveConnection, TypeOK, SendTypes
<1>1. Registered' = Registered \ {name[c]}
      /\ connections' = [n \in Registered' |-> connections[n]]
  BY DEF RemoveConnection, Registered
<1>2. /\ sending'.at = sending.at /\ sending'.topic = sending.topic
      /\ sending'.served = sending.served /\ sending'.copies = sending.copies
      /\ sending'.due = sending.due \ {name[c]}
  BY DEF RemoveConnection, Forget, SendTypes
<1>3. \A d \in Conns : Rival(d) => Rival(d)'
  BY <1>0 DEF Rival
<1>4. \A d \in Conns \ {c} : name[d] = name[c] => Rival(d)'
  BY <1>0 DEF Rival
<1>5. ASSUME NEW n \in Registered' PROVE Serving(connections[n])' /\ name'[connections'[n]] = n
  <2>1. n # name[c] /\ n \in Registered /\ connections'[n] = connections[n] /\ connections[n] \in Conns
    BY <1>0, <1>1
  <2>2. Serving(connections[n]) /\ name[connections[n]] = n
    BY <2>1 DEF Table
  <2>3. connections[n] # c
    BY <2>1, <2>2
  <2> QED BY <1>0, <2>1, <2>2, <2>3 DEF Serving
<1>6. ASSUME NEW d \in Conns, Serving(d)', ~Rival(d)'
      PROVE  name'[d] \in Registered' /\ connections'[name'[d]] = d
  <2>1. d # c
    BY <1>0, <1>6 DEF Serving
  <2>2. Serving(d) /\ ~Rival(d) /\ name[d] # name[c]
    BY <1>0, <1>3, <1>4, <1>6, <2>1 DEF Serving
  <2>3. name[d] \in Registered /\ connections[name[d]] = d
    BY <2>2 DEF Table
  <2> QED BY <1>0, <1>1, <2>2, <2>3
<1>7. Table'
  BY <1>5, <1>6 DEF Table, Serving
<1>8. ASSUME sending.at = "range", NEW d \in sending.served
      PROVE  /\ pc'[d] \in {"serve", "close", "done"}
             /\ sending.topic = "net" /\ Serving(d)' /\ ~Rival(d)' =>
                  name'[d] \in sending'.due \/ sending.copies[d] >= 1
  <2>1. d \in Conns /\ pc[d] \in {"serve", "close", "done"}
    BY <1>0, <1>8 DEF Sending
  <2>2. pc'[d] \in {"serve", "close", "done"}
    BY <1>0, <2>1
  <2>3. ASSUME sending.topic = "net", Serving(d)', ~Rival(d)'
        PROVE  name'[d] \in sending'.due \/ sending.copies[d] >= 1
    <3>1. d # c
      BY <1>0, <2>3 DEF Serving
    <3>2. name[d] # name[c] /\ ~Rival(d) /\ Serving(d)
      BY <1>0, <1>3, <1>4, <2>1, <2>3, <3>1 DEF Serving
    <3>3. name[d] \in sending.due \/ sending.copies[d] >= 1
      BY <1>8, <2>3, <3>2 DEF Sending
    <3> QED BY <1>0, <1>2, <3>2, <3>3
  <2> QED BY <2>2, <2>3
<1>9. Sending'
  BY <1>2, <1>8 DEF Sending
<1> QED BY <1>7, <1>9

\* SendMessage visits its subscribers one by one.
LEMMA MuxSend ==
  ASSUME TypeOK, SendTypes, Table, Sending, Send
  PROVE  Table' /\ Sending'
<1>0. /\ UNCHANGED <<connections, pc, name>>
      /\ connections \in [Registered -> Conns]
      /\ sending.served \subseteq Conns
      /\ sending.copies \in [Conns -> Nat]
  BY Zenon DEF Send, SendStart, RangeStart, RangeStep, RangeEnd, quiet, TypeOK, SendTypes
<1>1. Table'
  BY <1>0 DEF Table, Registered, Serving, Rival
<1>2. ASSUME sending' = Idle PROVE Sending'
  BY <1>2 DEF Sending, Idle
<1>3. CASE SendStart
  <2>1. PICK topic \in {"net", "other", "none"},
             copies \in {Idle.copies} \cup {[c \in Conns |-> IF c = connections[n] THEN 1 ELSE 0] : n \in Registered} :
             sending' = [Idle EXCEPT !.at = "sent", !.topic = topic, !.copies = copies]
    BY <1>3, Zenon DEF SendStart
  <2>2. sending'.at = "sent" /\ sending'.copies = copies
    BY <2>1 DEF Idle
  <2>3. \A c, d \in Conns : copies[c] > 0 /\ copies[d] > 0 => c = d
    <3>1. CASE copies = Idle.copies
      BY <3>1 DEF Idle
    <3>2. CASE copies \in {[c \in Conns |-> IF c = connections[n] THEN 1 ELSE 0] : n \in Registered}
      BY <3>2
    <3> QED BY <2>1, <3>1, <3>2
  <2> QED BY <1>1, <2>2, <2>3 DEF Sending
<1>4. CASE RangeStart
  <2>1. CASE sending.topic = "none"
    BY <1>1, <1>2, <1>4, <2>1 DEF RangeStart
  <2>2. CASE sending.topic # "none"
    <3>1. /\ sending'.due = Registered /\ sending'.served = {c \in Conns : Serving(c)}
          /\ sending'.topic = sending.topic /\ sending'.copies = sending.copies
      BY <1>4, <2>2 DEF RangeStart, SendTypes
    <3>2. ASSUME NEW c \in sending'.served
          PROVE  /\ pc'[c] \in {"serve", "close", "done"}
                 /\ Serving(c)' /\ ~Rival(c)' => name'[c] \in sending'.due
      <4>1. c \in Conns /\ Serving(c)
        BY <3>1, <3>2
      <4>2. Rival(c)' <=> Rival(c)
        BY <1>0 DEF Rival
      <4> QED BY <1>0, <3>1, <4>1, <4>2 DEF Table, Serving
    <3> QED BY <1>1, <3>1, <3>2 DEF Sending
  <2> QED BY <2>1, <2>2
<1>5. CASE RangeStep
  <2>1. PICK n \in Registered \ sending.seen :
          sending' = [sending EXCEPT !.due = @ \ {n}, !.seen = @ \cup {n}, !.copies = maybeSend(n)]
    BY <1>5, Zenon DEF RangeStep
  <2>2. /\ sending'.at = "range" /\ sending.at = "range" /\ sending'.topic = sending.topic
        /\ sending'.served = sending.served /\ sending'.due = sending.due \ {n}
        /\ sending'.copies = maybeSend(n)
    BY <1>5, <2>1, Zenon DEF RangeStep, SendTypes
  <2>3. ASSUME NEW c \in sending.served
        PROVE  /\ pc'[c] \in {"serve", "close", "done"}
               /\ sending.topic = "net" /\ Serving(c)' /\ ~Rival(c)' =>
                    name'[c] \in sending'.due \/ sending'.copies[c] >= 1
    <3>1. c \in Conns /\ pc[c] \in {"serve", "close", "done"}
      BY <1>0, <2>2, <2>3 DEF Sending
    <3>2. ASSUME sending.topic = "net", Serving(c)', ~Rival(c)'
          PROVE  name'[c] \in sending'.due \/ sending'.copies[c] >= 1
      <4>1. Serving(c) /\ ~Rival(c)
        BY <1>0, <3>2 DEF Serving, Rival
      <4>2. name[c] \in Registered /\ connections[name[c]] = c
        BY <3>1, <4>1 DEF Table
      <4>3. name[c] \in sending.due \/ sending.copies[c] >= 1
        BY <2>2, <3>2, <4>1 DEF Sending
      <4>4. sending'.copies[c] = sending.copies[c] + IF connections[n] = c THEN 1 ELSE 0
        BY <2>2, <3>1, <3>2 DEF maybeSend, Write
      <4>5. CASE n = name[c]
        <5>1. sending.copies[c] \in Nat
          BY <1>0, <3>1
        <5> QED BY <4>2, <4>4, <4>5, <5>1
      <4>6. CASE n # name[c] /\ name[c] \in sending.due
        BY <1>0, <2>2, <4>6
      <4>7. CASE sending.copies[c] >= 1
        <5>1. sending.copies[c] \in Nat
          BY <1>0, <3>1
        <5> QED BY <4>4, <4>7, <5>1
      <4> QED BY <4>3, <4>5, <4>6, <4>7
    <3> QED BY <1>0, <3>1, <3>2
  <2>4. sending.topic = "other" => sending'.copies = sending.copies
    BY <2>2 DEF maybeSend
  <2> QED BY <1>1, <2>2, <2>3, <2>4 DEF Sending
<1>6. CASE RangeEnd
  BY <1>1, <1>2, <1>6 DEF RangeEnd
<1> QED BY <1>3, <1>4, <1>5, <1>6 DEF Send

\* Every step keeps the table and the loop of SendMessage.
LEMMA MuxStep ==
  ASSUME TypeOK, MoreTypes, SendTypes, Framing, Table, Sending, Next
  PROVE  Table' /\ Sending'
<1>0. connections \in [Registered -> Conns] /\ sending.served \subseteq Conns
  BY DEF TypeOK, SendTypes
<1> USE DEF sendVars
<1>1. ASSUME UNCHANGED <<connections, sending, name>>,
             \A d \in Conns :
               \/ pc'[d] = pc[d]
               \/ ~Named(d) /\ ~Named(d)'
               \/ pc[d] = "serve" /\ pc'[d] \in {"serve", "close"}
      PROVE  Table' /\ Sending'
  <2>1. \A d \in Conns : (Serving(d)' <=> Serving(d)) /\ (Named(d)' <=> Named(d))
    BY <1>1 DEF Serving, Named
  <2> QED BY <1>0, <1>1, <2>1, MuxSame
<1>2. ASSUME NEW c \in Conns, Connect(c) PROVE Table' /\ Sending'
  <2>1. pc[c] = "none"
    BY <1>2 DEF Connect, Framing, FramingOf
  <2>2. \A d \in Conns : pc'[d] = pc[d] \/ (~Named(d) /\ ~Named(d)')
    BY <1>2, <2>1 DEF Connect, Named, TypeOK
  <2> QED BY <1>1, <1>2, <2>2 DEF Connect
<1>3. ASSUME NEW c \in Conns, PeerSends(c) \/ PeerCloses(c) PROVE Table' /\ Sending'
  BY <1>1, <1>3 DEF PeerSends, PeerCloses
<1>4. ASSUME NEW c \in Conns, Parse(c) \/ ReadMore(c) PROVE Table' /\ Sending'
  <2>1. Receiving(c) /\ UNCHANGED <<connections, sending, name>>
    BY <1>4 DEF Parse, ReadMore
  <2>2. ASSUME NEW d \in Conns
        PROVE  \/ pc'[d] = pc[d]
               \/ ~Named(d) /\ ~Named(d)'
               \/ pc[d] = "serve" /\ pc'[d] \in {"serve", "close"}
    <3>1. CASE Fail(c)
      BY <2>1, <3>1 DEF Fail, Receiving, Named, TypeOK
    <3>2. CASE \E body : Handle(c, body)
      BY <2>1, <3>2 DEF Handle, Receiving, Named, TypeOK
    <3>3. CASE UNCHANGED pc
      BY <3>3
    <3> QED BY <1>4, <3>1, <3>2, <3>3 DEF Parse, ReadMore
  <2> QED BY <1>1, <2>1, <2>2
<1>5. ASSUME NEW c \in Conns, TakeName(c) PROVE Table' /\ Sending'
  <2>1. \A d \in Conns : /\ (Serving(d)' <=> Serving(d)) /\ (Named(d)' <=> Named(d))
                         /\ Named(d) => name'[d] = name[d]
    BY <1>5 DEF TakeName, Serving, Named, TypeOK
  <2>2. UNCHANGED <<connections, sending>>
    BY <1>5 DEF TakeName
  <2> QED BY <1>0, <2>1, <2>2, MuxSame
<1>6. ASSUME NEW c \in Conns, Count(c) PROVE Table' /\ Sending'
  <2>1. \A d \in Conns : pc'[d] = pc[d] \/ (~Named(d) /\ ~Named(d)')
    BY <1>6 DEF Count, Named, TypeOK
  <2> QED BY <1>1, <1>6, <2>1 DEF Count
<1>7. ASSUME NEW c \in Conns, AddConnection(c) PROVE Table' /\ Sending'
  BY <1>7, MuxAdd
<1>8. ASSUME NEW c \in Conns, RemoveConnection(c) PROVE Table' /\ Sending'
  BY <1>8, MuxRemove
<1>9. CASE Send
  BY <1>9, MuxSend
<1> QED BY <1>2, <1>3, <1>4, <1>5, <1>6, <1>7, <1>8, <1>9 DEF Next, Fixed, Serve

-----------------------------------------------------------------------------
(***************************************************************************)
(* The theorems.                                                           *)
(***************************************************************************)

\* The inductive invariant: where the buffer of each connection is in the stream, who is
\* in the table and under which name, and whom the loop of SendMessage still has to visit.
THEOREM Invariance == Spec => []IInv
<1>1. Init => IInv
  <2> SUFFICES ASSUME Init PROVE IInv
    OBVIOUS
  <2>1. Table
    BY DEF Init, Table, Registered, Serving
  <2>2. Sending
    BY DEF Init, Sending, Idle
  <2> QED BY <2>1, <2>2, InitTypes, InitFraming DEF IInv
<1>2. IInv /\ [Next]_vars => IInv'
  <2> SUFFICES ASSUME IInv, [Next]_vars PROVE IInv'
    OBVIOUS
  <2>1. CASE Next
    BY <2>1, TypesStep, FramingStep, MuxStep DEF IInv
  <2>2. CASE UNCHANGED vars
    <3>0. TypeOK /\ MoreTypes /\ SendTypes /\ Framing /\ Table /\ Sending
      BY DEF IInv
    <3> USE DEF vars, sysVars, readVars, sendVars
    <3>1. TypeOK' /\ MoreTypes' /\ SendTypes'
      BY <2>2, <3>0 DEF TypeOK, MoreTypes, SendTypes, Registered
    <3>2. ASSUME NEW d \in Conns PROVE FramingOf(d)'
      BY <2>2, <3>0, FramingSame DEF Framing
    <3>3. Framing'
      BY <3>2 DEF Framing
    <3>4. Table' /\ Sending'
      BY <2>2, <3>0 DEF Table, Sending, Registered, Serving, Rival
    <3> QED BY <3>1, <3>3, <3>4 DEF IInv
  <2> QED BY <2>1, <2>2
<1> QED BY <1>1, <1>2, PTL DEF Spec

\* The fields of UdsConn and of the mux keep their types, and a buffer never holds more
\* than one byte over its size.
THEOREM Types == Spec => []TypeOK
<1>1. IInv => TypeOK
  BY DEF IInv
<1> QED BY <1>1, Invariance, PTL

\* nextMessage returns the bodies that were written, whole, in order, none twice and none
\* skipped, however the reads cut or join the frames, and a connection whose frames fit the
\* buffer is closed only when all were handled.
THEOREM MessagesStayExact == Spec => []MessagesExact
<1>1. IInv => MessagesExact
  <2> SUFFICES ASSUME IInv, NEW c \in Conns
               PROVE  /\ Len(messages[c]) <= Len(frames[c])
                      /\ \A i \in DOMAIN messages[c] : messages[c][i] = Body(c, i)
                      /\ pc[c] \in {"close", "done"} /\ Fits(c) =>
                           Len(messages[c]) = Len(frames[c])
    BY DEF MessagesExact
  <2>1. FramingOf(c) /\ messages[c] \in Seq(Seq(Nat))
    BY DEF IInv, Framing, MoreTypes
  <2>2. DOMAIN messages[c] = 1..Len(messages[c])
    BY <2>1
  <2> QED BY <2>1, <2>2 DEF FramingOf
<1> QED BY <1>1, Invariance, PTL

\* The mux never holds a connection whose goroutine is gone, and a connection that is being
\* served can be reached through it, unless another one was given its name.
THEOREM TableStaysExact == Spec => []TableExact
<1>1. IInv => TableExact
  <2> SUFFICES ASSUME IInv PROVE TableExact
    OBVIOUS
  <2>1. \A c \in Conns : Unique(c) => ~Rival(c)
    BY DEF Unique, Rival
  <2> QED BY <2>1 DEF IInv, Table, TableExact
<1> QED BY <1>1, Invariance, PTL

\* When a SendMessage on a topic ends, every connection that has subscribed to it and was
\* served since its loop started has been sent the message, unless another one was given its
\* name; on other topics only the connection it was addressed to has.
THEOREM SubscribersAreSent == Spec => []SentToSubscribers
<1>1. IInv => SentToSubscribers
  <2> SUFFICES ASSUME IInv PROVE SentToSubscribers
    OBVIOUS
  <2>0. SendTypes /\ Sending
    BY DEF IInv
  <2>1. \A c \in Conns : Unique(c) => ~Rival(c)
    BY DEF Unique, Rival
  <2>2. sending.at = "range" /\ sending.due = {} /\ sending.topic = "net" =>
          \A c \in sending.served : Serving(c) /\ Unique(c) => sending.copies[c] >= 1
    BY <2>0, <2>1 DEF SendTypes, Sending
  <2> QED BY <2>0, <2>2 DEF SentToSubscribers, Sending
<1> QED BY <1>1, Invariance, PTL
=============================================================================
