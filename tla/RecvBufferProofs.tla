-------------------------- MODULE RecvBufferProofs --------------------------
(***************************************************************************)
(* Proofs about RecvBuffer, for every set of frame sizes, read sizes,      *)
(* calls and faults and for every bound.                                   *)
(***************************************************************************)
EXTENDS RecvBuffer, SequenceTheorems, TLAPS

\* Time for each leaf of the proofs.
USE SMTT(30), ZenonT(20)

Reloading == {"loopReload", "blockReload", "recvReload", "recvNBReload"}

\* What is true of the call in progress.
CallInv ==
  /\ hand # ZeroMsg => pc \in Reloading
  /\ pc # "idle" => last = NoBuf
  /\ pc \in {"loop", "loopReload"} => copied < want
  /\ pc \in {"check", "block", "blockReload"} => copied = 0 /\ 0 < want

-----------------------------------------------------------------------------
\* Appending the k bytes that follow an in-order prefix keeps it in order.
LEMMA BytesAppend ==
  ASSUME NEW d \in Seq(Nat), NEW k \in Nat,
         \A i \in 1..Len(d) : d[i] = i
  PROVE  LET e == d \o Bytes(Len(d), k) IN
         /\ e \in Seq(Nat)
         /\ Len(e) = Len(d) + k
         /\ \A i \in 1..Len(e) : e[i] = i
<1> DEFINE b == Bytes(Len(d), k)
<1>1. Len(d) \in Nat
  BY LenProperties
<1>2. b \in Seq(Nat) /\ Len(b) = k /\ \A i \in 1..k : b[i] = Len(d) + i
  BY <1>1 DEF Bytes
<1> HIDE DEF b
<1>3. d \o b \in Seq(Nat) /\ Len(d \o b) = Len(d) + Len(b)
  BY Zenon, <1>2, ConcatProperties
<1>4. \A i \in 1..Len(d \o b) :
        (d \o b)[i] = IF i <= Len(d) THEN d[i] ELSE b[i - Len(d)]
  BY <1>2, ConcatProperties
<1>5. \A i \in 1..Len(d \o b) : (d \o b)[i] = i
  <2> SUFFICES ASSUME NEW i \in 1..Len(d \o b) PROVE (d \o b)[i] = i
    OBVIOUS
  <2>1. CASE i <= Len(d)
    BY <2>1, <1>1, <1>3, <1>4
  <2>2. CASE ~(i <= Len(d))
    <3>1. i - Len(d) \in 1..k
      BY <2>2, <1>1, <1>2, <1>3
    <3>2. b[i - Len(d)] = Len(d) + (i - Len(d))
      BY <3>1, <1>2
    <3> QED BY <2>2, <3>1, <3>2, <1>1, <1>4
  <2> QED BY <2>1, <2>2
<1> QED BY <1>2, <1>3, <1>5 DEF b

-----------------------------------------------------------------------------
\* The channel and the backlog carry the stream on from position h to its end.
Chain(h) ==
  /\ c # <<>> => c[1].from = h /\ IsRange(c[1])
  /\ \A i \in 1..Len(backlog) :
       /\ backlog[i].from = IF i = 1 THEN (IF c = <<>> THEN h ELSE c[1].to)
                                     ELSE backlog[i-1].to
       /\ IsRange(backlog[i])
  /\ accepted = IF backlog = <<>> THEN (IF c = <<>> THEN h ELSE c[1].to)
                                  ELSE backlog[Len(backlog)].to

\* The part of NothingLost that is about the reader's side.
ReaderSide ==
  /\ last # NoBuf => last.from = Len(delivered) /\ last.from < last.to
  /\ hand # ZeroMsg => last = NoBuf /\ hand.from = AfterLast /\ IsRange(hand)

\* No message reaches beyond what was accepted.
Bounded(h) ==
  /\ h <= accepted
  /\ c # <<>> => c[1].to <= accepted
  /\ \A i \in 1..Len(backlog) : backlog[i].to <= accepted

\* The inductive invariant.  InOrder needs NothingLost (a copied byte must be
\* the next one), which needs CallInv (nothing may be left in r.last when a
\* message is taken into the hand).  Bounded stands for what would otherwise
\* be an induction along the backlog.
IInv ==
  /\ TypeOK
  /\ InOrder
  /\ NothingLost
  /\ Bounded(AfterHand)
  /\ NoStall
  /\ NoSendOnClosed
  /\ CallInv

\* What a receive from the closed, drained channel yields is a message.
LEMMA ZeroIsMsg == ZeroMsg \in Msgs
  BY DEF Msgs, ZeroMsg, Msg

\* NothingLost splits into what the reader holds and what is queued behind it.
LEMMA NothingLostParts == NothingLost <=> ReaderSide /\ Chain(AfterHand)
  BY DEF NothingLost, ReaderSide, Chain, AfterChan

\* reloadChannel keeps the channel and the backlog in line, and leaves no frame
\* in the backlog behind an empty channel.
LEMMA ReloadKeepsChain ==
  ASSUME TypeOK, NEW h \in Nat, Chain(h), Bounded(h), reloadChannel, accepted' = accepted
  PROVE  /\ Chain(h)' /\ Bounded(h)'
         /\ c' \in Seq(Msgs) /\ Len(c') <= 1 /\ backlog' \in Seq(Msgs)
         /\ backlog' # <<>> => c' # <<>>
         /\ backlog = <<>> => backlog' = <<>>
<1>1. CASE backlog # <<>> /\ c = <<>>
  <2>1. /\ c' = <<Head(backlog)>> /\ backlog' = Tail(backlog)
    BY <1>1 DEF reloadChannel
  <2>2. /\ backlog \in Seq(Msgs) /\ Len(backlog) \in Nat \ {0}
        /\ Head(backlog) = backlog[1] /\ Head(backlog) \in Msgs
    BY <1>1, EmptySeq DEF TypeOK
  <2>3. /\ Tail(backlog) \in Seq(Msgs) /\ Len(Tail(backlog)) = Len(backlog) - 1
        /\ \A i \in 1..Len(Tail(backlog)) : Tail(backlog)[i] = backlog[i+1]
    BY <1>1, <2>2, HeadTailProperties
  <2>4. c'[1] = backlog[1] /\ c' # <<>> /\ c' \in Seq(Msgs) /\ Len(c') = 1
    BY <2>1, <2>2
  <2>5. backlog' = <<>> <=> Len(backlog) = 1
    <3>1. backlog' = <<>> <=> Len(backlog') = 0
      BY Zenon, <2>1, <2>3, EmptySeq
    <3> QED BY <3>1, <2>1, <2>2, <2>3
  <2>6. backlog[1].from = h /\ IsRange(backlog[1])
    BY <1>1, <2>2 DEF Chain
  <2>7. \A i \in 1..Len(backlog') :
          /\ backlog'[i].from = IF i = 1 THEN c'[1].to ELSE backlog'[i-1].to
          /\ IsRange(backlog'[i])
    <3> SUFFICES ASSUME NEW i \in 1..Len(backlog')
                 PROVE  /\ backlog'[i].from = IF i = 1 THEN c'[1].to ELSE backlog'[i-1].to
                        /\ IsRange(backlog'[i])
      OBVIOUS
    <3>1. i \in 1..(Len(backlog)-1) /\ i+1 \in 1..Len(backlog) /\ (i+1)-1 = i /\ i+1 # 1
      BY <2>1, <2>2, <2>3
    <3>2. /\ backlog[i+1].from = backlog[i].to
          /\ IsRange(backlog[i+1])
      BY <3>1, <1>1 DEF Chain
    <3>3. backlog'[i] = backlog[i+1]
      BY <2>1, <2>3
    <3>4. CASE i = 1
      BY <3>2, <3>3, <3>4, <2>4
    <3>5. CASE i # 1
      <4>1. i-1 \in 1..Len(backlog') /\ (i-1)+1 = i
        BY <3>5, <3>1, <2>1, <2>3
      <4>2. backlog'[i-1] = backlog[i]
        BY <4>1, <2>1, <2>3
      <4> QED BY <3>2, <3>3, <3>5, <4>2
    <3> QED BY <3>4, <3>5
  <2>8. accepted' = IF backlog' = <<>> THEN c'[1].to ELSE backlog'[Len(backlog')].to
    <3>1. accepted = backlog[Len(backlog)].to
      BY <1>1 DEF Chain
    <3>2. CASE backlog' = <<>>
      BY Zenon, <3>1, <3>2, <2>4, <2>5
    <3>3. CASE backlog' # <<>>
      <4>1. Len(backlog') \in 1..Len(backlog') /\ Len(backlog') + 1 = Len(backlog)
        BY <3>3, <2>1, <2>2, <2>3, <2>5
      <4>2. backlog'[Len(backlog')] = backlog[Len(backlog)]
        BY <4>1, <2>1, <2>3
      <4> QED BY <3>1, <3>3, <4>2
    <3> QED BY <3>2, <3>3
  <2>9. Chain(h)'
    BY <2>4, <2>6, <2>7, <2>8 DEF Chain
  <2>10. Bounded(h)'
    BY <2>1, <2>2, <2>3, <2>4 DEF Bounded
  <2> QED BY <1>1, <2>1, <2>3, <2>4, <2>9, <2>10
<1>2. CASE ~(backlog # <<>> /\ c = <<>>)
  <2>1. c' = c /\ backlog' = backlog
    BY <1>2 DEF reloadChannel
  <2> QED BY <1>2, <2>1 DEF Chain, Bounded, TypeOK
<1> QED BY <1>1, <1>2

\* Copying k bytes of a buffer that starts at the next undelivered byte.
LEMMA CopyOutInOrder ==
  ASSUME TypeOK, InOrder,
         NEW b, b.from \in Nat, b.to \in Nat, b.from = Len(delivered),
         NEW k \in Nat, k <= b.to - b.from,
         CopyOut(b, k)
  PROVE  /\ delivered' \in Seq(Nat) /\ Len(delivered') = Len(delivered) + k
         /\ \A i \in 1..Len(delivered') : delivered'[i] = i
         /\ last' \in [from : Nat, to : Nat]
         /\ last' # NoBuf => last'.from = Len(delivered') /\ last'.from < last'.to
         /\ AfterLast' = b.to
         /\ last' = NoBuf <=> k = b.to - b.from
<1>1. delivered \in Seq(Nat) /\ \A i \in 1..Len(delivered) : delivered[i] = i
  BY DEF TypeOK, InOrder
<1>2. delivered' = delivered \o Bytes(Len(delivered), k)
  BY DEF CopyOut
<1>3. /\ delivered' \in Seq(Nat) /\ Len(delivered') = Len(delivered) + k
      /\ \A i \in 1..Len(delivered') : delivered'[i] = i
  BY <1>1, <1>2, BytesAppend
<1>4. last' = IF b.from + k = b.to THEN [from |-> 0, to |-> 0]
                                   ELSE [from |-> b.from + k, to |-> b.to]
  BY DEF CopyOut, Rest, NoBuf
<1>5. CASE b.from + k = b.to
  BY <1>3, <1>4, <1>5 DEF NoBuf, AfterLast
<1>6. CASE b.from + k # b.to
  <2>1. last' = [from |-> b.from + k, to |-> b.to]
    BY <1>4, <1>6
  <2>2. b.from + k < b.to
    BY <1>6
  <2>3. last'.to # 0
    BY <2>1, <2>2
  <2>4. last' # NoBuf
    BY <2>3 DEF NoBuf
  <2> QED BY <1>3, <2>1, <2>2, <2>4, <1>6 DEF AfterLast
<1> QED BY <1>3, <1>5, <1>6

\* Put extends the stream at its end, in the channel or in the backlog.
LEMMA EnqueueKeepsChain ==
  ASSUME TypeOK, NEW h \in Nat, Chain(h), Bounded(h), NEW r \in Msgs, Enqueue(r),
         r.from = accepted, IsRange(r), accepted' = r.to
  PROVE  /\ Chain(h)' /\ Bounded(h)'
         /\ c' \in Seq(Msgs) /\ Len(c') <= 1 /\ backlog' \in Seq(Msgs)
         /\ (backlog # <<>> => c # <<>>) => c' # <<>>
<1>1. CASE backlog = <<>> /\ c = <<>>
  <2>1. c' = <<r>> /\ backlog' = <<>>
    BY <1>1 DEF Enqueue
  <2>2. r.from = h
    BY <1>1 DEF Chain
  <2>3. Chain(h)'
    BY <2>1, <2>2 DEF Chain
  <2>4. r.to \in Nat /\ accepted \in Nat
    BY DEF TypeOK, Msgs
  <2>5. Bounded(h)'
    BY <2>1, <2>2, <2>4 DEF Bounded, IsRange
  <2>6. c' \in Seq(Msgs) /\ Len(c') = 1 /\ c' # <<>> /\ backlog' \in Seq(Msgs)
    BY <2>1
  <2> QED BY <2>3, <2>5, <2>6
<1>2. CASE ~(backlog = <<>> /\ c = <<>>)
  <2>1. backlog' = Append(backlog, r) /\ c' = c
    BY <1>2 DEF Enqueue
  <2>2. backlog \in Seq(Msgs) /\ Len(backlog) \in Nat
    BY DEF TypeOK
  <2>3. /\ backlog' \in Seq(Msgs) /\ Len(backlog') = Len(backlog) + 1
        /\ \A i \in 1..Len(backlog) : backlog'[i] = backlog[i]
        /\ backlog'[Len(backlog) + 1] = r
    BY <2>1, <2>2, AppendProperties
  <2>4. backlog' # <<>>
    BY <2>2, <2>3
  <2>5. \A i \in 1..Len(backlog') :
          /\ backlog'[i].from = IF i = 1 THEN (IF c' = <<>> THEN h ELSE c'[1].to)
                                         ELSE backlog'[i-1].to
          /\ IsRange(backlog'[i])
    <3> SUFFICES ASSUME NEW i \in 1..Len(backlog')
                 PROVE  /\ backlog'[i].from = IF i = 1 THEN (IF c = <<>> THEN h ELSE c[1].to)
                                                        ELSE backlog'[i-1].to
                        /\ IsRange(backlog'[i])
      BY <2>1
    <3>1. CASE i <= Len(backlog)
      <4>1. i \in 1..Len(backlog) /\ (i # 1 => i-1 \in 1..Len(backlog))
        BY <3>1, <2>2, <2>3
      <4>2. backlog'[i] = backlog[i] /\ (i # 1 => backlog'[i-1] = backlog[i-1])
        BY <4>1, <2>3
      <4> QED BY <4>1, <4>2 DEF Chain
    <3>2. CASE i = Len(backlog) + 1
      <4>1. backlog'[i] = r
        BY <3>2, <2>3
      <4>2. CASE i = 1
        <5>1. backlog = <<>>
          BY <4>2, <3>2, <2>2, EmptySeq
        <5> QED BY <5>1, <4>1, <4>2 DEF Chain
      <4>3. CASE i # 1
        <5>1. i-1 = Len(backlog) /\ i-1 \in 1..Len(backlog) /\ backlog # <<>>
          BY <4>3, <3>2, <2>2
        <5>2. backlog'[i-1] = backlog[Len(backlog)]
          BY <5>1, <2>3
        <5>3. accepted = backlog[Len(backlog)].to
          BY <5>1 DEF Chain
        <5> QED BY <4>1, <4>3, <5>2, <5>3
      <4> QED BY <4>2, <4>3
    <3> QED BY <3>1, <3>2, <2>2, <2>3
  <2>6. accepted' = backlog'[Len(backlog')].to
    BY <2>3
  <2>7. c # <<>> => c'[1].from = h /\ IsRange(c'[1])
    BY <2>1 DEF Chain
  <2>8. Chain(h)'
    BY <2>1, <2>4, <2>5, <2>6, <2>7 DEF Chain
  <2>9. Bounded(h)'
    <3>1. h <= accepted' /\ accepted <= accepted'
      BY DEF Bounded, TypeOK, Msgs, IsRange
    <3>2. c # <<>> => c[1] \in Msgs
      BY DEF TypeOK
    <3>3. c' # <<>> => c'[1].to <= accepted'
      BY <2>1, <3>1, <3>2 DEF Bounded, TypeOK, Msgs
    <3>4. \A i \in 1..Len(backlog') : backlog'[i].to <= accepted'
      <4> SUFFICES ASSUME NEW i \in 1..Len(backlog') PROVE backlog'[i].to <= accepted'
        OBVIOUS
      <4>1. CASE i <= Len(backlog)
        <5>1. i \in 1..Len(backlog) /\ backlog'[i] = backlog[i] /\ backlog[i] \in Msgs
          BY <4>1, <2>2, <2>3
        <5>2. backlog[i].to <= accepted
          BY <5>1 DEF Bounded
        <5>3. backlog[i].to \in Nat /\ accepted \in Nat /\ accepted' \in Nat
          BY Zenon, <5>1 DEF Msgs, TypeOK
        <5> QED BY <5>1, <5>2, <5>3, <3>1
      <4>2. CASE i = Len(backlog) + 1
        BY <4>2, <2>3 DEF Msgs
      <4> QED BY <4>1, <4>2, <2>2, <2>3
    <3> QED BY <3>1, <3>3, <3>4 DEF Bounded
  <2>10. c # <<>> \/ backlog # <<>>
    BY <1>2
  <2> QED BY <2>1, <2>3, <2>8, <2>9, <2>10 DEF TypeOK
<1> QED BY <1>1, <1>2

\* A receive moves the head of the stream from the channel to the hand.
LEMMA ReceiveKeepsChain ==
  ASSUME IInv, pc # "idle", hand = ZeroMsg, Receive,
         UNCHANGED <<backlog, accepted, delivered, last>>
  PROVE  /\ ReaderSide' /\ Chain(AfterHand)' /\ Bounded(AfterHand)'
         /\ hand' \in Msgs /\ c' \in Seq(Msgs) /\ Len(c') <= 1
<1>1. last = NoBuf /\ AfterHand = Len(delivered) /\ Chain(AfterHand) /\ Bounded(AfterHand)
  BY NothingLostParts DEF IInv, CallInv, AfterHand, AfterLast
<1>2. AfterLast' = Len(delivered)
  BY <1>1 DEF AfterLast
<1>3. c \in Seq(Msgs) /\ Len(c) <= 1 /\ Len(delivered) \in Nat
  BY DEF IInv, TypeOK
<1>4. CASE c # <<>>
  <2>1. Len(c) = 1 /\ Head(c) = c[1] /\ c[1] \in Msgs /\ Tail(c) = <<>>
    <3>1. Len(c) \in Nat /\ Len(c) # 0 /\ Len(c) <= 1
      BY <1>3, <1>4, EmptySeq
    <3>2. \A n \in Nat : n # 0 /\ n <= 1 => n = 1
      OBVIOUS
    <3>6. Len(c) = 1
      BY Zenon, <3>1, <3>2
    <3>3. Head(c) = c[1] /\ c[1] \in Msgs
      BY <3>6, <1>3
    <3>4. Tail(c) \in Seq(Msgs) /\ Len(Tail(c)) = 0
      BY <3>6, <1>3, <1>4, HeadTailProperties
    <3>5. Tail(c) = <<>>
      BY Zenon, <3>4, EmptySeq
    <3> QED BY <3>6, <3>3, <3>5
  <2>2. hand' = c[1] /\ c' = <<>>
    BY <1>4, <2>1 DEF Receive
  <2>3. c[1].from = Len(delivered) /\ IsRange(c[1]) /\ c[1].to <= accepted
    BY <1>1, <1>4 DEF Chain, Bounded
  <2>4. AfterHand' = c[1].to
    BY <1>1, <1>2, <2>2, <2>3 DEF AfterHand, ZeroMsg, Msg
  <2>5. Chain(AfterHand)' /\ Bounded(AfterHand)'
    BY <1>1, <1>4, <2>2, <2>3, <2>4 DEF Chain, Bounded
  <2>6. ReaderSide'
    BY <1>1, <1>2, <2>2, <2>3 DEF ReaderSide
  <2> QED BY <2>1, <2>2, <2>5, <2>6
<1>5. CASE c = <<>>
  <2>1. hand' = ZeroMsg /\ c' = c
    BY <1>5 DEF Receive
  <2>2. AfterHand' = AfterHand
    BY <1>1, <1>2, <2>1 DEF AfterHand
  <2>3. Chain(AfterHand)' /\ Bounded(AfterHand)'
    BY <1>1, <2>1, <2>2 DEF Chain, Bounded
  <2>4. ZeroMsg \in Msgs
    BY DEF ZeroMsg, Msg, Msgs
  <2>5. ReaderSide'
    BY <1>1, <2>1 DEF ReaderSide
  <2> QED BY <1>3, <2>1, <2>3, <2>4, <2>5
<1> QED BY <1>4, <1>5

-----------------------------------------------------------------------------
\* Steps that touch neither the queue nor the bytes keep all that is about them.
LEMMA QuietStep ==
  ASSUME IInv, UNCHANGED <<c, closed, backlog, accepted, delivered, last, hand>>,
         rerr # NoErr => rerr' # NoErr,
         pc \in Reloading => pc' = pc
  PROVE  InOrder' /\ NothingLost' /\ Bounded(AfterHand)' /\ NoStall' /\ NoSendOnClosed'
<1>1. AfterLast' = AfterLast /\ AfterHand' = AfterHand /\ AfterChan' = AfterChan
  BY DEF AfterLast, AfterHand, AfterChan
<1>2. InOrder'
  BY DEF IInv, InOrder
<1>3. NothingLost'
  BY <1>1 DEF IInv, NothingLost
<1>4. Bounded(AfterHand)'
  BY <1>1 DEF IInv, Bounded
<1>5. NoStall' /\ NoSendOnClosed'
  BY DEF IInv, NoStall, NoSendOnClosed, Reloading
<1> QED BY <1>2, <1>3, <1>4, <1>5

\* NewRecvBuffer establishes the inductive invariant.
LEMMA InitIInv == Init => IInv
<1> SUFFICES ASSUME Init PROVE IInv
  OBVIOUS
<1>1. TypeOK
  <2>1. hand \in Msgs /\ last \in [from : Nat, to : Nat]
    BY DEF Init, ZeroMsg, Msg, Msgs, NoBuf
  <2>2. ret \in [op : {"none", "Read", "Recv", "RecvNB"}, n : Nat, err : Errors]
    BY DEF Init, Errors
  <2>3. c \in Seq(Msgs) /\ Len(c) <= 1 /\ backlog \in Seq(Msgs) /\ delivered \in Seq(Nat)
    BY DEF Init
  <2> QED BY Zenon, <2>1, <2>2, <2>3 DEF Init, TypeOK
<1>2. NothingLost /\ Bounded(AfterHand) /\ InOrder
  BY DEF Init, NothingLost, Bounded, InOrder, AfterLast, AfterHand, AfterChan
<1>3. NoStall /\ NoSendOnClosed /\ CallInv
  BY DEF Init, NoStall, NoSendOnClosed, CallInv
<1> QED BY <1>1, <1>2, <1>3 DEF IInv

\* The three Puts.
LEMMA PutIInv ==
  ASSUME IInv, NEW r \in Msgs, r.from = accepted, IsRange(r), Put(r)
  PROVE  IInv'
<1>1. /\ TypeOK /\ NothingLost /\ Bounded(AfterHand)
      /\ Chain(AfterHand) /\ ReaderSide
  BY NothingLostParts DEF IInv
<1>2. AfterHand \in Nat
  BY <1>1 DEF TypeOK, AfterHand, AfterLast, Msgs
<1>3. /\ rerr = NoErr /\ rerr' = r.err /\ Enqueue(r) /\ accepted' = r.to
      /\ UNCHANGED <<pc, want, copied, hand, ret, ctxDone, deadline, last, closeCalled, delivered>>
  BY DEF Put, callVars, envVars
<1>4. AfterLast' = AfterLast /\ AfterHand' = AfterHand
  BY <1>3 DEF AfterLast, AfterHand
<1> DEFINE h == AfterHand
<1>5. h \in Nat /\ Chain(h) /\ Bounded(h) /\ h' = h
  BY <1>1, <1>2, <1>4
<1>6. /\ c' \in Seq(Msgs) /\ Len(c') <= 1 /\ backlog' \in Seq(Msgs)
      /\ (backlog # <<>> => c # <<>>) => c' # <<>>
  BY <1>1, <1>3, <1>5, EnqueueKeepsChain
<1>7. Chain(AfterHand)' /\ Bounded(AfterHand)'
  <2>1. ASSUME NEW g \in Nat, g = AfterHand PROVE Chain(g)' /\ Bounded(g)'
    BY <1>1, <1>3, <2>1, EnqueueKeepsChain
  <2>2. PICK g \in Nat : g = AfterHand
    BY <1>2
  <2>3. Chain(g)' /\ Bounded(g)' /\ AfterHand' = g
    BY <2>1, <2>2, <1>4
  <2> QED BY <2>3 DEF Chain, Bounded
<1>8. ReaderSide'
  BY <1>1, <1>3, <1>4 DEF ReaderSide
<1>9. NothingLost'
  BY <1>7, <1>8, NothingLostParts, PTL
<1>10. accepted <= accepted' /\ accepted' \in Nat
  BY <1>1, <1>3 DEF Msgs, TypeOK, IsRange
<1>11. closed' \in BOOLEAN /\ NoSendOnClosed'
  <2>1. ~closed
    BY <1>3 DEF IInv, NoSendOnClosed
  <2>2. CASE backlog = <<>> /\ c = <<>>
    <3>1. closed' = (closed \/ r.err # NoErr) /\ backlog' = <<>>
      BY <1>3, <2>2 DEF Enqueue
    <3> QED BY Zenon, <1>3, <2>1, <3>1 DEF NoSendOnClosed
  <2>3. CASE ~(backlog = <<>> /\ c = <<>>)
    <3>1. closed' = closed
      BY <1>3, <2>3 DEF Enqueue
    <3> QED BY <1>1, <2>1, <3>1 DEF TypeOK, NoSendOnClosed
  <2> QED BY <2>2, <2>3
<1>12. TypeOK'
  BY <1>1, <1>3, <1>6, <1>10, <1>11 DEF TypeOK, Msgs
<1>13. InOrder'
  BY <1>1, <1>3, <1>10 DEF IInv, InOrder, TypeOK
<1>14. NoStall' /\ CallInv'
  BY <1>3, <1>6 DEF IInv, NoStall, CallInv
<1> QED BY <1>7, <1>9, <1>11, <1>12, <1>13, <1>14 DEF IInv

\* The receives.
LEMMA TakeIInv ==
  ASSUME IInv, Receive, pc \in {"loop", "block", "recv", "recvNB"},
         pc' = CASE pc = "loop" -> "loopReload"   [] pc = "block" -> "blockReload"
                 [] pc = "recv" -> "recvReload"   [] pc = "recvNB" -> "recvNBReload",
         UNCHANGED <<closed, backlog, rerr, want, copied, ret, envVars, last,
                     closeCalled, accepted, delivered>>
  PROVE  IInv'
<1>1. pc # "idle" /\ pc \notin Reloading
  BY DEF Reloading
<1>2. hand = ZeroMsg
  BY <1>1 DEF IInv, CallInv
<1>3. /\ ReaderSide' /\ Chain(AfterHand)' /\ Bounded(AfterHand)'
      /\ hand' \in Msgs /\ c' \in Seq(Msgs) /\ Len(c') <= 1
  BY <1>1, <1>2, ReceiveKeepsChain
<1>4. NothingLost'
  BY <1>3, NothingLostParts, PTL
<1>5. pc' \in Reloading
  BY DEF Reloading
<1>6. TypeOK'
  BY <1>3, <1>5 DEF IInv, TypeOK, envVars, Reloading
<1>7. InOrder' /\ NoStall' /\ NoSendOnClosed'
  BY <1>5 DEF IInv, InOrder, NoStall, NoSendOnClosed, Reloading
<1>8. CallInv'
  BY <1>5 DEF IInv, CallInv
<1> QED BY <1>3, <1>4, <1>6, <1>7, <1>8 DEF IInv

\* What the second half of a receive does to the queue and the bytes: either it
\* copies a part of the message in hand, or that message carried none.
Consume ==
  \/ \E k \in Nat : /\ hand # ZeroMsg /\ k <= hand.to - hand.from
                    /\ CopyOut(hand, k)
  \/ /\ hand = ZeroMsg \/ hand.from = hand.to
     /\ UNCHANGED <<last, delivered>>

\* The second half of a receive: reloadChannel, then the message in hand is copied
\* out or dropped.
LEMMA ProcessIInv ==
  ASSUME IInv, pc \in Reloading, reloadChannel, Consume, hand' = ZeroMsg,
         UNCHANGED <<closed, accepted>>, rerr # NoErr => rerr' # NoErr,
         pc' \notin Reloading
  PROVE  /\ c' \in Seq(Msgs) /\ Len(c') <= 1 /\ backlog' \in Seq(Msgs)
         /\ delivered' \in Seq(Nat) /\ last' \in [from : Nat, to : Nat]
         /\ InOrder' /\ NothingLost' /\ Bounded(AfterHand)'
         /\ NoStall' /\ NoSendOnClosed'
<1>1. /\ TypeOK /\ InOrder /\ Bounded(AfterHand) /\ Chain(AfterHand) /\ ReaderSide
      /\ last = NoBuf
  BY NothingLostParts DEF IInv, CallInv, Reloading
<1>2. /\ AfterLast = Len(delivered) /\ Len(delivered) \in Nat
      /\ hand.from \in Nat /\ hand.to \in Nat
  BY <1>1 DEF AfterLast, TypeOK, Msgs
<1>3. AfterHand \in Nat
  BY <1>1, <1>2 DEF AfterHand
<1>4. /\ delivered' \in Seq(Nat) /\ last' \in [from : Nat, to : Nat]
      /\ \A i \in 1..Len(delivered') : delivered'[i] = i
      /\ last' # NoBuf => last'.from = Len(delivered') /\ last'.from < last'.to
      /\ AfterLast' = AfterHand
  <2>1. CASE \E k \in Nat : /\ hand # ZeroMsg /\ k <= hand.to - hand.from
                            /\ CopyOut(hand, k)
    <3>1. PICK k \in Nat : /\ hand # ZeroMsg /\ k <= hand.to - hand.from
                           /\ CopyOut(hand, k)
      BY <2>1
    <3>2. hand.from = Len(delivered) /\ AfterHand = hand.to
      BY <1>1, <1>2, <3>1 DEF ReaderSide, AfterHand
    <3> QED BY <1>1, <1>2, <3>1, <3>2, CopyOutInOrder
  <2>2. CASE /\ hand = ZeroMsg \/ hand.from = hand.to
             /\ UNCHANGED <<last, delivered>>
    <3>1. AfterLast' = AfterLast
      BY <2>2 DEF AfterLast
    <3>2. AfterHand = AfterLast
      BY <1>1, <1>2, <2>2 DEF AfterHand, ReaderSide
    <3> QED BY <1>1, <2>2, <3>1, <3>2 DEF TypeOK, InOrder, ReaderSide
  <2> QED BY <2>1, <2>2 DEF Consume
<1>5. AfterHand' = AfterHand
  BY <1>4 DEF AfterHand
<1>6. /\ c' \in Seq(Msgs) /\ Len(c') <= 1 /\ backlog' \in Seq(Msgs)
      /\ backlog' # <<>> => c' # <<>>
      /\ backlog = <<>> => backlog' = <<>>
  BY <1>1, <1>3, ReloadKeepsChain
<1>7. Chain(AfterHand)' /\ Bounded(AfterHand)'
  <2>1. PICK g \in Nat : g = AfterHand
    BY <1>3
  <2>2. Chain(g)' /\ Bounded(g)' /\ AfterHand' = g
    BY <1>1, <1>5, <2>1, ReloadKeepsChain
  <2> QED BY <2>2 DEF Chain, Bounded
<1>8. ReaderSide'
  BY <1>4 DEF ReaderSide
<1>9. NothingLost'
  BY <1>7, <1>8, NothingLostParts, PTL
<1>10. InOrder'
  <2>1. Len(delivered') <= AfterLast'
    <3>1. CASE last' = NoBuf
      BY <1>4, <3>1 DEF AfterLast
    <3>2. CASE last' # NoBuf
      <4>1. AfterLast' = last'.to /\ last'.from = Len(delivered') /\ last'.from < last'.to
        BY <1>4, <3>2 DEF AfterLast
      <4>2. last'.from \in Nat /\ last'.to \in Nat
        BY <1>4
      <4> QED BY <4>1, <4>2
    <3> QED BY <3>1, <3>2
  <2>2. AfterLast' <= accepted'
    BY <1>4, <1>5, <1>7 DEF Bounded
  <2>3. Len(delivered') \in Nat /\ AfterLast' \in Nat /\ accepted' \in Nat
    BY <1>1, <1>3, <1>4 DEF TypeOK
  <2> QED BY <1>4, <2>1, <2>2, <2>3 DEF InOrder
<1>11. NoStall' /\ NoSendOnClosed'
  BY <1>6 DEF IInv, NoStall, NoSendOnClosed
<1> QED BY <1>4, <1>6, <1>7, <1>9, <1>10, <1>11

-----------------------------------------------------------------------------
\* Copying nothing changes nothing.
LEMMA NoBytes == ASSUME NEW d \in Seq(Nat), NEW p \in Nat PROVE d \o Bytes(p, 0) = d
<1>1. Bytes(p, 0) = <<>>
  BY DEF Bytes
<1> QED BY <1>1, ConcatEmptySeq

\* What is copied fits both the frame and the room in p.
LEMMA LeastBound ==
  ASSUME NEW a \in Nat, NEW b \in Nat
  PROVE  Least(a, b) \in Nat /\ Least(a, b) <= a /\ Least(a, b) <= b
  BY DEF Least

\* Handing out a whole buffer is copying all of it.
LEMMA HandOutCopies ==
  ASSUME NEW op, NEW err, NEW b, b.from \in Nat, b.to \in Nat, b.from <= b.to,
         HandOut(op, b, err)
  PROVE  CopyOut(b, b.to - b.from) /\ b.to - b.from \in Nat
<1>1. b.from + (b.to - b.from) = b.to
  OBVIOUS
<1>2. Rest(b, b.to - b.from) = NoBuf
  BY <1>1 DEF Rest
<1> QED BY <1>2 DEF HandOut, CopyOut

\* What is left in r.last is copied between two receives.
LEMMA CopyLast ==
  ASSUME IInv, pc = "idle", NEW k \in Nat, k <= last.to - last.from, CopyOut(last, k),
         hand' = hand, UNCHANGED <<c, closed, backlog, accepted, rerr>>
  PROVE  /\ delivered' \in Seq(Nat) /\ last' \in [from : Nat, to : Nat]
         /\ InOrder' /\ NothingLost' /\ Bounded(AfterHand)'
         /\ NoStall' /\ NoSendOnClosed'
         /\ last' = NoBuf <=> k = last.to - last.from
<1>1. /\ TypeOK /\ InOrder /\ Bounded(AfterHand) /\ Chain(AfterHand) /\ ReaderSide
      /\ hand = ZeroMsg
  BY NothingLostParts DEF IInv, CallInv, Reloading
<1>2. last.from \in Nat /\ last.to \in Nat /\ Len(delivered) \in Nat
  BY <1>1 DEF TypeOK
<1>3. /\ delivered' \in Seq(Nat) /\ last' \in [from : Nat, to : Nat]
      /\ \A i \in 1..Len(delivered') : delivered'[i] = i
      /\ last' # NoBuf => last'.from = Len(delivered') /\ last'.from < last'.to
      /\ AfterLast' = AfterLast
      /\ last' = NoBuf <=> k = last.to - last.from
  <2>1. CASE last = NoBuf
    <3>1. k = 0 /\ last.from = 0 /\ last.to = 0
      BY <2>1 DEF NoBuf
    <3>2. delivered' = delivered \o Bytes(0, 0) /\ last' = Rest(last, 0)
      BY <3>1 DEF CopyOut
    <3>3. delivered' = delivered /\ last' = NoBuf
      <4>1. delivered \in Seq(Nat)
        BY <1>1 DEF TypeOK
      <4>2. delivered' = delivered
        BY <4>1, <3>2, NoBytes
      <4>3. last.from + 0 = last.to
        BY <3>1
      <4> QED BY <4>2, <4>3, <3>2 DEF Rest
    <3> QED BY <1>1, <2>1, <3>1, <3>3 DEF TypeOK, InOrder, AfterLast
  <2>2. CASE last # NoBuf
    <3>1. last.from = Len(delivered) /\ AfterLast = last.to
      BY <1>1, <2>2 DEF ReaderSide, AfterLast
    <3> QED BY <1>1, <1>2, <3>1, CopyOutInOrder
  <2> QED BY <2>1, <2>2
<1>4. AfterHand' = AfterHand /\ AfterHand = AfterLast
  BY <1>1, <1>3 DEF AfterHand
<1>5. Chain(AfterHand)' /\ Bounded(AfterHand)'
  BY <1>1, <1>4 DEF Chain, Bounded
<1>6. ReaderSide'
  BY <1>1, <1>3 DEF ReaderSide
<1>7. NothingLost'
  BY <1>5, <1>6, NothingLostParts, PTL
<1>8. InOrder'
  <2>1. Len(delivered') <= AfterLast'
    <3>1. CASE last' = NoBuf
      BY <1>3, <3>1 DEF AfterLast
    <3>2. CASE last' # NoBuf
      <4>1. AfterLast' = last'.to /\ last'.from = Len(delivered') /\ last'.from < last'.to
        BY <1>3, <3>2 DEF AfterLast
      <4>2. last'.from \in Nat /\ last'.to \in Nat
        BY <1>3
      <4> QED BY <4>1, <4>2
    <3> QED BY <3>1, <3>2
  <2>2. AfterLast' <= accepted'
    BY <1>3, <1>4, <1>5 DEF Bounded
  <2>3. Len(delivered') \in Nat /\ AfterLast' \in Nat /\ accepted' \in Nat
    BY <1>1, <1>2, <1>3 DEF TypeOK, AfterLast
  <2> QED BY <1>3, <2>1, <2>2, <2>3 DEF InOrder
<1>9. NoStall' /\ NoSendOnClosed'
  BY DEF IInv, NoStall, NoSendOnClosed
<1> QED BY <1>3, <1>5, <1>7, <1>8, <1>9

\* The calls: one lemma for each action of the reader.
LEMMA ReadStartIInv == ASSUME IInv, NEW n \in Reads, ReadStart(n) PROVE IInv'
<1> DEFINE k == Least(last.to - last.from, n)
<1>1. TypeOK /\ NothingLost /\ pc = "idle" /\ hand = ZeroMsg /\ n \in Nat \ {0}
  BY RecvBufferAssumption DEF IInv, CallInv, ReadStart, Reloading
<1>2. last.to - last.from \in Nat
  BY <1>1 DEF TypeOK, NothingLost, NoBuf
<1>3. k \in Nat /\ k <= last.to - last.from /\ k <= n
  BY <1>1, <1>2, LeastBound
<1>4. k # n => k = last.to - last.from
  BY DEF Least
<1> HIDE DEF k
<1>5. /\ CopyOut(last, k)
      /\ \/ k = n /\ Return("Read", n, NoErr)
         \/ /\ k < n
            /\ pc' = "loop" /\ want' = n /\ copied' = k
            /\ UNCHANGED <<hand, ret>>
      /\ UNCHANGED <<c, closed, backlog, rerr, ctxDone, deadline, closeCalled, accepted>>
  BY DEF ReadStart, k, chanVars, envVars
<1>6. hand' = hand
  BY <1>1, <1>5 DEF Return
<1>7. /\ delivered' \in Seq(Nat) /\ last' \in [from : Nat, to : Nat]
      /\ InOrder' /\ NothingLost' /\ Bounded(AfterHand)'
      /\ NoStall' /\ NoSendOnClosed'
      /\ last' = NoBuf <=> k = last.to - last.from
  BY <1>1, <1>3, <1>5, <1>6, CopyLast
<1>8. TypeOK'
  <2>1. CASE k = n /\ Return("Read", n, NoErr)
    BY <1>1, <1>5, <1>6, <1>7, <2>1 DEF TypeOK, Return, Errors
  <2>2. CASE k < n /\ pc' = "loop" /\ want' = n /\ copied' = k /\ UNCHANGED <<hand, ret>>
    BY <1>1, <1>3, <1>5, <1>7, <2>2 DEF TypeOK
  <2> QED BY <1>5, <2>1, <2>2
<1>9. CallInv'
  <2>1. CASE k = n /\ Return("Read", n, NoErr)
    BY <2>1 DEF CallInv, Return
  <2>2. CASE k < n /\ pc' = "loop" /\ want' = n /\ copied' = k /\ UNCHANGED <<hand, ret>>
    <3>1. last' = NoBuf
      BY <1>1, <1>3, <1>4, <1>7, <2>2
    <3> QED BY <1>1, <2>2, <3>1 DEF CallInv
  <2> QED BY <1>5, <2>1, <2>2
<1> QED BY <1>7, <1>8, <1>9 DEF IInv

\* Recv and RecvNB up to their select.
LEMMA RecvStartIInv == ASSUME IInv, NEW op \in {"Recv", "RecvNB"}, RecvStart(op) PROVE IInv'
<1>1. TypeOK /\ NothingLost /\ pc = "idle" /\ hand = ZeroMsg
  BY DEF IInv, CallInv, RecvStart, Reloading
<1>2. UNCHANGED <<c, closed, backlog, rerr, ctxDone, deadline, closeCalled, accepted>>
  BY DEF RecvStart, chanVars, envVars
<1>3. CASE last # NoBuf
  <2>1. HandOut(op, last, NoErr)
    BY <1>3 DEF RecvStart
  <2>2. last.from \in Nat /\ last.to \in Nat /\ last.from <= last.to
    BY <1>1, <1>3 DEF TypeOK, NothingLost
  <2>3. CopyOut(last, last.to - last.from) /\ last.to - last.from \in Nat
    BY <2>1, <2>2, HandOutCopies
  <2>4. /\ hand' = hand /\ pc' = "idle" /\ want' = 0 /\ copied' = 0
        /\ ret' = [op |-> op, n |-> last.to - last.from, err |-> NoErr]
    BY <1>1, <2>1 DEF HandOut, Return
  <2>5. /\ delivered' \in Seq(Nat) /\ last' \in [from : Nat, to : Nat]
        /\ InOrder' /\ NothingLost' /\ Bounded(AfterHand)'
        /\ NoStall' /\ NoSendOnClosed'
    BY <1>1, <1>2, <2>2, <2>3, <2>4, CopyLast
  <2>6. TypeOK'
    BY <1>1, <1>2, <2>3, <2>4, <2>5 DEF TypeOK, Errors
  <2>7. CallInv'
    BY <1>1, <2>4 DEF CallInv
  <2> QED BY <2>5, <2>6, <2>7 DEF IInv
<1>4. CASE last = NoBuf
  <2>1. /\ UNCHANGED <<last, delivered>>
        /\ \/ ~Live /\ Return(op, 0, rerr)
           \/ Return(op, 0, Deadline)
           \/ /\ pc' \in {"recv", "recvNB"}
              /\ UNCHANGED <<want, copied, hand, ret>>
    BY <1>4 DEF RecvStart
  <2>2. hand' = hand
    BY <1>1, <2>1 DEF Return
  <2>3. InOrder' /\ NothingLost' /\ Bounded(AfterHand)' /\ NoStall' /\ NoSendOnClosed'
    BY <1>1, <1>2, <2>1, <2>2, QuietStep DEF Reloading
  <2>4. TypeOK'
    BY <1>1, <1>2, <2>1, <2>2 DEF TypeOK, Return, Errors, Canceled, NoErr, EOF, RST, Deadline
  <2>5. CallInv'
    BY <1>1, <1>4, <2>1, <2>2 DEF CallInv, Return
  <2> QED BY <2>3, <2>4, <2>5 DEF IInv
<1> QED BY <1>3, <1>4

\* A message received by Read's non-blocking loop.
LEMMA LoopProcessIInv == ASSUME IInv, LoopProcess PROVE IInv'
<1> DEFINE k == Least(hand.to - hand.from, want - copied)
<1>1. /\ TypeOK /\ NothingLost /\ pc = "loopReload" /\ pc \in Reloading
      /\ copied < want /\ last = NoBuf
  BY DEF IInv, CallInv, LoopProcess, Reloading
<1>2. /\ reloadChannel
      /\ UNCHANGED <<closed, rerr, ctxDone, deadline, closeCalled, accepted>>
  BY DEF LoopProcess, envVars
<1>3. hand \in Msgs /\ hand.from \in Nat /\ hand.to \in Nat /\ want \in Nat /\ copied \in Nat
      /\ hand.err \in {NoErr, EOF, RST}
  BY <1>1 DEF TypeOK, Msgs
<1>4. CASE hand.buf
  <2>1. hand # ZeroMsg
    BY <1>4 DEF ZeroMsg, Msg
  <2>2. hand.to - hand.from \in Nat /\ want - copied \in Nat
    BY <1>1, <1>3, <2>1 DEF NothingLost, IsRange
  <2>3. k \in Nat /\ k <= hand.to - hand.from /\ k <= want - copied
    BY <2>2, LeastBound
  <2>4. k # want - copied => k = hand.to - hand.from
    BY DEF Least
  <2>5. /\ CopyOut(hand, k)
        /\ \/ copied + k = want /\ Return("Read", want, NoErr)
           \/ /\ copied + k < want
              /\ pc' = "loop" /\ copied' = copied + k
              /\ hand' = ZeroMsg /\ UNCHANGED <<want, ret>>
    BY <1>4, <2>1 DEF LoopProcess
  <2> HIDE DEF k
  <2>6. Consume /\ hand' = ZeroMsg /\ pc' \notin Reloading
    BY <2>1, <2>3, <2>5 DEF Consume, Return, Reloading
  <2>7. /\ c' \in Seq(Msgs) /\ Len(c') <= 1 /\ backlog' \in Seq(Msgs)
        /\ delivered' \in Seq(Nat) /\ last' \in [from : Nat, to : Nat]
        /\ InOrder' /\ NothingLost' /\ Bounded(AfterHand)'
        /\ NoStall' /\ NoSendOnClosed'
    BY <1>1, <1>2, <2>6, ProcessIInv
  <2>8. CASE copied + k = want /\ Return("Read", want, NoErr)
    <3>1. TypeOK'
      BY <1>1, <1>2, <1>3, <2>7, <2>8 DEF TypeOK, Return, Errors, Msgs, ZeroMsg, Msg
    <3>2. CallInv'
      BY <2>8 DEF CallInv, Return
    <3> QED BY <2>7, <3>1, <3>2 DEF IInv
  <2>9. CASE /\ copied + k < want /\ pc' = "loop" /\ copied' = copied + k
             /\ hand' = ZeroMsg /\ UNCHANGED <<want, ret>>
    <3>1. copied + k \in Nat /\ k = hand.to - hand.from
      BY <1>3, <2>3, <2>4, <2>9
    <3>2. last' = NoBuf
      BY <1>3, <2>5, <3>1 DEF CopyOut, Rest
    <3>3. TypeOK'
      BY <1>1, <1>2, <1>3, <2>7, <2>9, <3>1 DEF TypeOK, Msgs, ZeroMsg, Msg
    <3>4. CallInv'
      BY <2>9, <3>2 DEF CallInv
    <3> QED BY <2>7, <3>3, <3>4 DEF IInv
  <2> QED BY <2>5, <2>8, <2>9
<1>5. CASE ~hand.buf
  <2>1. /\ UNCHANGED <<last, delivered>> /\ hand' = ZeroMsg
        /\ \/ Return("Read", copied, hand.err)
           \/ hand = ZeroMsg /\ pc' = "loop" /\ UNCHANGED <<want, copied, ret>>
    BY <1>5 DEF LoopProcess, Return
  <2>2. hand = ZeroMsg \/ hand.from = hand.to
    BY <1>1, <1>5 DEF NothingLost, IsRange
  <2>3. Consume /\ pc' \notin Reloading
    BY <2>1, <2>2 DEF Consume, Return, Reloading
  <2>4. /\ c' \in Seq(Msgs) /\ Len(c') <= 1 /\ backlog' \in Seq(Msgs)
        /\ delivered' \in Seq(Nat) /\ last' \in [from : Nat, to : Nat]
        /\ InOrder' /\ NothingLost' /\ Bounded(AfterHand)'
        /\ NoStall' /\ NoSendOnClosed'
    BY <1>1, <1>2, <2>1, <2>3, ProcessIInv
  <2>5. ZeroMsg \in Msgs
    BY ZeroIsMsg
  <2>6. TypeOK'
    BY <1>1, <1>2, <1>3, <2>1, <2>4, <2>5 DEF TypeOK, Return, Errors
  <2>7. CallInv'
    BY <1>1, <2>1 DEF CallInv, Return
  <2> QED BY <2>4, <2>6, <2>7 DEF IInv
<1> QED BY <1>4, <1>5

\* A message received by readBlocking.
LEMMA BlockProcessIInv == ASSUME IInv, BlockProcess PROVE IInv'
<1> DEFINE k == Least(hand.to - hand.from, want)
<1>1. /\ TypeOK /\ NothingLost /\ pc = "blockReload" /\ pc \in Reloading
      /\ copied = 0 /\ 0 < want /\ last = NoBuf
  BY DEF IInv, CallInv, BlockProcess, Reloading
<1>2. reloadChannel /\ UNCHANGED <<closed, ctxDone, deadline, accepted>>
  BY DEF BlockProcess, envVars
<1>3. hand \in Msgs /\ hand.from \in Nat /\ hand.to \in Nat /\ want \in Nat
      /\ hand.err \in {NoErr, EOF, RST}
  BY <1>1 DEF TypeOK, Msgs
<1>4. /\ Consume
      /\ \E n \in Nat, e \in Errors : Return("Read", n, e)
      /\ rerr' \in {NoErr, EOF, RST, Canceled} /\ (rerr # NoErr => rerr' # NoErr)
      /\ closeCalled' \in BOOLEAN
  <2>1. CASE hand.buf
    <3>1. hand # ZeroMsg
      BY <2>1 DEF ZeroMsg, Msg
    <3>2. hand.to - hand.from \in Nat
      BY <1>1, <1>3, <3>1 DEF NothingLost, IsRange
    <3>3. k \in Nat /\ k <= hand.to - hand.from
      BY Zenon, <1>3, <3>2, LeastBound
    <3>4. CopyOut(hand, k) /\ FinishRead(k, hand.err)
      BY <2>1, <3>1 DEF BlockProcess
    <3> HIDE DEF k
    <3>5. Consume
      BY <3>1, <3>3, <3>4 DEF Consume
    <3> QED BY <1>1, <1>3, <3>3, <3>4, <3>5 DEF FinishRead, TypeOK, Errors
  <2>2. CASE ~hand.buf /\ hand.err # NoErr
    <3>1. FinishRead(0, hand.err) /\ UNCHANGED <<last, delivered>>
      BY <2>2 DEF BlockProcess, ZeroMsg, Msg
    <3>2. hand = ZeroMsg \/ hand.from = hand.to
      BY <1>1, <2>2 DEF NothingLost, IsRange
    <3> QED BY <1>1, <1>3, <3>1, <3>2 DEF FinishRead, TypeOK, Errors, Consume
  <2>3. CASE ~hand.buf /\ hand.err = NoErr
    <3>1. /\ hand = ZeroMsg /\ Return("Read", 0, Deadline)
          /\ UNCHANGED <<rerr, closeCalled, last, delivered>>
      BY <2>3 DEF BlockProcess
    <3> QED BY <1>1, <3>1 DEF TypeOK, Errors, Consume
  <2> QED BY <2>1, <2>2, <2>3
<1>5. PICK n \in Nat, e \in Errors : Return("Read", n, e)
  BY <1>4
<1>6. hand' = ZeroMsg /\ pc' \notin Reloading
  BY <1>5 DEF Return, Reloading
<1>7. /\ c' \in Seq(Msgs) /\ Len(c') <= 1 /\ backlog' \in Seq(Msgs)
      /\ delivered' \in Seq(Nat) /\ last' \in [from : Nat, to : Nat]
      /\ InOrder' /\ NothingLost' /\ Bounded(AfterHand)'
      /\ NoStall' /\ NoSendOnClosed'
  BY <1>1, <1>2, <1>4, <1>6, ProcessIInv
<1>8. ZeroMsg \in Msgs
  BY ZeroIsMsg
<1>9. TypeOK'
  BY <1>1, <1>2, <1>4, <1>5, <1>7, <1>8 DEF TypeOK, Return
<1>10. CallInv'
  BY <1>5 DEF CallInv, Return
<1> QED BY <1>7, <1>9, <1>10 DEF IInv

\* A message received by Recv or RecvNB.
LEMMA RecvProcessIInv == ASSUME IInv, RecvProcess PROVE IInv'
<1>1. /\ TypeOK /\ NothingLost /\ pc \in Reloading /\ last = NoBuf
  BY DEF IInv, CallInv, RecvProcess, Reloading
<1>2. /\ reloadChannel
      /\ UNCHANGED <<closed, rerr, ctxDone, deadline, closeCalled, accepted>>
  BY DEF RecvProcess, envVars
<1>3. PICK op \in {"Recv", "RecvNB"} : HandOut(op, hand, hand.err)
  BY DEF RecvProcess
<1>4. /\ hand.from \in Nat /\ hand.to \in Nat /\ hand.err \in Errors
      /\ hand.from <= hand.to /\ delivered \in Seq(Nat)
  <2>1. CASE hand = ZeroMsg
    BY <1>1, <2>1 DEF TypeOK, Msgs, ZeroMsg, Msg, Errors
  <2>2. CASE hand # ZeroMsg
    BY <1>1, <2>2 DEF TypeOK, Msgs, NothingLost, IsRange, Errors
  <2> QED BY <2>1, <2>2
<1>5. CopyOut(hand, hand.to - hand.from) /\ hand.to - hand.from \in Nat
  BY <1>3, <1>4, HandOutCopies
<1>6. Consume
  <2>1. CASE hand = ZeroMsg
    <3>1. hand.from = 0 /\ hand.to - hand.from = 0
      BY <2>1 DEF ZeroMsg, Msg
    <3>2. delivered' = delivered \o Bytes(0, 0)
      BY Zenon, <1>5, <3>1 DEF CopyOut
    <3>3. delivered' = delivered
      BY <1>4, <3>2, NoBytes
    <3> QED BY <1>1, <1>3, <2>1, <3>3 DEF Consume, HandOut
  <2>2. CASE hand # ZeroMsg
    <3>1. hand.to - hand.from <= hand.to - hand.from
      BY <1>5
    <3> QED BY <1>5, <2>2, <3>1 DEF Consume
  <2> QED BY <2>1, <2>2
<1>7. Return(op, hand.to - hand.from, hand.err)
  BY <1>3 DEF HandOut
<1>8. hand' = ZeroMsg /\ pc' \notin Reloading
  BY <1>7 DEF Return, Reloading
<1>9. /\ c' \in Seq(Msgs) /\ Len(c') <= 1 /\ backlog' \in Seq(Msgs)
      /\ delivered' \in Seq(Nat) /\ last' \in [from : Nat, to : Nat]
      /\ InOrder' /\ NothingLost' /\ Bounded(AfterHand)'
      /\ NoStall' /\ NoSendOnClosed'
  BY <1>1, <1>2, <1>6, <1>8, ProcessIInv
<1>10. ZeroMsg \in Msgs
  BY ZeroIsMsg
<1>11. TypeOK'
  BY <1>1, <1>2, <1>4, <1>5, <1>7, <1>9, <1>10 DEF TypeOK, Return
<1>12. CallInv'
  BY <1>7 DEF CallInv, Return
<1> QED BY <1>9, <1>11, <1>12 DEF IInv

\* The steps that move no message: the decisions between receives, the other
\* arms of the selects, and the environment.
LEMMA QuietIInv ==
  ASSUME IInv,
         LoopExit \/ Check \/ BlockTimeout \/ BlockCancel \/ RecvElse
           \/ SetReadDeadline \/ Expire \/ Cancel
  PROVE  IInv'
<1>1. TypeOK /\ CallInv
  BY DEF IInv
<1>2. CASE LoopExit
  <2>1. /\ pc = "loop" /\ hand = ZeroMsg
        /\ UNCHANGED <<c, closed, backlog, rerr, ctxDone, deadline, last, closeCalled,
                       accepted, delivered>>
        /\ \/ Return("Read", copied, NoErr)
           \/ copied = 0 /\ pc' = "check" /\ UNCHANGED <<want, copied, hand, ret>>
    BY <1>1, <1>2 DEF LoopExit, chanVars, envVars, CallInv, Reloading
  <2>2. hand' = hand
    BY <2>1 DEF Return
  <2>3. InOrder' /\ NothingLost' /\ Bounded(AfterHand)' /\ NoStall' /\ NoSendOnClosed'
    BY <2>1, <2>2, QuietStep DEF Reloading
  <2>4. TypeOK'
    BY <1>1, <2>1, <2>2 DEF TypeOK, Return, Errors
  <2>5. CallInv'
    BY <1>1, <2>1, <2>2 DEF CallInv, Return
  <2> QED BY <2>3, <2>4, <2>5 DEF IInv
<1>3. CASE Check
  <2>1. /\ pc = "check" /\ hand = ZeroMsg
        /\ UNCHANGED <<c, closed, backlog, rerr, ctxDone, deadline, last, closeCalled,
                       accepted, delivered>>
        /\ \/ Return("Read", 0, rerr) \/ Return("Read", 0, Deadline)
           \/ pc' = "block" /\ UNCHANGED <<want, copied, hand, ret>>
    BY <1>1, <1>3 DEF Check, chanVars, envVars, CallInv, Reloading
  <2>2. hand' = hand
    BY <2>1 DEF Return
  <2>3. InOrder' /\ NothingLost' /\ Bounded(AfterHand)' /\ NoStall' /\ NoSendOnClosed'
    BY <2>1, <2>2, QuietStep DEF Reloading
  <2>4. TypeOK'
    BY <1>1, <2>1, <2>2 DEF TypeOK, Return, Errors
  <2>5. CallInv'
    BY <1>1, <2>1, <2>2 DEF CallInv, Return
  <2> QED BY <2>3, <2>4, <2>5 DEF IInv
<1>4. CASE BlockTimeout \/ BlockCancel \/ RecvElse
  <2>1. /\ pc \in {"block", "recv", "recvNB"} /\ hand = ZeroMsg
        /\ UNCHANGED <<c, closed, backlog, ctxDone, deadline, last, accepted, delivered>>
        /\ \E op \in {"Read", "Recv", "RecvNB"}, e \in Errors : Return(op, 0, e)
        /\ rerr' \in {NoErr, EOF, RST, Canceled} /\ (rerr # NoErr => rerr' # NoErr)
        /\ closeCalled' \in BOOLEAN
    BY <1>1, <1>4 DEF BlockTimeout, BlockCancel, RecvElse, FinishRead, chanVars, envVars,
                      CallInv, Reloading, TypeOK, Errors
  <2>2. PICK op \in {"Read", "Recv", "RecvNB"}, e \in Errors : Return(op, 0, e)
    BY <2>1
  <2>3. hand' = hand
    BY <2>1, <2>2 DEF Return
  <2>4. InOrder' /\ NothingLost' /\ Bounded(AfterHand)' /\ NoStall' /\ NoSendOnClosed'
    BY <2>1, <2>3, QuietStep DEF Reloading
  <2>5. TypeOK'
    BY <1>1, <2>1, <2>2, <2>3 DEF TypeOK, Return
  <2>6. CallInv'
    BY <2>1, <2>2, <2>3 DEF CallInv, Return
  <2> QED BY <2>4, <2>5, <2>6 DEF IInv
<1>5. CASE SetReadDeadline \/ Expire \/ Cancel
  <2>1. /\ UNCHANGED <<c, closed, backlog, rerr, pc, want, copied, hand, ret, last,
                       closeCalled, accepted, delivered>>
        /\ deadline' \in {"none", "armed", "expired"} /\ ctxDone' \in BOOLEAN
    BY Zenon, <1>1, <1>5 DEF SetReadDeadline, Expire, Cancel, chanVars, callVars, TypeOK
  <2>2. InOrder' /\ NothingLost' /\ Bounded(AfterHand)' /\ NoStall' /\ NoSendOnClosed'
    BY <2>1, QuietStep
  <2>3. TypeOK' /\ CallInv'
    BY <1>1, <2>1 DEF TypeOK, CallInv
  <2> QED BY <2>2, <2>3 DEF IInv
<1> QED BY <1>2, <1>3, <1>4, <1>5

\* The I/O goroutine: the three calls of Put.
LEMMA WriterIInv == ASSUME IInv, Writer PROVE IInv'
<1>1. accepted \in Nat
  BY DEF IInv, TypeOK
<1>2. CASE PutData
  <2>1. PICK k \in Sizes : Put(Msg(TRUE, accepted, accepted + k, NoErr))
    BY Zenon, <1>2 DEF PutData
  <2> DEFINE r == Msg(TRUE, accepted, accepted + k, NoErr)
  <2>2. r \in Msgs /\ r.from = accepted /\ IsRange(r)
    BY <1>1, RecvBufferAssumption DEF Msg, Msgs, IsRange
  <2> QED BY Zenon, <2>1, <2>2, PutIInv
<1>3. CASE PutEOF
  <2> DEFINE r == Msg(FALSE, accepted, accepted, EOF)
  <2>1. r \in Msgs /\ r.from = accepted /\ IsRange(r)
    BY <1>1 DEF Msg, Msgs, IsRange
  <2> QED BY Zenon, <1>3, <2>1, PutIInv DEF PutEOF
<1>4. CASE PutRST
  <2> DEFINE r == Msg(FALSE, accepted, accepted, RST)
  <2>1. r \in Msgs /\ r.from = accepted /\ IsRange(r)
    BY <1>1 DEF Msg, Msgs, IsRange
  <2> QED BY Zenon, <1>4, <2>1, PutIInv DEF PutRST
<1> QED BY <1>2, <1>3, <1>4 DEF Writer

\* Every step of the I/O goroutine, the reader, the clock and the context preserves
\* the inductive invariant.
LEMMA NextIInv == IInv /\ [Next]_vars => IInv'
<1> SUFFICES ASSUME IInv, [Next]_vars PROVE IInv'
  OBVIOUS
<1>1. CASE Writer
  BY <1>1, WriterIInv
<1>2. CASE LoopTake
  BY <1>2, TakeIInv DEF LoopTake
<1>3. CASE BlockTake
  BY <1>3, TakeIInv DEF BlockTake
<1>4. CASE RecvTake
  BY <1>4, TakeIInv DEF RecvTake
<1>5. CASE LoopProcess
  BY <1>5, LoopProcessIInv
<1>6. CASE BlockProcess
  BY <1>6, BlockProcessIInv
<1>7. CASE RecvProcess
  BY <1>7, RecvProcessIInv
<1>8. CASE LoopExit \/ Check \/ BlockTimeout \/ BlockCancel \/ RecvElse
             \/ SetReadDeadline \/ Expire \/ Cancel
  BY <1>8, QuietIInv
<1>9. CASE StartCall
  BY <1>9, ReadStartIInv, RecvStartIInv DEF StartCall
<1>10. CASE UNCHANGED vars
  <2>1. /\ UNCHANGED <<c, closed, backlog, rerr, pc, want, copied, hand, ret, ctxDone,
                       deadline, last, closeCalled, accepted, delivered>>
    BY <1>10 DEF vars, chanVars, callVars, envVars
  <2>2. InOrder' /\ NothingLost' /\ Bounded(AfterHand)' /\ NoStall' /\ NoSendOnClosed'
    BY <2>1, QuietStep
  <2>3. TypeOK' /\ CallInv'
    BY <2>1 DEF IInv, TypeOK, CallInv
  <2> QED BY <2>2, <2>3 DEF IInv
<1> QED BY <1>1, <1>2, <1>3, <1>4, <1>5, <1>6, <1>7, <1>8, <1>9, <1>10 DEF Next, InCall

\* The inductive invariant holds in every interleaving of Put with the calls of the
\* reader; the theorems below are its consequences.
THEOREM Invariance == Spec => []IInv
  BY InitIInv, NextIInv, PTL DEF Spec

\* The fields of RecvBufferReader and the call in progress keep their types.
THEOREM TypeCorrect == Spec => []TypeOK
<1>1. IInv => TypeOK
  BY DEF IInv
<1> QED BY <1>1, Invariance, PTL

\* Put, Read, Recv and RecvNB deliver the accepted bytes in order, none twice
\* and none skipped.
THEOREM DeliveredInOrder == Spec => []InOrder
<1>1. IInv => InOrder
  BY DEF IInv
<1> QED BY <1>1, Invariance, PTL

\* No interleaving of Put with the two halves of a receive loses a frame.
THEOREM NeverLost == Spec => []NothingLost
<1>1. IInv => NothingLost
  BY DEF IInv
<1> QED BY <1>1, Invariance, PTL

\* A reader that blocks in its select never leaves a frame in the backlog
\* behind an empty channel.
THEOREM NeverStalls == Spec => []NoStall
<1>1. IInv => NoStall
  BY DEF IInv
<1> QED BY <1>1, Invariance, PTL

\* Put and reloadChannel never send on a closed channel.
THEOREM NeverSendsOnClosed == Spec => []NoSendOnClosed
<1>1. IInv => NoSendOnClosed
  BY DEF IInv
<1> QED BY <1>1, Invariance, PTL

-----------------------------------------------------------------------------
(***************************************************************************)
(* RecvBuffer implements ByteStream, if no frame is empty: "nil: received  *)
(* some data" is what the comment of RecvMsg.Err says of a frame.          *)
(***************************************************************************)

\* A message with a Buffer carries data and no error; one with an error comes last,
\* where e is the error of the stream and a what was accepted.
Framed(m, e, a) ==
  /\ m.buf => m.from < m.to /\ m.err = NoErr
  /\ m.err # NoErr => e # NoErr /\ m.to = a

EndInv ==
  /\ Framed(hand, rerr, accepted)
  /\ \A i \in 1..Len(c) : Framed(c[i], rerr, accepted)
  /\ \A i \in 1..Len(backlog) : Framed(backlog[i], rerr, accepted)

\* The message comes from the hand, the channel or the backlog.
Held(m) ==
  \/ m = hand \/ m = ZeroMsg
  \/ (\E i \in 1..Len(c) : m = c[i]) \/ (\E i \in 1..Len(backlog) : m = backlog[i])

\* Messages that only change places, while the stream stays as it is or fails, end it
\* as they did.
LEMMA EndKept ==
  ASSUME EndInv, accepted' = accepted, rerr # NoErr => rerr' # NoErr,
         Held(hand'), \A i \in 1..Len(c') : Held(c'[i]),
         \A i \in 1..Len(backlog') : Held(backlog'[i])
  PROVE  EndInv'
<1>1. ASSUME NEW m, Held(m)
      PROVE  Framed(m, rerr', accepted')
  <2>1. Framed(ZeroMsg, rerr, accepted)
    BY DEF Framed, ZeroMsg, Msg
  <2>2. Framed(m, rerr, accepted)
    BY <1>1, <2>1 DEF Held, EndInv
  <2> QED  BY <2>2 DEF Framed
<1> QED  BY <1>1 DEF EndInv

\* The two halves of a receive only move messages.
LEMMA ReceiveHeld ==
  ASSUME TypeOK, Receive, backlog' = backlog
  PROVE  /\ Held(hand') /\ (\A i \in 1..Len(c') : Held(c'[i]))
         /\ \A i \in 1..Len(backlog') : Held(backlog'[i])
<1>1. c \in Seq(Msgs)
  BY DEF TypeOK
<1>2. \A i \in 1..Len(backlog') : Held(backlog'[i])
  BY DEF Held
<1>3. CASE c # <<>> /\ hand' = Head(c) /\ c' = Tail(c)
  <2>1. Len(c) \in Nat /\ 1 \in 1..Len(c) /\ Head(c) = c[1]
    BY <1>1, <1>3
  <2>2. \A i \in 1..Len(c') : i + 1 \in 1..Len(c) /\ c'[i] = c[i + 1]
    BY <1>1, <1>3
  <2> QED  BY <2>1, <2>2, <1>2, <1>3 DEF Held
<1>4. CASE hand' = ZeroMsg /\ UNCHANGED c
  BY <1>2, <1>4 DEF Held
<1> QED  BY <1>3, <1>4 DEF Receive

\* reloadChannel only moves messages.
LEMMA ReloadHeld ==
  ASSUME TypeOK, reloadChannel
  PROVE  /\ \A i \in 1..Len(c') : Held(c'[i])
         /\ \A i \in 1..Len(backlog') : Held(backlog'[i])
<1>1. backlog \in Seq(Msgs)
  BY DEF TypeOK
<1>2. CASE backlog # <<>> /\ c' = <<Head(backlog)>> /\ backlog' = Tail(backlog)
  <2>1. Len(backlog) \in Nat /\ 1 \in 1..Len(backlog) /\ Head(backlog) = backlog[1]
    BY <1>1, <1>2
  <2>2. \A i \in 1..Len(backlog') : i + 1 \in 1..Len(backlog) /\ backlog'[i] = backlog[i + 1]
    BY <1>1, <1>2
  <2>3. \A i \in 1..Len(c') : c'[i] = backlog[1]
    BY <1>2, <2>1
  <2> QED  BY <2>1, <2>2, <2>3 DEF Held
<1>3. CASE UNCHANGED <<c, backlog>>
  BY <1>3 DEF Held
<1> QED  BY <1>2, <1>3 DEF reloadChannel

\* Put queues a message that ends the stream where it stands.
LEMMA PutEnd ==
  ASSUME TypeOK, EndInv, NEW r \in Msgs, Framed(r, r.err, r.to), Put(r)
  PROVE  EndInv'
<1>1. rerr = NoErr /\ rerr' = r.err /\ accepted' = r.to /\ hand' = hand /\ Enqueue(r)
  BY DEF Put, callVars
<1>2. c \in Seq(Msgs) /\ backlog \in Seq(Msgs)
  BY DEF TypeOK
<1>3. ASSUME NEW m, Framed(m, rerr, accepted)
      PROVE  Framed(m, rerr', accepted')
  BY <1>1, <1>3 DEF Framed
<1>4. Framed(r, rerr', accepted') /\ Framed(hand', rerr', accepted')
  BY <1>1, <1>3 DEF EndInv
<1>5. (\A i \in 1..Len(c) : Framed(c[i], rerr', accepted'))
      /\ \A i \in 1..Len(backlog) : Framed(backlog[i], rerr', accepted')
  BY <1>3 DEF EndInv
<1>6. CASE c' = <<r>> /\ UNCHANGED backlog
  <2>1. \A i \in 1..Len(c') : c'[i] = r
    BY <1>6
  <2> QED  BY <2>1, <1>4, <1>5, <1>6 DEF EndInv
<1>7. CASE backlog' = Append(backlog, r) /\ UNCHANGED c
  <2>1. \A i \in 1..Len(backlog') : backlog'[i] = r \/ (i \in 1..Len(backlog) /\ backlog'[i] = backlog[i])
    BY <1>2, <1>7
  <2> QED  BY <2>1, <1>4, <1>5, <1>7 DEF EndInv
<1> QED  BY <1>1, <1>6, <1>7 DEF Enqueue

\* Two in-order prefixes of the stream: the longer one goes on where the other ends.
LEMMA GoesOn ==
  ASSUME NEW d \in Seq(Nat), NEW e \in Seq(Nat), Len(d) <= Len(e),
         \A i \in 1..Len(d) : d[i] = i, \A i \in 1..Len(e) : e[i] = i
  PROVE  e = d \o Bytes(Len(d), Len(e) - Len(d))
<1> DEFINE k == Len(e) - Len(d)
           f == d \o Bytes(Len(d), k)
<1>1. k \in Nat /\ Len(d) \in Nat /\ Len(e) \in Nat /\ Len(d) + k = Len(e)
  OBVIOUS
<1> HIDE DEF k
<1>2. f \in Seq(Nat) /\ Len(f) = Len(d) + k /\ \A i \in 1..Len(f) : f[i] = i
  BY <1>1, BytesAppend, Zenon
<1> HIDE DEF f
<1>3. Len(f) = Len(e) /\ \A i \in 1..Len(e) : e[i] = f[i]
  BY <1>1, <1>2
<1>4. e = f
  BY <1>2, <1>3, SeqEqual
<1> QED  BY <1>4 DEF f, k

\* A step of the reader that keeps what was accepted, takes nothing back, and reports
\* the end anew only to a reader that has everything, is a Deliver of the stream.
LEMMA Delivers ==
  ASSUME IInv, IInv', accepted' = accepted, rerr' # NoErr <=> rerr # NoErr,
         Len(delivered) <= Len(delivered'),
         ret'.err = EOF /\ ~ctxDone' =>
           (ret.err = EOF /\ ~ctxDone) \/ (rerr # NoErr /\ Len(delivered') = accepted)
  PROVE  Stream!Deliver
<1>1. /\ delivered \in Seq(Nat) /\ delivered' \in Seq(Nat) /\ accepted \in Nat
      /\ (\A i \in 1..Len(delivered) : delivered[i] = i) /\ Len(delivered') <= accepted
      /\ \A i \in 1..Len(delivered') : delivered'[i] = i
  BY DEF IInv, TypeOK, InOrder
<1>2. PICK k : k = Len(delivered') - Len(delivered)
  OBVIOUS
<1>3. k \in 0..(accepted - Len(delivered))
  BY <1>1, <1>2
<1>4. delivered' = delivered \o Bytes(Len(delivered), k)
  BY <1>1, <1>2, GoesOn, Zenon
<1>5. \E j \in 0..(accepted - Len(delivered)) :
        delivered' = delivered \o Stream!Bytes(Len(delivered), j)
  BY <1>3, <1>4 DEF Bytes, Stream!Bytes
<1>6. (ret'.err = EOF /\ ~ctxDone') \in
        {FALSE, ret.err = EOF /\ ~ctxDone, rerr # NoErr /\ Len(delivered') = accepted}
  <2>1. CASE ~(ret'.err = EOF /\ ~ctxDone')
    BY <2>1, Zenon
  <2>2. CASE ret'.err = EOF /\ ~ctxDone' /\ ret.err = EOF /\ ~ctxDone
    BY <2>2, Zenon
  <2>3. CASE ret'.err = EOF /\ ~ctxDone' /\ rerr # NoErr /\ Len(delivered') = accepted
    BY <2>3, Zenon
  <2> QED  BY <2>1, <2>2, <2>3, Zenon
<1>7. (rerr' # NoErr) = (rerr # NoErr)
  OBVIOUS
<1> QED  BY <1>5, <1>6, <1>7, Zenon DEF Stream!Deliver

\* The Puts are the writer of the stream.
LEMMA WriterRefines ==
  ASSUME IInv, EndInv, 0 \notin Sizes, Writer
  PROVE  EndInv' /\ (Stream!Write \/ Stream!Finish)
<1>1. accepted \in Nat /\ TypeOK
  BY DEF IInv, TypeOK
<1>2. CASE PutData
  <2>1. PICK k \in Sizes : Put(Msg(TRUE, accepted, accepted + k, NoErr))
    BY Zenon, <1>2 DEF PutData
  <2>2. k \in Nat /\ k # 0
    BY RecvBufferAssumption
  <2> DEFINE r == Msg(TRUE, accepted, accepted + k, NoErr)
  <2>3. r \in Msgs /\ Framed(r, r.err, r.to) /\ r.err = NoErr /\ r.to = accepted + k
    BY <1>1, <2>2 DEF Msg, Msgs, Framed
  <2>4. EndInv'
    BY Zenon, <1>1, <2>1, <2>3, PutEnd
  <2>5. /\ rerr = NoErr /\ rerr' = NoErr /\ accepted' = accepted + k
        /\ UNCHANGED <<ret, ctxDone, delivered>>
    BY Zenon, <2>1, <2>3 DEF Put, callVars, envVars
  <2>6. accepted' \in Nat /\ accepted' >= accepted
    BY <1>1, <2>2, <2>5
  <2>7. Stream!Write
    BY <2>5, <2>6 DEF Stream!Write
  <2> QED  BY <2>4, <2>7
<1>3. ASSUME NEW e \in {EOF, RST}, Put(Msg(FALSE, accepted, accepted, e))
      PROVE  EndInv' /\ Stream!Finish
  <2> DEFINE r == Msg(FALSE, accepted, accepted, e)
  <2>1. r \in Msgs /\ Framed(r, r.err, r.to) /\ r.err = e /\ r.to = accepted /\ e # NoErr
    BY <1>1, <1>3 DEF Msg, Msgs, Framed, EOF, RST, NoErr
  <2>2. EndInv'
    BY Zenon, <1>1, <1>3, <2>1, PutEnd
  <2>3. /\ rerr = NoErr /\ rerr' = e /\ accepted' = accepted
        /\ UNCHANGED <<ret, ctxDone, delivered>>
    BY Zenon, <1>3, <2>1 DEF Put, callVars, envVars
  <2>4. Stream!Finish
    BY <2>1, <2>3 DEF Stream!Finish
  <2> QED  BY <2>2, <2>4
<1>4. CASE PutEOF
  BY <1>3, <1>4 DEF PutEOF
<1>5. CASE PutRST
  BY <1>3, <1>5 DEF PutRST
<1> QED  BY <1>2, <1>4, <1>5 DEF Writer

\* Copying never takes bytes back.
LEMMA CopyGrows ==
  ASSUME NEW d \in Seq(Nat), NEW p \in Nat, NEW k \in Nat
  PROVE  Len(d) <= Len(d \o Bytes(p, k)) /\ (k = 0 => Len(d \o Bytes(p, k)) = Len(d))
<1>1. Bytes(p, k) \in Seq(Nat) /\ Len(Bytes(p, k)) = k
  BY DEF Bytes
<1> QED  BY <1>1, ConcatProperties

\* A reader that holds the end of the stream has been given everything accepted.
LEMMA EndReached ==
  ASSUME IInv, EndInv, hand.err # NoErr
  PROVE  /\ ~hand.buf /\ hand.from = hand.to /\ Len(delivered) = accepted /\ rerr # NoErr
         /\ hand # ZeroMsg
<1>1. ~hand.buf /\ rerr # NoErr /\ hand.to = accepted
  BY DEF EndInv, Framed
<1>2. hand # ZeroMsg
  BY DEF ZeroMsg, Msg
<1> QED  BY <1>1, <1>2 DEF IInv, NothingLost, IsRange, AfterLast

\* The first half of a receive changes nothing the stream shows.
LEMMA TakeRefines ==
  ASSUME IInv, IInv', EndInv, LoopTake \/ BlockTake \/ RecvTake
  PROVE  EndInv' /\ Stream!Deliver
<1>1. Receive /\ UNCHANGED <<backlog, rerr, ret, ctxDone, accepted, delivered>>
  BY DEF LoopTake, BlockTake, RecvTake, envVars
<1>2. TypeOK /\ Len(delivered) \in Nat
  BY DEF IInv, TypeOK
<1>3. EndInv'
  BY <1>1, <1>2, ReceiveHeld, EndKept
<1>4. Stream!Deliver
  BY <1>1, <1>2, Delivers
<1> QED  BY <1>3, <1>4

\* Nor do the steps that move no message, except that a Read that is cancelled ends the
\* stream: r.Err is then set by the reader.
LEMMA QuietRefines ==
  ASSUME IInv, IInv', EndInv,
         LoopExit \/ Check \/ BlockTimeout \/ BlockCancel \/ RecvElse
           \/ SetReadDeadline \/ Expire \/ Cancel
  PROVE  EndInv' /\ (Stream!Deliver \/ Stream!Finish)
<1>1. Len(delivered) \in Nat /\ accepted' = accepted /\ delivered' = delivered
      /\ UNCHANGED <<c, backlog>> /\ (rerr # NoErr => rerr' = rerr)
  BY DEF IInv, TypeOK, LoopExit, Check, BlockTimeout, BlockCancel, RecvElse, SetReadDeadline,
         Expire, Cancel, chanVars, FinishRead
<1>2. hand' \in {hand, ZeroMsg}
  BY Zenon DEF LoopExit, Check, BlockTimeout, BlockCancel, RecvElse, SetReadDeadline,
         Expire, Cancel, callVars, FinishRead, Return
<1>3. EndInv'
  <2>1. Held(hand') /\ (\A i \in 1..Len(c') : Held(c'[i]))
        /\ \A i \in 1..Len(backlog') : Held(backlog'[i])
    BY <1>1, <1>2, Zenon DEF Held
  <2> QED  BY <1>1, <2>1, EndKept, Zenon
<1>4. CASE LoopExit \/ Check \/ BlockTimeout \/ RecvElse
  <2>1. rerr' = rerr /\ ctxDone' = ctxDone
    BY <1>4, Zenon DEF LoopExit, Check, BlockTimeout, RecvElse, chanVars, envVars
  <2>2. \/ ret' = ret
        \/ \E op, n : \E err \in {NoErr, Canceled, Deadline} : ret' = [op |-> op, n |-> n, err |-> err]
        \/ ~Live /\ ret' = [op |-> "Read", n |-> 0, err |-> rerr]
    <3>1. CASE LoopExit
      BY <3>1, Zenon DEF LoopExit, Return
    <3>2. CASE Check
      BY <3>2, Zenon DEF Check, Return
    <3>3. CASE BlockTimeout
      BY <3>3, Zenon DEF BlockTimeout, Return
    <3>4. CASE RecvElse
      BY <3>4, Zenon DEF RecvElse, Return
    <3> QED  BY <1>4, <3>1, <3>2, <3>3, <3>4, Zenon
  <2>3. ret' = ret \/ ret'.err # EOF
    BY ONLY <2>2 DEF Live, NoErr, EOF, Canceled, Deadline
  <2> QED  BY <2>1, <2>3, <1>1, <1>3, Delivers
<1>5. CASE BlockCancel
  <2>1. ctxDone /\ ctxDone' /\ (rerr = NoErr => rerr' = Canceled)
    BY <1>5 DEF BlockCancel, FinishRead, envVars
  <2>2. CASE rerr = NoErr
    <3>1. rerr' # NoErr
      BY <2>1, <2>2 DEF NoErr, Canceled
    <3>2. Stream!Finish
      BY <1>1, <2>1, <2>2, <3>1 DEF Stream!Finish
    <3> QED  BY <3>2, <1>3
  <2>3. CASE rerr # NoErr
    BY <1>1, <1>3, <2>1, <2>3, Delivers
  <2> QED  BY <2>2, <2>3
<1>6. CASE SetReadDeadline \/ Expire \/ Cancel
  <2>1. rerr' = rerr /\ ret' = ret /\ (ctxDone' \/ (ctxDone' = ctxDone))
    BY <1>6 DEF SetReadDeadline, Expire, Cancel, chanVars, callVars
  <2> QED  BY <2>1, <1>1, <1>3, Delivers
<1> QED  BY <1>4, <1>5, <1>6

\* A call that begins hands out what the previous Read left, and reports no end.
LEMMA StartRefines ==
  ASSUME IInv, IInv', EndInv, StartCall
  PROVE  EndInv' /\ Stream!Deliver
<1>1. /\ UNCHANGED <<c, backlog, rerr, ctxDone, accepted>>
      /\ hand' \in {hand, ZeroMsg} /\ (ret' = ret \/ ret'.err # EOF)
  BY DEF StartCall, ReadStart, RecvStart, HandOut, Return, chanVars, envVars, Live,
         NoErr, EOF, Deadline
<1>2. EndInv'
  <2>1. Held(hand') /\ (\A i \in 1..Len(c') : Held(c'[i]))
        /\ \A i \in 1..Len(backlog') : Held(backlog'[i])
    BY <1>1, Zenon DEF Held
  <2> QED  BY <1>1, <2>1, EndKept
<1>3. Len(delivered) <= Len(delivered')
  <2>1. delivered \in Seq(Nat) /\ last.from \in Nat /\ last.to - last.from \in Nat
        /\ Len(delivered) \in Nat
    <3>1. delivered \in Seq(Nat) /\ last.from \in Nat /\ last.to \in Nat
      BY DEF IInv, TypeOK
    <3>2. last.from <= last.to
      BY <3>1 DEF IInv, NothingLost, NoBuf
    <3> QED  BY <3>1, <3>2
  <2>2. \A n \in Reads : Least(last.to - last.from, n) \in Nat
    BY <2>1, RecvBufferAssumption, LeastBound
  <2>3. delivered' = delivered \/ \E k \in Nat : delivered' = delivered \o Bytes(last.from, k)
    BY <2>1, <2>2, Zenon DEF StartCall, ReadStart, RecvStart, HandOut, CopyOut
  <2> QED  BY <2>1, <2>3, CopyGrows, Zenon
<1>4. Stream!Deliver
  BY <1>1, <1>3, Delivers
<1> QED  BY <1>2, <1>4

\* The second half of a receive hands bytes out, or the end that follows them.
LEMMA ProcessRefines ==
  ASSUME IInv, IInv', EndInv, LoopProcess \/ BlockProcess \/ RecvProcess
  PROVE  EndInv' /\ Stream!Deliver
<1>1. /\ hand \in Msgs /\ hand.from \in Nat /\ hand.to \in Nat /\ delivered \in Seq(Nat)
      /\ want \in Nat /\ copied \in Nat /\ Len(delivered) \in Nat
  BY DEF IInv, TypeOK, Msgs
<1>2. reloadChannel /\ UNCHANGED <<ctxDone, accepted>>
  BY DEF LoopProcess, BlockProcess, RecvProcess, envVars
<1>3. hand' = ZeroMsg
  BY Zenon DEF LoopProcess, BlockProcess, RecvProcess, HandOut, FinishRead, Return
<1>4. rerr' = rerr
  <2>1. hand.err # NoErr => rerr # NoErr
    BY EndReached
  <2> QED  BY <2>1 DEF LoopProcess, BlockProcess, RecvProcess, FinishRead, ZeroMsg, Msg
<1>5. EndInv'
  <2>1. Held(hand') /\ (\A i \in 1..Len(c') : Held(c'[i]))
        /\ \A i \in 1..Len(backlog') : Held(backlog'[i])
    BY <1>2, <1>3, ReloadHeld DEF Held, IInv
  <2> QED  BY <1>2, <1>4, <2>1, EndKept
<1>6. hand.to - hand.from \in Nat /\ (hand.buf => hand.from < hand.to)
  <2>1. hand # ZeroMsg => hand.from <= hand.to
    BY DEF IInv, NothingLost, IsRange
  <2>2. hand = ZeroMsg => hand.from = 0 /\ hand.to = 0
    BY DEF ZeroMsg, Msg
  <2>3. hand.buf => hand.from < hand.to
    BY Zenon DEF EndInv, Framed
  <2>4. PICK f, u : f = hand.from /\ u = hand.to
    OBVIOUS
  <2>5. f \in Nat /\ u \in Nat /\ (f <= u \/ (f = 0 /\ u = 0))
    BY <1>1, <2>1, <2>2, <2>4, Zenon
  <2>6. u - f \in Nat
    BY ONLY <2>5
  <2> QED  BY <2>3, <2>4, <2>6, Zenon
<1>7. /\ pc = "loopReload" => copied < want
      /\ pc = "blockReload" => 0 < want
  BY DEF IInv, CallInv
<1>8. Len(delivered) <= Len(delivered') /\ (hand.err # NoErr => Len(delivered') = Len(delivered))
  <2>1. pc = "loopReload" => want - copied \in Nat
    BY <1>1, <1>7
  <2>2. ASSUME NEW k \in Nat, hand.err # NoErr => k = 0,
               delivered' = delivered \o Bytes(hand.from, k)
        PROVE  Len(delivered) <= Len(delivered') /\ (hand.err # NoErr => Len(delivered') = Len(delivered))
    BY <1>1, <2>2, CopyGrows, Zenon
  <2>3. hand.err # NoErr => ~hand.buf /\ hand.to - hand.from = 0
    BY <1>1, EndReached
  <2>4. CASE LoopProcess
    <3>1. pc = "loopReload" /\ Least(hand.to - hand.from, want - copied) \in Nat
      BY <2>1, <2>4, <1>6, LeastBound, Zenon DEF LoopProcess
    <3>2. CASE hand.buf
      <4>1. hand # ZeroMsg
        BY <3>2 DEF ZeroMsg, Msg
      <4>2. delivered' = delivered \o Bytes(hand.from, Least(hand.to - hand.from, want - copied))
        BY <2>4, <3>2, <4>1, Zenon DEF LoopProcess, CopyOut
      <4> QED  BY <2>2, <2>3, <3>1, <3>2, <4>2, Zenon
    <3>3. CASE ~hand.buf
      <4>1. delivered' = delivered
        BY <2>4, <3>3, Zenon DEF LoopProcess
      <4> QED  BY <1>1, <4>1
    <3> QED  BY <3>2, <3>3
  <2>5. CASE BlockProcess
    <3>1. Least(hand.to - hand.from, want) \in Nat
      BY <1>1, <1>6, LeastBound, Zenon
    <3> QED  BY <2>2, <2>3, <2>5, <3>1, <1>1 DEF BlockProcess, CopyOut
  <2>6. CASE RecvProcess
    BY <2>2, <2>3, <2>6, <1>6 DEF RecvProcess, HandOut
  <2> QED  BY <2>4, <2>5, <2>6
<1>9. ret'.err = EOF => ret' = ret \/ hand.err # NoErr
  <2>1. CASE LoopProcess
    <3>1. \/ ret' = ret \/ hand.err # NoErr
          \/ \E n : ret' = [op |-> "Read", n |-> n, err |-> "nil"]
      BY <2>1, Zenon DEF LoopProcess, Return, NoErr
    <3>2. ret' = ret \/ hand.err # NoErr \/ ret'.err = "nil"
      BY ONLY <3>1
    <3> QED  BY <3>2, Zenon DEF EOF
  <2>2. CASE RecvProcess
    BY <2>2 DEF RecvProcess, HandOut, Return, NoErr, EOF
  <2>3. CASE BlockProcess
    <3>1. CASE hand.buf
      <4> DEFINE k == Least(hand.to - hand.from, want)
      <4>1. k > 0
        BY <1>1, <1>6, <1>7, <2>3, <3>1 DEF Least, BlockProcess
      <4> HIDE DEF k
      <4>2. FinishRead(k, hand.err)
        BY <2>3, <3>1 DEF BlockProcess, ZeroMsg, Msg, k
      <4> QED  BY <4>1, <4>2 DEF FinishRead, Return, NoErr, EOF
    <3>2. CASE ~hand.buf
      BY <2>3, <3>2 DEF BlockProcess, Return, Deadline, EOF
    <3> QED  BY <3>1, <3>2
  <2> QED  BY <2>1, <2>2, <2>3
<1>10. hand.err # NoErr => rerr # NoErr /\ Len(delivered') = accepted
  BY <1>8, EndReached
<1>11. Stream!Deliver
  BY <1>2, <1>4, <1>8, <1>9, <1>10, Delivers
<1> QED  BY <1>5, <1>11

\* Put, Read, Recv and RecvNB, in any interleaving and with deadlines, failures and
\* cancellation, implement the byte stream, for any sizes of the frames and of the reads:
\* io.EOF reaches a reader that was not cancelled only after every byte accepted.
THEOREM ReaderImplementsStream == 0 \notin Sizes => (Spec => ImplementsStream)
<1> SUFFICES ASSUME 0 \notin Sizes
             PROVE  Spec => ImplementsStream
  OBVIOUS
<1>1. Init => EndInv /\ Stream!Init
  <2> SUFFICES ASSUME Init
               PROVE  EndInv /\ Stream!Init
    OBVIOUS
  <2>1. Len(c) = 0 /\ Len(backlog) = 0 /\ hand = ZeroMsg
    BY DEF Init
  <2>2. EndInv
    BY <2>1 DEF EndInv, Framed, ZeroMsg, Msg
  <2>3. Stream!Init
    BY DEF Init, Stream!Init, EOF, NoErr
  <2> QED  BY <2>2, <2>3
<1>2. IInv /\ IInv' /\ EndInv /\ [Next]_vars => EndInv' /\ [Stream!Next]_(Stream!bsvars)
  <2> SUFFICES ASSUME IInv, IInv', EndInv, [Next]_vars
               PROVE  EndInv' /\ [Stream!Next]_(Stream!bsvars)
    OBVIOUS
  <2>1. CASE Writer
    BY <2>1, WriterRefines DEF Stream!Next
  <2>2. CASE LoopTake \/ BlockTake \/ RecvTake
    BY <2>2, TakeRefines DEF Stream!Next
  <2>3. CASE LoopExit \/ Check \/ BlockTimeout \/ BlockCancel \/ RecvElse
               \/ SetReadDeadline \/ Expire \/ Cancel
    BY <2>3, QuietRefines DEF Stream!Next
  <2>4. CASE StartCall
    BY <2>4, StartRefines DEF Stream!Next
  <2>5. CASE LoopProcess \/ BlockProcess \/ RecvProcess
    BY <2>5, ProcessRefines DEF Stream!Next
  <2>6. CASE UNCHANGED vars
    <3>1. UNCHANGED <<c, backlog, rerr, hand, ret, ctxDone, accepted, delivered>>
      BY <2>6 DEF vars, chanVars, callVars, envVars
    <3> QED  BY <3>1 DEF EndInv, Stream!bsvars
  <2> QED  BY <2>1, <2>2, <2>3, <2>4, <2>5, <2>6 DEF Next, InCall
<1> QED  BY <1>1, <1>2, Invariance, PTL DEF Spec, ImplementsStream, Stream!Spec
=============================================================================
