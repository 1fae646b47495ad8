---------------------------- MODULE TunnelProofs ----------------------------
(***************************************************************************)
(* Proofs about Proxy and the handlers that lead to it (Tunnel): the       *)
(* copiers and Proxy preserve the invariant of TunnelInv, and what follows *)
(* from it: what its runs check, and that each direction is a ByteStream.  *)
(***************************************************************************)
EXTENDS TunnelInv, TunnelStreams

\* Time for each leaf of the proofs.
USE SMTT(30), ZenonT(20)

-----------------------------------------------------------------------------
(* The copiers and Proxy preserve the invariant.                           *)

\* What a step of the relay has to show.
LEMMA RelayStep ==
  ASSUME IInv, hpc = "relay", UNCHANGED hVars, UNCHANGED fixedVars, UNCHANGED <<peer, sent>>,
         TypeOK', DirInv', SocketInv', CopierInv', ResultInv', conn'["out"] # "none",
         faults = {} /\ kind # "plain" => Healthy'
  PROVE  IInv'
<1>1. UNCHANGED <<kind, faults, eager, framed, hlen, hpc, skip, resp>>
  BY DEF hVars, fixedVars, kindVars
<1>2. HandlerInv'
  <2>1. HandlerInv /\ (HasDest' <=> HasDest)
    BY <1>1 DEF IInv, HasDest
  <2> QED  BY <1>1, <2>1 DEF HandlerInv, IsConnect
<1>3. HealthyInv'
  BY <1>1 DEF IInv, HealthyInv
<1> QED  BY <1>2, <1>3 DEF IInv

\* Only copier s moves.
Only(s) == \A t \in Copiers : t # s => /\ pc'[t] = pc[t] /\ buf'[t] = buf[t]
                                       /\ rerr'[t] = rerr[t] /\ err'[t] = err[t]

\* What a step of one copier has to show.
LEMMA CopierStep ==
  ASSUME IInv, NEW s \in Copiers, Only(s), \A t \in Copiers : t # s => (t \in got' <=> t \in got),
         pc'[s] = "read" => buf'[s] = <<>> /\ rerr'[s] = "nil",
         pc'[s] = "write" => buf'[s] # <<>> /\ rerr'[s] # "err",
         pc'[s] = "readErr" => buf'[s] = <<>> /\ rerr'[s] # "nil",
         pc'[s] \in {"read", "write", "readErr"} => err'[s] = "nil",
         pc'[s] \in {"signal", "done"} => buf'[s] = <<>> /\ (err'[s] = "nil" => rerr'[s] = "EOF"),
         s \in got' <=> pc'[s] = "done"
  PROVE  CopierInv'
<1>1. CopierInv
  BY DEF IInv
<1> QED  BY <1>1 DEF CopierInv, Only

\* The other copier's direction is as it was.
LEMMA OtherKept ==
  ASSUME IInv, NEW s \in Copiers, Only(s), UNCHANGED <<faults, peer, sent, skip>>,
         \E m \in Closings : tx'[In(s)] = tx[In(s)] \o m, rx'[Out(s)] = rx[Out(s)],
         NEW w \in Nat, NEW p \in Nat, NEW r \in Nat, Dir(s, Base(s), w, p, r)'
  PROVE  DirInv'
<1>1. PICK t \in Copiers : t = Other(s)
  BY SideOf
<1>2. PICK a : a = Base(t)
  OBVIOUS
<1>3. PICK v, q, k \in Nat : Dir(t, a, v, q, k)
  BY <1>2 DEF IInv, DirInv
<1>4. /\ a \in Nat /\ Base(t)' = a /\ In(t) = Out(s) /\ Out(t) = In(s) /\ t # s
      /\ \A u \in Copiers : u = s \/ u = t
  BY <1>1, <1>2, Typed, SideOf DEF Base
<1>5. PICK m \in Closings : tx'[Out(t)] = tx[Out(t)] \o m
  BY <1>4
<1>6. /\ buf'[t] = buf[t] /\ rerr'[t] = rerr[t] /\ err'[t] = err[t]
      /\ (rerr[t] = "EOF" /\ "quic" \notin faults => peer[In(t)] # "open" /\ q = sent[In(t)])
  BY <1>3, <1>4 DEF Only, Dir
<1>7. Dir(t, a, v, q, k)'
  BY <1>3, <1>4, <1>5, <1>6, DirKept, Zenon
<1> QED  BY <1>4, <1>7, Zenon DEF DirInv

\* Nothing has failed between healthy peers.
LEMMA HealthyNow ==
  ASSUME IInv, hpc = "relay", faults = {}, kind # "plain"
  PROVE  Healthy /\ \A y \in Sides : peer[y] # "reset"
  BY Zenon DEF IInv, HealthyInv

\* A copier that meets no error keeps it so.
LEMMA HealthyMove ==
  ASSUME IInv, hpc = "relay", NEW s \in Copiers, Only(s), ret' = ret, err'[s] = err[s],
         err[s] = "nil" => conn' = conn, rerr'[s] = "err" => rerr[s] = "err",
         pc'[s] \in {"read", "write", "readErr"} => pc[s] \in {"read", "write", "readErr"}
  PROVE  faults = {} /\ kind # "plain" => Healthy'
<1> SUFFICES ASSUME faults = {}, kind # "plain"
             PROVE  Healthy'
  OBVIOUS
<1>1. Healthy
  BY HealthyNow, Zenon
<1>2. conn' = conn
  BY <1>1, Zenon DEF Healthy
<1> QED  BY <1>1, <1>2 DEF Healthy, Only

\* While a copier runs Proxy has not returned.
LEMMA RunningStep ==
  ASSUME IInv, NEW s \in Copiers, pc[s] # "done"
  PROVE  ret = "none" /\ s \notin got
  BY DEF IInv, CopierInv, ResultInv

\* Read preserves the invariant.
LEMMA ReadIInv ==
  ASSUME IInv, hpc = "relay", NEW s \in Copiers, Read(s), UNCHANGED hVars, UNCHANGED fixedVars
  PROVE  IInv'
<1>1. /\ UNCHANGED <<peer, sent, tx, conn, err, got, ret>> /\ pc[s] = "read"
      /\ UNCHANGED <<kind, faults, eager, framed, hlen, hpc, skip, resp>>
      /\ pc' = [pc EXCEPT ![s] = IF buf'[s] # <<>> THEN "write" ELSE "readErr"]
  BY DEF Read, hVars, fixedVars, kindVars
<1>2. PICK x, q, a : x = In(s) /\ q = rx[x] /\ a = Base(s)
  OBVIOUS
<1>3. PICK w, p, r \in Nat : Dir(s, a, w, p, r)
  BY <1>2 DEF IInv, DirInv
<1>4. /\ a \in Nat /\ Base(s)' = a /\ x \in Sides /\ Out(s) \in Sides /\ Out(s) # x /\ sent[x] \in Nat
      /\ q \in Seq(Items) /\ buf[s] = <<>> /\ rerr[s] = "nil" /\ err[s] = "nil" /\ s \notin got
      /\ ret = "none"
  BY <1>1, <1>2, Typed, SideOf, RunningStep DEF Base, IInv, CopierInv
<1>5. Queue(q, p, r) /\ (Carries(q, FIN) => p + r = sent[x] /\ peer[x] # "open")
      /\ (Carries(q, RST) => peer[x] = "reset") /\ p \in Nat
  BY <1>2, <1>3 DEF Dir
<1>6. PICK m \in Closings : tx'[Out(s)] = tx[Out(s)] \o m
  BY <1>1, <1>4, Typed, SameTx, Zenon
<1>7. \E n \in Closings : tx'[In(s)] = tx[In(s)] \o n
  BY <1>1, <1>2, <1>4, Typed, SameTx, Zenon
<1>8. CASE conn[x] = "closed" \/ (q # <<>> /\ Head(q) \in {FIN, RST})
  <2>1. UNCHANGED <<rx, buf>>
    BY <1>2, <1>8, <1>4, MarkItems DEF Read
  <2>2. PICK e : /\ rerr' = [rerr EXCEPT ![s] = e] /\ e \in {"EOF", "err"}
                 /\ e = "EOF" => q # <<>> /\ Head(q) = FIN
                 /\ e = "err" => conn[x] = "closed" \/ (q # <<>> /\ Head(q) = RST)
    BY <1>2, <1>8, MarkItems, Zenon DEF Read
  <2>3. /\ rerr'[s] = e /\ buf'[s] = <<>> /\ pc'[s] = "readErr" /\ Only(s)
        /\ rerr' \in [Copiers -> {"nil", "EOF", "err"}]
        /\ pc' \in [Copiers -> {"read", "write", "readErr", "signal", "done"}]
    BY <1>1, <1>4, <2>1, <2>2, Typed DEF Only
  <2>4. e = "EOF" => peer[x] # "open" /\ p = sent[x]
    <3>1. ASSUME e = "EOF"
          PROVE  r = 0 /\ Carries(q, FIN)
      <4>1. q # <<>> /\ Head(q) = FIN /\ Head(q) \in {FIN, RST}
        BY <2>2, <3>1
      <4>2. r = 0 /\ Carries(q, Head(q))
        BY <1>5, <4>1, QueueHead, Zenon
      <4> QED  BY <4>1, <4>2, Zenon
    <3> QED  BY <1>5, <3>1
  <2>5. Dir(s, a, w, p, r)'
    BY <1>1, <1>2, <1>3, <1>4, <1>6, <2>1, <2>3, <2>4, DirKept, Zenon
  <2>6. DirInv'
    BY <1>1, <1>4, <1>7, <2>1, <2>3, <2>5, OtherKept, Zenon
  <2>7. CopierInv'
    BY <1>1, <1>4, <2>2, <2>3, CopierStep
  <2>8. TypeOK'
    BY <1>1, <2>1, <2>3 DEF IInv, TypeOK, ProxyTypeOK
  <2>9. faults = {} /\ kind # "plain" => Healthy'
    <3>1. ASSUME faults = {}, kind # "plain"
          PROVE  Healthy'
      <4>1. Healthy /\ \A y \in Sides : peer[y] # "reset"
        BY <3>1, HealthyNow, Zenon
      <4>2. conn[x] # "closed"
        BY <1>4, <4>1 DEF Healthy
      <4>3. e # "err"
        <5>1. ASSUME q # <<>>, Head(q) = RST
              PROVE  FALSE
          <6>0. Head(q) \in {FIN, RST}
            BY <5>1
          <6>1. Carries(q, Head(q))
            BY <1>5, <5>1, <6>0, QueueHead, Zenon
          <6> QED  BY <1>4, <1>5, <4>1, <5>1, <6>1
        <5> QED  BY <2>2, <4>2, <5>1
      <4> QED  BY <1>1, <2>3, <4>1, <4>3 DEF Healthy, Only
    <3> QED  BY <3>1
  <2> QED  BY <1>1, <2>6, <2>7, <2>8, <2>9, RelayStep DEF IInv, SocketInv, ResultInv, HandlerInv
<1>9. CASE conn[x] # "closed" /\ q # <<>> /\ IsByte(Head(q))
  <2>1. /\ rx' = [rx EXCEPT ![x] = Tail(@)] /\ buf' = [buf EXCEPT ![s] = <<Head(q)>>]
        /\ UNCHANGED rerr \/ (Len(q) > 1 /\ q[2] = FIN /\ rerr' = [rerr EXCEPT ![s] = "EOF"])
    BY <1>2, <1>9, MarkItems DEF Read
  <2>2. Tail(q) \in Seq(Items) /\ Head(q) = p + 1 /\ p + 1 \in Nat
    <3>1. Head(q) = p + 1
      BY <1>5, <1>9, QueueHead, Zenon
    <3>2. Tail(q) \in Seq(Items)
      BY <1>4, <1>9
    <3> QED  BY <3>1, <3>2
  <2>3. <<Head(q)>> \in Seq(Nat) /\ <<Head(q)>> # <<>>
    BY <2>2
  <2>4. /\ rx' \in [Sides -> Seq(Items)] /\ rx'[x] = Tail(q) /\ rx'[Out(s)] = rx[Out(s)]
        /\ buf' \in [Copiers -> Seq(Nat)] /\ buf'[s] = <<Head(q)>>
    BY <1>2, <1>4, <2>1, <2>2, <2>3, Typed
  <2>5. /\ rerr'[s] = "nil" \/ (Len(q) > 1 /\ q[2] = FIN /\ rerr'[s] = "EOF")
        /\ pc'[s] = "write" /\ Only(s) /\ rerr' \in [Copiers -> {"nil", "EOF", "err"}]
        /\ pc' \in [Copiers -> {"read", "write", "readErr", "signal", "done"}]
    BY <1>1, <1>4, <2>1, <2>3, <2>4, Typed, Zenon DEF Only
  <2>6. r > 0 /\ Dir(s, a, w, p + 1, r - 1)'
    BY <1>1, <1>2, <1>3, <1>4, <1>9, <2>4, <2>5, DirRead, Zenon
  <2>7. DirInv'
    <3>1. p + 1 \in Nat /\ r - 1 \in Nat
      BY <2>6
    <3> QED  BY <1>1, <1>4, <1>7, <2>4, <2>5, <2>6, <3>1, OtherKept, Zenon
  <2>8. CopierInv'
    BY <1>1, <1>4, <2>3, <2>4, <2>5, CopierStep, Zenon
  <2>9. TypeOK'
    BY <1>1, <2>4, <2>5 DEF IInv, TypeOK, ProxyTypeOK
  <2>10. faults = {} /\ kind # "plain" => Healthy'
    <3>1. rerr'[s] # "err"
      BY <2>5
    <3> QED  BY <1>1, <1>4, <2>5, <3>1, HealthyMove, Zenon
  <2> QED  BY <1>1, <2>7, <2>8, <2>9, <2>10, RelayStep DEF IInv, SocketInv, ResultInv, HandlerInv
<1> QED  BY <1>2, <1>8, <1>9 DEF Read

\* ReadTimeout preserves the invariant.
LEMMA ReadTimeoutIInv ==
  ASSUME IInv, hpc = "relay", NEW s \in Copiers, ReadTimeout(s), UNCHANGED hVars, UNCHANGED fixedVars
  PROVE  IInv'
<1>1. /\ UNCHANGED <<peer, sent, rx, tx, conn, buf, err, got, ret>> /\ pc[s] = "read"
      /\ UNCHANGED <<kind, faults, eager, framed, hlen, hpc, skip, resp>>
      /\ pc' = [pc EXCEPT ![s] = "readErr"]
  BY DEF ReadTimeout, netVars, hVars, fixedVars, kindVars
<1>2. PICK e \in Timeouts(s) : rerr' = [rerr EXCEPT ![s] = e]
  BY Zenon DEF ReadTimeout
<1>3. e \in {"err", "EOF"} /\ faults # {} /\ (e = "EOF" => "quic" \in faults)
  BY DEF Timeouts
<1>4. PICK a : a = Base(s)
  OBVIOUS
<1>5. PICK w, p, r \in Nat : Dir(s, a, w, p, r)
  BY <1>4 DEF IInv, DirInv
<1>6. /\ a \in Nat /\ Base(s)' = a /\ In(s) \in Sides /\ Out(s) \in Sides
      /\ buf[s] = <<>> /\ err[s] = "nil" /\ s \notin got
  BY <1>1, <1>4, Typed, SideOf, RunningStep DEF Base, IInv, CopierInv
<1>7. PICK m \in Closings : tx'[Out(s)] = tx[Out(s)] \o m
  BY <1>1, <1>6, Typed, SameTx, Zenon
<1>8. \E n \in Closings : tx'[In(s)] = tx[In(s)] \o n
  BY <1>1, <1>6, Typed, SameTx, Zenon
<1>9. /\ rerr'[s] = e /\ pc'[s] = "readErr" /\ Only(s)
      /\ rerr' \in [Copiers -> {"nil", "EOF", "err"}]
      /\ pc' \in [Copiers -> {"read", "write", "readErr", "signal", "done"}]
  BY <1>1, <1>2, <1>3, Typed DEF Only
<1>10. Dir(s, a, w, p, r)'
  BY <1>1, <1>3, <1>5, <1>6, <1>7, <1>9, DirKept, Zenon
<1>11. DirInv'
  BY <1>1, <1>6, <1>8, <1>9, <1>10, OtherKept, Zenon
<1>12. CopierInv'
  BY <1>1, <1>3, <1>6, <1>9, CopierStep
<1>13. TypeOK'
  BY <1>1, <1>9 DEF IInv, TypeOK, ProxyTypeOK
<1> QED  BY <1>1, <1>3, <1>11, <1>12, <1>13, RelayStep DEF IInv, SocketInv, ResultInv, HandlerInv

\* Write preserves the invariant.
LEMMA WriteIInv ==
  ASSUME IInv, hpc = "relay", NEW s \in Copiers, Write(s), UNCHANGED hVars, UNCHANGED fixedVars
  PROVE  IInv'
<1>1. /\ UNCHANGED <<peer, sent, rx, conn, rerr, err, got, ret>> /\ pc[s] = "write" /\ conn[Out(s)] = "open"
      /\ UNCHANGED <<kind, faults, eager, framed, hlen, hpc, skip, resp>>
      /\ pc' = [pc EXCEPT ![s] = IF rerr[s] = "nil" THEN "read" ELSE "readErr"]
      /\ tx' = [tx EXCEPT ![Out(s)] = @ \o buf[s]] /\ buf' = [buf EXCEPT ![s] = <<>>]
  BY DEF Write, hVars, fixedVars, kindVars
<1>2. PICK a : a = Base(s)
  OBVIOUS
<1>3. PICK w, p, r \in Nat : Dir(s, a, w, p, r)
  BY <1>2 DEF IInv, DirInv
<1>4. /\ a \in Nat /\ Base(s)' = a /\ In(s) \in Sides /\ Out(s) \in Sides /\ Out(s) # In(s)
      /\ sent[In(s)] \in Nat /\ buf[s] # <<>> /\ rerr[s] # "err" /\ err[s] = "nil" /\ s \notin got
      /\ Sides = {In(s), Out(s)}
  BY <1>1, <1>2, Typed, SideOf, RunningStep DEF Base, IInv, CopierInv
<1>5. ~Carries(tx[Out(s)], FIN) /\ ~Carries(tx[Out(s)], RST)
  BY <1>1, <1>4, Zenon DEF IInv, SocketInv
<1>6. PICK c : c = tx[Out(s)] \o buf[s]
  BY Zenon
<1>7. /\ buf'[s] = <<>> /\ tx'[Out(s)] = c /\ tx'[In(s)] = tx[In(s)] /\ Only(s)
      /\ pc'[s] = (IF rerr[s] = "nil" THEN "read" ELSE "readErr")
  BY <1>1, <1>4, <1>6, Typed DEF Only
<1>8. /\ Dir(s, a, w + 1, p, r)' /\ a + w + 1 <= sent[In(s)]
      /\ ~Carries(tx'[Out(s)], FIN) /\ ~Carries(tx'[Out(s)], RST)
  BY <1>1, <1>3, <1>4, <1>5, <1>6, <1>7, DirWrite, Zenon
<1>9. \E n \in Closings : tx'[In(s)] = tx[In(s)] \o n
  <2>1. <<>> \in Closings /\ tx[In(s)] \in Seq(Items)
    BY <1>4, Typed DEF Closings
  <2> QED  BY <1>7, <2>1, Joins
<1>10. DirInv'
  <2>1. w + 1 \in Nat
    OBVIOUS
  <2> QED  BY <1>1, <1>4, <1>7, <1>8, <1>9, <2>1, OtherKept, Zenon
<1>11. CopierInv'
  <2>1. pc'[s] \in {"read", "readErr"} /\ (pc'[s] = "read" <=> rerr[s] = "nil")
    BY <1>7
  <2> QED  BY <1>1, <1>4, <1>7, <2>1, CopierStep, Zenon
<1>12. TypeOK'
  <2>1. c \in Seq(Items)
    BY <1>7, <1>8 DEF Dir, Queue
  <2>2. <<>> \in Seq(Nat)
    OBVIOUS
  <2>3. /\ tx' \in [Sides -> Seq(Items)] /\ buf' \in [Copiers -> Seq(Nat)]
        /\ pc' \in [Copiers -> {"read", "write", "readErr", "signal", "done"}]
    BY <1>1, <1>6, <2>1, <2>2, Typed, Zenon
  <2> QED  BY <1>1, <2>3 DEF IInv, TypeOK, ProxyTypeOK
<1>13. SocketInv'
  BY <1>1, <1>4, <1>7, <1>8 DEF IInv, SocketInv
<1>14. faults = {} /\ kind # "plain" => Healthy'
  BY <1>1, <1>7, HealthyMove, Zenon
<1> QED  BY <1>1, <1>10, <1>11, <1>12, <1>13, <1>14, RelayStep DEF IInv, ResultInv, HandlerInv

\* The ends of a Copy: WriteErr and ReadErr.
LEMMA CopyEndIInv ==
  ASSUME IInv, hpc = "relay", NEW s \in Copiers, WriteErr(s) \/ ReadErr(s),
         UNCHANGED hVars, UNCHANGED fixedVars
  PROVE  IInv'
<1>1. /\ UNCHANGED <<peer, sent, rx, rerr, got, ret>> /\ pc[s] \in {"write", "readErr"}
      /\ UNCHANGED <<kind, faults, eager, framed, hlen, hpc, skip, resp>>
      /\ pc' = [pc EXCEPT ![s] = "signal"]
  BY DEF WriteErr, ReadErr, hVars, fixedVars, kindVars
<1>2. /\ err[s] = "nil" /\ s \notin got /\ ret = "none" /\ In(s) \in Sides /\ Out(s) \in Sides
      /\ (pc[s] = "readErr" => buf[s] = <<>>) /\ Sides = {In(s), Out(s)} /\ In(s) # Out(s)
  BY <1>1, SideOf, RunningStep DEF IInv, CopierInv
<1>3. CloseStep
  <2>1. CASE rstWriter(s)
    BY <2>1, Typed, CloseAllStep DEF rstWriter
  <2>2. CASE closeWriter(Out(s))
    BY <1>2, <2>2, Typed, CloseWriterStep
  <2>3. CASE UNCHANGED <<conn, tx>>
    BY <2>3, Typed, SameStep
  <2> QED  BY <2>1, <2>2, <2>3 DEF WriteErr, ReadErr
<1>4. PICK e : /\ err' = [err EXCEPT ![s] = e] /\ e \in {"nil", "in", "out"}
               /\ e = "nil" => ReadErr(s) /\ rerr[s] = "EOF"
               /\ WriteErr(s) => e = "out"
  <2>1. CASE WriteErr(s)
    BY <2>1, <1>1, <1>2, Zenon DEF WriteErr, ReadErr
  <2>2. CASE ReadErr(s) /\ rerr[s] = "EOF"
    <3>1. err' = err /\ ~WriteErr(s)
      BY <2>2 DEF WriteErr, ReadErr
    <3>2. err = [err EXCEPT ![s] = "nil"]
      BY <1>2, Typed
    <3> QED  BY <2>2, <3>1, <3>2
  <2>3. CASE ReadErr(s) /\ rerr[s] # "EOF"
    <3>1. ~WriteErr(s)
      BY <2>3 DEF WriteErr, ReadErr
    <3> QED  BY <2>3, <3>1 DEF ReadErr
  <2> QED  BY <2>1, <2>2, <2>3
<1>5. /\ buf' = [buf EXCEPT ![s] = <<>>] /\ (ReadErr(s) => buf' = buf)
  <2>1. CASE WriteErr(s)
    BY <2>1 DEF WriteErr, ReadErr
  <2>2. CASE ReadErr(s)
    BY <1>2, <2>2, Typed DEF ReadErr
  <2> QED  BY <2>1, <2>2
<1>6. /\ buf'[s] = <<>> /\ pc'[s] = "signal" /\ err'[s] = e /\ Only(s)
      /\ (buf'[s] = buf[s] \/ e = "out")
  BY <1>1, <1>4, <1>5, Typed DEF Only
<1>7. DirInv'
  <2>1. PICK a : a = Base(s)
    OBVIOUS
  <2>2. PICK w, p, r \in Nat : Dir(s, a, w, p, r)
    BY <2>1 DEF IInv, DirInv
  <2>3. a \in Nat /\ Base(s)' = a
    BY <1>1, <2>1, Typed DEF Base
  <2>4. PICK m \in Closings : tx'[Out(s)] = tx[Out(s)] \o m
    BY <1>2, <1>3, Zenon DEF CloseStep
  <2>5. \E n \in Closings : tx'[In(s)] = tx[In(s)] \o n
    BY <1>2, <1>3, Zenon DEF CloseStep
  <2>6. rerr[s] = "EOF" /\ "quic" \notin faults => peer[In(s)] # "open" /\ p = sent[In(s)]
    BY <2>2 DEF Dir
  <2>7. Dir(s, a, w, p, r)'
    BY <1>1, <1>2, <1>6, <2>2, <2>3, <2>4, <2>6, DirKept, Zenon
  <2> QED  BY <1>1, <1>6, <2>3, <2>5, <2>7, OtherKept, Zenon
<1>8. CopierInv'
  BY <1>1, <1>2, <1>4, <1>6, CopierStep
<1>9. TypeOK'
  <2>1. <<>> \in Seq(Nat)
    OBVIOUS
  <2>2. /\ tx' \in [Sides -> Seq(Items)] /\ buf' \in [Copiers -> Seq(Nat)] /\ conn' \in [Sides -> Conns]
        /\ pc' \in [Copiers -> {"read", "write", "readErr", "signal", "done"}]
        /\ err' \in [Copiers -> {"nil", "in", "out"}]
    BY <1>1, <1>3, <1>4, <1>5, <2>1, Typed DEF CloseStep
  <2> QED  BY <1>1, <2>2 DEF IInv, TypeOK, ProxyTypeOK, Conns
<1>10. SocketInv'
  BY <1>3, SocketKept DEF IInv
<1>11. faults = {} /\ kind # "plain" => Healthy'
  <2>1. ASSUME faults = {}, kind # "plain"
        PROVE  Healthy'
    <3>1. Healthy /\ \A y \in Sides : peer[y] # "reset"
      BY <2>1, HealthyNow, Zenon
    <3>2. conn[Out(s)] = "open" /\ rerr[s] # "err"
      BY <1>1, <3>1 DEF Healthy
    <3>3. ReadErr(s) /\ rerr[s] = "EOF"
      BY <1>2, <2>1, <3>1, <3>2 DEF WriteErr, ReadErr
    <3>4. err' = err /\ (closeWriter(Out(s)) \/ conn' = conn)
      BY <3>3 DEF ReadErr
    <3>5. conn'[In(s)] = conn[In(s)] /\ conn'[Out(s)] \in {"open", "wclosed"}
      BY <1>2, <2>1, <3>2, <3>4, Typed DEF closeWriter, HalfCloses
    <3>6. \A t \in Copiers : t # s => Out(t) = In(s)
      BY SideOf
    <3> QED  BY <1>1, <1>2, <1>6, <3>1, <3>4, <3>5, <3>6 DEF Healthy, Only
  <2> QED  BY <2>1
<1>12. conn'["out"] # "none"
  BY <1>3 DEF CloseStep, Sides, IInv, HandlerInv
<1>13. ResultInv'
  BY <1>1, <1>2 DEF ResultInv
<1> QED  BY <1>1, <1>7, <1>8, <1>9, <1>10, <1>11, <1>12, <1>13, RelayStep

\* Collect preserves the invariant.
LEMMA CollectIInv ==
  ASSUME IInv, hpc = "relay", NEW s \in Copiers, Collect(s), UNCHANGED hVars, UNCHANGED fixedVars
  PROVE  IInv'
<1>1. /\ UNCHANGED <<peer, sent, rx, buf, rerr, err, ret>> /\ pc[s] = "signal"
      /\ UNCHANGED <<kind, faults, eager, framed, hlen, hpc, skip, resp>>
      /\ pc' = [pc EXCEPT ![s] = "done"] /\ got' = got \cup {s}
      /\ (err[s] = "nil" => UNCHANGED <<conn, tx>>)
  BY DEF Collect, hVars, fixedVars, kindVars
<1>2. CloseStep
  <2>1. CASE UNCHANGED <<conn, tx>>
    BY <2>1, Typed, SameStep
  <2>2. CASE CloseAll({In(Other(s)), Out(Other(s))})
    BY <2>2, Typed, CloseAllStep
  <2> QED  BY <2>1, <2>2 DEF Collect
<1>3. ret = "none"
  BY <1>1, RunningStep
<1>4. DirInv'
  BY <1>1, <1>2, Typed, DirsKept, Zenon DEF IInv, CloseStep
<1>5. /\ pc'[s] = "done" /\ Only(s)
      /\ pc' \in [Copiers -> {"read", "write", "readErr", "signal", "done"}]
  BY <1>1, Typed DEF Only
<1>6. CopierInv'
  <2>1. buf[s] = <<>> /\ (err[s] = "nil" => rerr[s] = "EOF")
    BY <1>1 DEF IInv, CopierInv
  <2> QED  BY <1>1, <1>5, <2>1, CopierStep
<1>7. TypeOK'
  <2>1. got' \subseteq Copiers
    BY <1>1, Typed
  <2> QED  BY <1>1, <1>2, <1>5, <2>1 DEF IInv, TypeOK, ProxyTypeOK, CloseStep, Conns
<1>8. SocketInv'
  BY <1>2, SocketKept DEF IInv
<1>9. faults = {} /\ kind # "plain" => Healthy'
  <2>1. "done" \notin {"read", "write", "readErr"}
    OBVIOUS
  <2> QED  BY <1>1, <1>5, <2>1, HealthyMove, Zenon
<1>10. conn'["out"] # "none"
  BY <1>2 DEF CloseStep, Sides, IInv, HandlerInv
<1>11. ResultInv'
  BY <1>1, <1>3 DEF ResultInv
<1> QED  BY <1>1, <1>4, <1>6, <1>7, <1>8, <1>9, <1>10, <1>11, RelayStep

\* Finish preserves the invariant.
LEMMA FinishIInv ==
  ASSUME IInv, hpc = "relay", Finish, UNCHANGED hVars, UNCHANGED fixedVars
  PROVE  IInv'
<1>1. /\ UNCHANGED <<peer, sent, rx, pc, buf, rerr, err, got>> /\ got = Copiers
      /\ UNCHANGED <<kind, faults, eager, framed, hlen, hpc, skip, resp>>
      /\ ret' \in {"nil", "err"} /\ (ret' = "nil" => \A s \in Copiers : err[s] = "nil")
  BY DEF Finish, copyVars, hVars, fixedVars, kindVars
<1>2. CloseStep
  BY Typed, CloseAllStep DEF Finish
<1>3. DirInv'
  BY <1>1, <1>2, Typed, DirsKept, Zenon DEF IInv, CloseStep
<1>4. CopierInv' /\ ResultInv'
  BY <1>1 DEF IInv, CopierInv, ResultInv
<1>5. TypeOK'
  BY <1>1, <1>2 DEF IInv, TypeOK, ProxyTypeOK, CloseStep, Conns
<1>6. SocketInv'
  BY <1>2, SocketKept DEF IInv
<1>7. faults = {} /\ kind # "plain" => Healthy'
  <2>1. \A s \in Copiers : pc[s] = "done" /\ ret' # "none"
    BY <1>1 DEF IInv, CopierInv
  <2>2. \A s \in Copiers : pc'[s] \notin {"read", "write", "readErr"}
    BY <1>1, <2>1
  <2>3. faults = {} /\ kind # "plain" => \A s \in Copiers : err[s] = "nil" /\ rerr[s] # "err"
    BY HealthyNow, Zenon DEF Healthy
  <2> QED  BY <1>1, <2>1, <2>2, <2>3 DEF Healthy
<1>8. conn'["out"] # "none"
  BY <1>2 DEF CloseStep, Sides, IInv, HandlerInv
<1> QED  BY <1>1, <1>3, <1>4, <1>5, <1>6, <1>7, <1>8, RelayStep

\* The invariant holds at first.
LEMMA InitIInv == TunnelInit => IInv
<1> SUFFICES ASSUME TunnelInit
             PROVE  IInv
  OBVIOUS
<1>1. /\ kind \in Kinds /\ faults \in FaultSets /\ ("quic" \in faults => kind = "quic")
      /\ peer = [x \in Sides |-> "open"] /\ sent = [x \in Sides |-> 0]
      /\ rx = [x \in Sides |-> <<>>] /\ tx = [x \in Sides |-> <<>>]
      /\ conn = [x \in Sides |-> IF x = "out" /\ kind \notin {"tcp", "plain"} THEN "none" ELSE "open"]
      /\ pc = [s \in Copiers |-> "read"] /\ buf = [s \in Copiers |-> <<>>]
      /\ rerr = [s \in Copiers |-> "nil"] /\ err = [s \in Copiers |-> "nil"] /\ got = {} /\ ret = "none"
  BY DEF TunnelInit, Init
<1>2. /\ eager \in BOOLEAN /\ (eager => kind = "connect") /\ framed \in BOOLEAN
      /\ hlen \in HLens \cup {0} /\ skip = 0 /\ resp = "none"
  BY DEF TunnelInit
<1>3. hpc = IF IsConnect THEN "hijack" ELSE IF kind = "quic" THEN "prefix"
            ELSE IF kind = "sni" THEN "sniff" ELSE "relay"
  BY DEF TunnelInit, IsConnect
<1>4. hlen \in Nat
  BY <1>2, TunnelAssumption
<1>5. <<>> \in Seq(Items) /\ <<>> \in Seq(Nat)
  OBVIOUS
<1>6. TypeOK
  BY <1>1, <1>2, <1>3, <1>4, <1>5 DEF TypeOK, ProxyTypeOK
<1>7. DirInv
  <2>1. ASSUME NEW s \in Copiers
        PROVE  Dir(s, Base(s), 0, 0, 0)
    <3>1. In(s) \in Sides /\ Out(s) \in Sides /\ Base(s) = 0 /\ 0 \in Nat
      BY <1>2, SideOf DEF Base
    <3>2. /\ tx[Out(s)] = <<>> /\ rx[In(s)] = <<>> /\ buf[s] = <<>> /\ err[s] = "nil" /\ rerr[s] = "nil"
          /\ sent[In(s)] = 0 /\ peer[In(s)] = "open" /\ Len(buf[s]) = 0
      BY <1>1, <3>1
    <3> QED  BY <3>1, <3>2, QueueEmpty DEF Dir
  <2>2. 0 \in Nat
    OBVIOUS
  <2> QED  BY <2>1, <2>2 DEF DirInv
<1>8. SocketInv
  BY <1>1, QueueEmpty DEF SocketInv, Carries
<1>9. CopierInv /\ ResultInv
  BY <1>1 DEF CopierInv, ResultInv
<1>10. HandlerInv
  BY <1>1, <1>2, <1>3 DEF HandlerInv, IsConnect, Sides, HasDest, Kinds
<1>11. HealthyInv
  BY <1>1, <1>3 DEF HealthyInv, Healthy, IsConnect, Kinds, Sides, Out
<1> QED  BY <1>6, <1>7, <1>8, <1>9, <1>10, <1>11 DEF IInv

\* Every step preserves the invariant.
LEMMA NextIInv == IInv /\ [TunnelNext]_allVars => IInv'
<1> SUFFICES ASSUME IInv, [TunnelNext]_allVars
             PROVE  IInv'
  OBVIOUS
<1>1. CASE UNCHANGED allVars
  <2>1. /\ UNCHANGED <<kind, faults, eager, framed, hlen, hpc, skip, resp, peer, sent, rx, tx, conn>>
        /\ UNCHANGED <<pc, buf, rerr, err, got, ret>>
    BY <1>1 DEF allVars, tunVars, fixedVars, hVars, sysVars, netVars, copyVars, kindVars
  <2>2. DirInv' /\ TypeOK' /\ SocketInv'
    BY <2>1, Typed, SameTx, DirsKept, Zenon DEF IInv, TypeOK, ProxyTypeOK, SocketInv
  <2>3. CopierInv' /\ ResultInv' /\ HandlerInv' /\ HealthyInv'
    BY <2>1 DEF IInv, CopierInv, ResultInv, HandlerInv, HealthyInv, Healthy, HasDest, IsConnect
  <2> QED  BY <2>2, <2>3 DEF IInv
<1>2. CASE TunnelNext
  <2>1. CASE Peers /\ UNCHANGED hVars
    BY <1>2, <2>1, PeersIInv DEF TunnelNext
  <2>2. CASE Handler
    BY <1>2, <2>2, AnswerIInv, TakeIInv, DialIInv DEF Handler, TunnelNext
  <2>3. CASE hpc = "relay" /\ Relay /\ UNCHANGED hVars
    BY <1>2, <2>3, ReadIInv, ReadTimeoutIInv, WriteIInv, CopyEndIInv, CollectIInv, FinishIInv
       DEF Relay, Copy, TunnelNext
  <2> QED  BY <1>2, <2>1, <2>2, <2>3 DEF TunnelNext
<1> QED  BY <1>1, <1>2

\* The inductive invariant: where every byte of both streams is, what the sockets have
\* sent, what each copier holds, what Proxy has collected and how far the handler is.
THEOREM TunnelInvariance == TunnelSpec => []IInv
  BY InitIInv, NextIInv, PTL DEF TunnelSpec

\* Type correctness of the handlers, of Proxy and of its copiers, for any number of bytes,
\* any lengths of QUIC headers and any sets of faults.
THEOREM TunnelTypes == TunnelSpec => []TypeOK
<1>1. IInv => TypeOK
  BY DEF IInv
<1> QED  BY <1>1, TunnelInvariance, PTL

\* Proxy's nil: with no QUIC idle timeout, a nil from Proxy means that both peers have
\* ended and every byte of both streams that was not the handler's was relayed, whoever
\* called it and whatever was reset, timed out or cut short elsewhere.
THEOREM NilIsComplete == TunnelSpec => []NilMeansComplete
<1>1. ASSUME IInv
      PROVE  NilMeansComplete
  <2> SUFFICES ASSUME ret = "nil", "quic" \notin faults
               PROVE  /\ \A x \in Sides : peer[x] # "open"
                      /\ Len(Data(tx["out"])) = sent["in"] - Lead
                      /\ Len(Data(tx["in"])) = sent["out"]
    BY DEF NilMeansComplete
  <2>1. \A s \in Copiers : err[s] = "nil" /\ pc[s] = "done" /\ rerr[s] = "EOF" /\ buf[s] = <<>>
    BY <1>1 DEF IInv, ResultInv, CopierInv
  <2>2. ASSUME NEW s \in Copiers
        PROVE  peer[In(s)] # "open" /\ Len(Data(tx[Out(s)])) = sent[In(s)] - Base(s)
    <3>1. PICK a : a = Base(s)
      OBVIOUS
    <3>2. PICK w, p, r \in Nat : Dir(s, a, w, p, r)
      BY <1>1, <3>1 DEF IInv, DirInv
    <3>3. a \in Nat
      BY <1>1, <3>1, Typed DEF Base
    <3>4. /\ Queue(tx[Out(s)], a, w) /\ p = a + w + Len(buf[s]) /\ peer[In(s)] # "open" /\ p = sent[In(s)]
          /\ Len(buf[s]) = 0
      BY <2>1, <3>2, <3>3, DirTypes, Zenon DEF Dir
    <3>5. Len(Data(tx[Out(s)])) = w
      BY <3>3, <3>4, QueueData
    <3> QED  BY <3>1, <3>3, <3>4, <3>5
  <2>3. "s1" \in Copiers /\ In("s1") = "in" /\ Out("s1") = "out" /\ Base("s1") = skip
        /\ "s2" \in Copiers /\ In("s2") = "out" /\ Out("s2") = "in" /\ Base("s2") = 0
    BY DEF Copiers, In, Out, Base
  <2>4. hpc = "relay"
    BY <1>1, <2>1, <2>3 DEF IInv, HandlerInv
  <2>5. Lead = skip
    BY <1>1, <2>4 DEF IInv, HandlerInv, HasDest, Lead
  <2>6. sent["out"] \in Nat
    BY <1>1, Typed DEF Sides
  <2>7. peer["in"] # "open" /\ Len(Data(tx["out"])) = sent["in"] - skip
    BY <2>2, <2>3
  <2>8. peer["out"] # "open" /\ Len(Data(tx["in"])) = sent["out"] - 0
    BY <2>2, <2>3
  <2> QED  BY <2>5, <2>6, <2>7, <2>8 DEF Sides
<1> QED  BY <1>1, TunnelInvariance, PTL

-----------------------------------------------------------------------------
(* Each direction of a tunnel is a byte stream.                            *)

\* The states of a byte stream: n bytes were sent, q was received, f and e are its end at
\* the writer and at the reader.
Sound(n, q, f, e) ==
  /\ n \in Nat /\ f \in BOOLEAN /\ e \in BOOLEAN
  /\ Len(q) \in 0..n /\ q = Run(0, Len(q))
  /\ e => f /\ Len(q) = n

\* A run of bytes is a shorter one and the bytes that follow it.
LEMMA RunJoin ==
  ASSUME NEW w \in Nat, NEW v \in Nat, w <= v
  PROVE  Run(0, v) = Run(0, w) \o Run(w, v - w)
<1>1. PICK k : k = v - w
  OBVIOUS
<1>2. k \in Nat /\ w + k = v
  BY <1>1
<1>3. PICK q, m : q = Run(0, w) /\ m = Run(w, k)
  OBVIOUS
<1>4. /\ q \in Seq(Nat) /\ Len(q) = w /\ (\A i \in 1..w : q[i] = i)
      /\ m \in Seq(Nat) /\ Len(m) = k /\ (\A i \in 1..k : m[i] = w + i)
  BY <1>2, <1>3 DEF Run
<1>5. q \o m \in Seq(Nat) /\ Len(q \o m) = Len(q) + Len(m)
  BY <1>4
<1>6. \A i \in 1..Len(q \o m) : (q \o m)[i] = IF i <= Len(q) THEN q[i] ELSE m[i - Len(q)]
  BY <1>4
<1>7. PICK j : j = q \o m
  BY Zenon
<1>8. j \in Seq(Nat) /\ Len(j) = v /\ \A i \in 1..v : j[i] = i
  <2>1. \A i \in 1..v : (i <= w => i \in 1..w) /\ (~(i <= w) => i - w \in 1..k /\ w + (i - w) = i)
    BY ONLY <1>2, w \in Nat
  <2>2. j \in Seq(Nat) /\ Len(j) = v
    BY <1>2, <1>4, <1>5, <1>7, Zenon
  <2>3. \A i \in 1..v : j[i] = IF i <= w THEN q[i] ELSE m[i - w]
    BY <1>4, <1>6, <1>7, <2>2, Zenon
  <2>4. ASSUME NEW i \in 1..v
        PROVE  j[i] = i
    <3>1. CASE i <= w
      BY <1>4, <2>1, <2>3, <3>1, Zenon
    <3>2. CASE ~(i <= w)
      BY <1>4, <2>1, <2>3, <3>2, Zenon
    <3> QED  BY <3>1, <3>2
  <2> QED  BY <2>2, <2>4
<1>9. j = [i \in 1..v |-> 0 + i]
  BY ONLY <1>8, v \in Nat
<1> QED  BY <1>1, <1>3, <1>7, <1>9, Zenon DEF Run

\* Two states of a stream between which only the reader has got more.
LEMMA Delivery ==
  ASSUME NEW n, NEW f, NEW q, NEW e, Sound(n, q, f, e), NEW q2, NEW e2, Sound(n, q2, f, e2),
         Len(q) <= Len(q2)
  PROVE  /\ \E k \in 0..(n - Len(q)) : q2 = q \o [i \in 1..k |-> Len(q) + i]
         /\ e2 \in {FALSE, e, f /\ Len(q2) = n}
<1>1. PICK w, v : w = Len(q) /\ v = Len(q2)
  BY Zenon
<1>2. /\ n \in Nat /\ w \in Nat /\ v \in Nat /\ w <= v /\ v <= n /\ q = Run(0, w) /\ q2 = Run(0, v)
      /\ e2 \in BOOLEAN /\ (e2 => f /\ v = n)
  BY <1>1 DEF Sound
<1>3. q2 = q \o Run(w, v - w)
  BY <1>2, RunJoin, Zenon
<1>a. v - w \in 0..(n - w)
  BY ONLY <1>2
<1>4. \E k \in 0..(n - Len(q)) : q2 = q \o [i \in 1..k |-> Len(q) + i]
  BY <1>1, <1>3, <1>a, Zenon DEF Run
<1>5. e2 \in {FALSE, e, f /\ Len(q2) = n}
  BY <1>1, <1>2, Zenon
<1> QED  BY <1>4, <1>5, Zenon

OutOK == Sound(OutSent, OutRcvd, OutFin, OutEof)
InOK  == Sound(InSent, InRcvd, InFin, InEof)

\* More bytes at the destination, and nothing else: a Deliver of the stream to it.
LEMMA OutDelivers ==
  ASSUME OutOK, OutOK', OutSent' = OutSent, OutFin' = OutFin, Len(OutRcvd) <= Len(OutRcvd')
  PROVE  Outbound!Next
<1>1. /\ \E k \in 0..(OutSent - Len(OutRcvd)) : OutRcvd' = OutRcvd \o [i \in 1..k |-> Len(OutRcvd) + i]
      /\ OutEof' \in {FALSE, OutEof, OutFin /\ Len(OutRcvd') = OutSent}
  BY Delivery, Zenon DEF OutOK
<1> QED  BY <1>1, Zenon DEF Outbound!Next, Outbound!Deliver, Outbound!Bytes

\* The same of the stream back.
LEMMA InDelivers ==
  ASSUME InOK, InOK', InSent' = InSent, InFin' = InFin, Len(InRcvd) <= Len(InRcvd')
  PROVE  Inbound!Next
<1>1. /\ \E k \in 0..(InSent - Len(InRcvd)) : InRcvd' = InRcvd \o [i \in 1..k |-> Len(InRcvd) + i]
      /\ InEof' \in {FALSE, InEof, InFin /\ Len(InRcvd') = InSent}
  BY Delivery, Zenon DEF InOK
<1> QED  BY <1>1, Zenon DEF Inbound!Next, Inbound!Deliver, Inbound!Bytes

\* A queue that is added to keeps its bytes.
LEMMA DataGrows ==
  ASSUME NEW q, NEW a \in Nat, NEW w, Queue(q, a, w), NEW m \in Seq(Items), NEW v, Queue(q \o m, a, v)
  PROVE  Len(Data(q)) <= Len(Data(q \o m))
<1>1. /\ q \in Seq(Items) /\ w \in Nat /\ Len(q) \in Nat /\ w <= Len(q)
      /\ \A i \in 1..w : IsByte(q[i]) /\ q[i] # FIN /\ q[i] # RST
  BY QueueTypes
<1>2. PICK j : j = q \o m
  BY Zenon
<1>3. /\ v \in Nat /\ Len(j) \in Nat /\ v <= Len(j)
      /\ \A i \in 1..Len(j) : ~(i <= v) => j[i] \in {FIN, RST}
  BY <1>2, QueueTypes, Zenon
<1>4. Len(q) <= Len(j) /\ \A i \in 1..Len(q) : j[i] = q[i]
  BY <1>1, <1>2
<1>5. w <= v
  <2> SUFFICES ASSUME v < w
               PROVE  FALSE
    BY <1>1, <1>3
  <2>1. w \in 1..w /\ w \in 1..Len(q) /\ w \in 1..Len(j) /\ ~(w <= v)
    BY <1>1, <1>3, <1>4
  <2> QED  BY <1>1, <1>3, <1>4, <2>1, Zenon
<1> QED  BY <1>2, <1>5, QueueData

\* Once a handler has its destination, it has read its own bytes and no more.
LEMMA LeadIs ==
  ASSUME IInv, Begun
  PROVE  Lead = skip /\ skip \in Nat
<1>1. kind = "quic" => skip = 1 + hlen
  BY DEF Begun, HasDest
<1>2. HandlerInv /\ skip \in Nat
  BY Typed, Zenon DEF IInv
<1> QED  BY <1>1, <1>2 DEF HandlerInv, Lead

\* Between healthy peers a FIN is sent only behind all the bytes of a peer that has ended.
LEMMA EndComplete ==
  ASSUME IInv, faults = {}, kind # "plain", hpc = "relay", NEW s \in Copiers, Carries(tx[Out(s)], FIN),
         NEW w \in Nat, NEW p \in Nat, NEW r \in Nat, Dir(s, Base(s), w, p, r)
  PROVE  peer[In(s)] # "open" /\ Base(s) + w = sent[In(s)]
<1>1. Healthy /\ Out(s) \in Sides /\ pc[s] \in {"read", "write", "readErr", "signal", "done"}
  BY Typed, HealthyNow, SideOf, Zenon
<1>2. conn[Out(s)] # "open"
  BY <1>1, Zenon DEF IInv, SocketInv
<1>3. pc[s] \in {"signal", "done"} /\ err[s] = "nil"
  BY <1>1, <1>2, Zenon DEF Healthy
<1>4. buf[s] = <<>> /\ rerr[s] = "EOF"
  BY <1>3, Zenon DEF IInv, CopierInv
<1>5. PICK a : a = Base(s)
  OBVIOUS
<1>6. a \in Nat
  BY <1>5, Typed DEF Base
<1>7. /\ p = a + w + Len(buf[s]) /\ Len(buf[s]) = 0
      /\ ("quic" \notin faults => peer[In(s)] # "open" /\ p = sent[In(s)])
  BY <1>3, <1>4, <1>5, <1>6, DirTypes, Zenon DEF Dir
<1>8. a + w = sent[In(s)] /\ peer[In(s)] # "open"
  BY <1>6, <1>7
<1> QED  BY <1>5, <1>8

\* The invariant places the stream to the destination in a state of a byte stream.
LEMMA OutState == IInv => OutOK
<1> SUFFICES ASSUME IInv
             PROVE  OutOK
  OBVIOUS
<1>1. "s1" \in Copiers /\ In("s1") = "in" /\ Out("s1") = "out" /\ Base("s1") = skip
  BY DEF Copiers, In, Out, Base
<1>2. PICK w, p, r \in Nat : Dir("s1", Base("s1"), w, p, r)
  BY <1>1, Zenon DEF IInv, DirInv
<1>3. /\ skip \in Nat /\ sent["in"] \in Nat /\ Queue(tx["out"], skip, w)
      /\ skip + w + Len(buf["s1"]) <= p /\ p + r <= sent["in"] /\ Len(buf["s1"]) \in {0, 1}
  <2>1. skip \in Nat /\ sent["in"] \in Nat
    BY Typed DEF Sides
  <2> QED  BY <1>1, <1>2, <2>1, DirTypes, Zenon DEF Dir
<1>4. Data(tx["out"]) = Run(skip, w) /\ Len(Run(0, w)) = w /\ w <= sent["in"] - skip
  <2>1. Data(tx["out"]) = Run(skip, w)
    BY <1>3, QueueData, Zenon
  <2>2. Len(Run(0, w)) = w
    BY DEF Run
  <2>3. w <= sent["in"] - skip
    <3>1. PICK n, l : n = sent["in"] /\ l = Len(buf["s1"])
      BY Zenon
    <3>2. n \in Nat /\ l \in {0, 1} /\ skip \in Nat /\ skip + w + l <= p /\ p + r <= n
      BY <1>3, <3>1, Zenon
    <3>3. w <= n - skip
      BY <3>2
    <3> QED  BY <3>1, <3>3, Zenon
  <2> QED  BY <2>1, <2>2, <2>3, Zenon
<1>5. hpc # "relay" => tx["out"] = <<>> /\ ~OutEof
  <2>1. ~Carries(<<>>, FIN)
    BY QueueEmpty
  <2> QED  BY <2>1, Zenon DEF IInv, HandlerInv, OutEof
<1>6. OutFin \in BOOLEAN /\ OutEof \in BOOLEAN
  BY Zenon DEF OutFin, OutEof
<1>7. CASE Begun
  <2>1. Lead = skip /\ OutSent = sent["in"] - skip
    BY <1>7, LeadIs, Zenon DEF OutSent
  <2>2. OutRcvd = Run(0, w)
    <3>1. OutRcvd = [i \in DOMAIN Run(skip, w) |-> Run(skip, w)[i] - skip]
      BY <1>4, <2>1, Zenon DEF OutRcvd
    <3>2. [i \in DOMAIN Run(skip, w) |-> Run(skip, w)[i] - skip] = [i \in 1..w |-> 0 + i]
      BY ONLY <1>3, w \in Nat DEF Run
    <3> QED  BY <3>1, <3>2, Zenon DEF Run
  <2>3. OutEof => OutFin /\ w = OutSent
    <3> SUFFICES ASSUME OutEof
                 PROVE  OutFin /\ w = OutSent
      OBVIOUS
    <3>1. hpc = "relay" /\ faults = {} /\ kind # "plain" /\ Carries(tx["out"], FIN)
      BY <1>5, Zenon DEF OutEof, HalfCloses
    <3>2. peer["in"] # "open" /\ skip + w = sent["in"]
      BY <1>1, <1>2, <3>1, EndComplete, Zenon
    <3>3. w = sent["in"] - skip
      BY <1>3, <3>2
    <3> QED  BY <2>1, <3>1, <3>2, <3>3, Zenon DEF OutFin
  <2>4. OutSent \in Nat /\ w \in 0..OutSent
    BY <1>3, <1>4, <2>1
  <2> QED  BY <1>4, <1>6, <2>2, <2>3, <2>4, Zenon DEF OutOK, Sound
<1>8. CASE ~Begun
  <2>1. hpc # "relay" /\ OutSent = 0
    BY <1>8, Zenon DEF Begun, OutSent, IInv, HandlerInv
  <2>2. w = 0
    BY <1>3, <1>5, <2>1 DEF Queue
  <2>3. OutRcvd = Run(0, 0)
    <3>1. OutRcvd = [i \in DOMAIN Run(skip, 0) |-> Run(skip, 0)[i] - Lead]
      BY <1>4, <2>2, Zenon DEF OutRcvd
    <3>2. [i \in DOMAIN Run(skip, 0) |-> Run(skip, 0)[i] - Lead] = [i \in 1..0 |-> 0 + i]
      BY ONLY TRUE DEF Run
    <3> QED  BY <3>1, <3>2, Zenon DEF Run
  <2>4. 0 \in Nat /\ 0 \in 0..0
    OBVIOUS
  <2> QED  BY <1>4, <1>5, <1>6, <2>1, <2>2, <2>3, <2>4, Zenon DEF OutOK, Sound
<1> QED  BY <1>7, <1>8

\* And the stream back.
LEMMA InState == IInv => InOK
<1> SUFFICES ASSUME IInv
             PROVE  InOK
  OBVIOUS
<1>1. "s2" \in Copiers /\ In("s2") = "out" /\ Out("s2") = "in" /\ Base("s2") = 0
  BY DEF Copiers, In, Out, Base
<1>2. PICK w, p, r \in Nat : Dir("s2", Base("s2"), w, p, r)
  BY <1>1, Zenon DEF IInv, DirInv
<1>3. /\ 0 \in Nat /\ sent["out"] \in Nat /\ Queue(tx["in"], 0, w)
      /\ 0 + w + Len(buf["s2"]) <= p /\ p + r <= sent["out"] /\ Len(buf["s2"]) \in {0, 1}
  <2>1. 0 \in Nat /\ sent["out"] \in Nat
    BY Typed DEF Sides
  <2> QED  BY <1>1, <1>2, <2>1, DirTypes, Zenon DEF Dir
<1>4. InRcvd = Run(0, w) /\ Len(Run(0, w)) = w /\ InSent \in Nat /\ w \in 0..InSent
  <2>1. InRcvd = Run(0, w)
    BY <1>3, QueueData, Zenon DEF InRcvd
  <2>2. Len(Run(0, w)) = w
    BY DEF Run
  <2>3. w \in 0..sent["out"]
    BY <1>3
  <2> QED  BY <1>3, <2>1, <2>2, <2>3, Zenon DEF InSent
<1>5. InFin \in BOOLEAN /\ InEof \in BOOLEAN
  BY Zenon DEF InFin, InEof
<1>6. InEof => InFin /\ w = InSent
  <2> SUFFICES ASSUME InEof
               PROVE  InFin /\ w = InSent
    OBVIOUS
  <2>1. hpc = "relay" /\ faults = {} /\ kind # "plain" /\ Carries(tx["in"], FIN)
    BY Zenon DEF InEof, HalfCloses
  <2>2. peer["out"] # "open" /\ 0 + w = sent["out"]
    BY <1>1, <1>2, <2>1, EndComplete, Zenon
  <2>3. w = sent["out"]
    BY ONLY <2>2, w \in Nat
  <2> QED  BY <2>2, <2>3, Zenon DEF InFin, InSent
<1> QED  BY <1>4, <1>5, <1>6, Zenon DEF InOK, Sound

\* What is sent to a peer is never taken back.
LEMMA TxGrows ==
  ASSUME IInv, TunnelNext, NEW x \in Sides
  PROVE  \E m \in Seq(Items) : tx'[x] = tx[x] \o m
<1>1. tx \in [Sides -> Seq(Items)] /\ conn \in [Sides -> Conns] /\ tx[x] \in Seq(Items)
  BY Typed, Zenon
<1>2. \A m \in Closings : m \in Seq(Items)
  <2>1. <<>> \in Seq(Items) /\ \A v \in Items : <<v>> \in Seq(Items)
    OBVIOUS
  <2> QED  BY <2>1, MarkItems, Zenon DEF Closings
<1>3. CASE CloseStep
  BY <1>2, <1>3, Zenon DEF CloseStep
<1>4. CASE UNCHANGED tx
  BY <1>1, <1>2, <1>4, SameTx, Zenon
<1>5. ASSUME NEW s \in Copiers, Write(s)
      PROVE  \E m \in Seq(Items) : tx'[x] = tx[x] \o m
  <2>1. tx' = [tx EXCEPT ![Out(s)] = @ \o buf[s]] /\ buf[s] \in Seq(Nat)
    BY <1>5, Typed, Zenon DEF Write
  <2>2. buf[s] \in Seq(Items)
    BY <2>1 DEF Items
  <2>3. CASE x = Out(s)
    BY <1>1, <2>1, <2>2, <2>3, Zenon
  <2>4. CASE x # Out(s)
    <3>1. tx'[x] = tx[x]
      BY <1>1, <2>1, <2>4, Zenon
    <3>2. tx[x] \o <<>> = tx[x] /\ <<>> \in Seq(Items)
      BY ONLY <1>1
    <3> QED  BY <3>1, <3>2, Zenon
  <2> QED  BY <2>3, <2>4
<1>6. CASE Peers
  BY <1>4, <1>6, Zenon DEF Peers, PeerSend, PeerFin, PeerReset
<1>7. CASE Handler
  <2>1. CASE Sniff \/ HijackFails \/ DialFails
    BY <1>1, <1>3, <1>4, <2>1, CloseAllStep, Zenon DEF Sniff, HijackFails, DialFails
  <2>2. CASE Hijack \/ ReadPrefix \/ ReadText \/ Dial \/ H2Dial \/ CopyToFails \/ Answer
    BY <1>4, <2>2, Zenon DEF Hijack, ReadPrefix, ReadText, Dial, H2Dial, CopyToFails, Answer, sysVars, netVars
  <2> QED  BY <1>7, <2>1, <2>2, Zenon DEF Handler
<1>8. CASE Relay
  <2>1. ASSUME NEW s \in Copiers, Read(s) \/ ReadTimeout(s)
        PROVE  UNCHANGED tx
    BY <2>1, Zenon DEF Read, ReadTimeout, netVars
  <2>2. ASSUME NEW s \in Copiers, WriteErr(s) \/ ReadErr(s) \/ Collect(s)
        PROVE  CloseStep
    BY <1>1, <2>2, CloseAllStep, SameStep, CloseWriterStep, SideOf, Zenon
       DEF WriteErr, ReadErr, Collect, rstWriter
  <2>3. CASE Finish
    BY <1>1, <1>3, <2>3, CloseAllStep, Zenon DEF Finish
  <2> QED  BY <1>3, <1>4, <1>5, <1>8, <2>1, <2>2, <2>3, Zenon DEF Relay, Copy
<1> QED  BY <1>6, <1>7, <1>8, Zenon DEF TunnelNext

\* A direction in which Proxy or a peer's end has moved something: the reader has no less.
LEMMA OutGrows ==
  ASSUME IInv, IInv', TunnelNext, skip' = skip
  PROVE  Len(Data(tx["out"])) <= Len(Data(tx'["out"]))
<1>1. "s1" \in Copiers /\ In("s1") = "in" /\ Out("s1") = "out" /\ Base("s1") = skip /\ Base("s1")' = skip
      /\ "out" \in Sides
  BY DEF Copiers, In, Out, Base, Sides
<1>2. PICK w, p, r \in Nat : Dir("s1", skip, w, p, r)
  BY <1>1, Zenon DEF IInv, DirInv
<1>3. PICK v, k, l \in Nat : Dir("s1", skip, v, k, l)'
  BY <1>1, Zenon DEF IInv, DirInv
<1>4. skip \in Nat /\ Queue(tx["out"], skip, w) /\ Queue(tx'["out"], skip, v)
  BY <1>1, <1>2, <1>3, Typed, Zenon DEF Dir
<1>5. PICK m \in Seq(Items) : tx'["out"] = tx["out"] \o m
  BY <1>1, TxGrows, Zenon
<1> QED  BY <1>4, <1>5, DataGrows, Zenon

\* What the client was sent stays sent.
LEMMA InGrows ==
  ASSUME IInv, IInv', TunnelNext
  PROVE  Len(InRcvd) <= Len(InRcvd')
<1>1. "s2" \in Copiers /\ In("s2") = "out" /\ Out("s2") = "in" /\ Base("s2") = 0 /\ Base("s2")' = 0
      /\ "in" \in Sides
  BY DEF Copiers, In, Out, Base, Sides
<1>2. PICK w, p, r \in Nat : Dir("s2", 0, w, p, r)
  BY <1>1, Zenon DEF IInv, DirInv
<1>3. PICK v, k, l \in Nat : Dir("s2", 0, v, k, l)'
  BY <1>1, Zenon DEF IInv, DirInv
<1>4. 0 \in Nat /\ Queue(tx["in"], 0, w) /\ Queue(tx'["in"], 0, v)
  <2>1. 0 \in Nat
    OBVIOUS
  <2> QED  BY <1>1, <1>2, <1>3, <2>1, Zenon DEF Dir
<1>5. PICK m \in Seq(Items) : tx'["in"] = tx["in"] \o m
  BY <1>1, TxGrows, Zenon
<1> QED  BY <1>4, <1>5, DataGrows, Zenon DEF InRcvd

\* What the peers of a tunnel do.
LEMMA PeersMove ==
  ASSUME IInv, Peers, UNCHANGED hVars, UNCHANGED fixedVars
  PROVE  /\ UNCHANGED <<tx, conn, hpc, skip, resp, kind, faults, eager, framed, hlen>>
         /\ \E x \in Sides :
              /\ \A y \in Sides : y # x => peer'[y] = peer[y] /\ sent'[y] = sent[y]
              /\ \/ peer[x] = "open" /\ peer'[x] = "open" /\ sent'[x] = sent[x] + 1
                 \/ peer'[x] # "open" /\ sent'[x] = sent[x]
<1>1. PICK x \in Sides : PeerSend(x) \/ PeerFin(x) \/ PeerReset(x)
  BY Zenon DEF Peers
<1>2. UNCHANGED <<tx, conn, hpc, skip, resp, kind, faults, eager, framed, hlen>>
  BY <1>1, Zenon DEF PeerSend, PeerFin, PeerReset, hVars, fixedVars, kindVars
<1>3. sent \in [Sides -> Nat] /\ peer \in [Sides -> {"open", "fin", "reset"}]
  BY Typed, Zenon
<1>4. CASE PeerSend(x)
  BY <1>2, <1>3, <1>4 DEF PeerSend
<1>5. CASE PeerFin(x) \/ PeerReset(x)
  BY <1>2, <1>3, <1>5 DEF PeerFin, PeerReset
<1> QED  BY <1>1, <1>4, <1>5

\* Proxy and its copiers change neither what the peers have sent nor where the handler is.
LEMMA RelayMove ==
  ASSUME Relay
  PROVE  UNCHANGED <<peer, sent>>
<1>1. ASSUME NEW s \in Copiers, Copy(s) \/ ReadTimeout(s) \/ Collect(s)
      PROVE  UNCHANGED <<peer, sent>>
  BY <1>1, Zenon DEF Copy, Read, Write, WriteErr, ReadErr, ReadTimeout, Collect, netVars
<1>2. CASE Finish
  BY <1>2, Zenon DEF Finish
<1> QED  BY <1>1, <1>2, Zenon DEF Relay

\* Every step of a tunnel is a step of the stream to the destination, or none.
LEMMA OutStep ==
  ASSUME IInv, IInv', OutOK, OutOK', TunnelNext
  PROVE  Outbound!Next
<1>0. UNCHANGED <<kind, faults, eager, framed, hlen>> /\ OutSent \in Nat /\ OutSent' \in Nat
  BY Zenon DEF TunnelNext, fixedVars, kindVars, OutOK, Sound
<1>1. CASE Peers /\ UNCHANGED hVars
  <2>1. /\ UNCHANGED <<tx, conn, hpc, skip, resp, kind, faults, eager, framed, hlen>>
        /\ \E x \in Sides :
             /\ \A y \in Sides : y # x => peer'[y] = peer[y] /\ sent'[y] = sent[y]
             /\ \/ peer[x] = "open" /\ peer'[x] = "open" /\ sent'[x] = sent[x] + 1
                \/ peer'[x] # "open" /\ sent'[x] = sent[x]
    BY <1>1, PeersMove, Zenon DEF TunnelNext
  <2>2. Lead' = Lead /\ (HasDest' <=> HasDest) /\ (Begun' <=> Begun)
    BY <2>1 DEF Lead, HasDest, Begun
  <2>3. OutRcvd' = OutRcvd /\ OutEof' = OutEof
    BY <2>1, <2>2, Zenon DEF OutRcvd, OutEof, HalfCloses
  <2>4. CASE peer'["in"] = peer["in"] /\ sent'["in"] = sent["in"]
    <3>1. OutSent' = OutSent /\ OutFin' = OutFin
      BY <2>1, <2>2, <2>4, Zenon DEF OutSent, OutFin
    <3>2. Len(OutRcvd) <= Len(OutRcvd')
      BY <2>3 DEF OutOK, Sound
    <3> QED  BY <3>1, <3>2, OutDelivers, Zenon
  <2>5. CASE peer["in"] = "open" /\ peer'["in"] = "open" /\ sent'["in"] = sent["in"] + 1
    <3>1. ~OutFin /\ ~OutFin'
      BY <2>5, Zenon DEF OutFin
    <3>2. OutSent' >= OutSent
      <4>1. sent["in"] \in Nat
        BY Typed DEF Sides
      <4>2. PICK n, l : n = sent["in"] /\ l = Lead
        OBVIOUS
      <4>3. CASE Begun
        <5>1. l \in Nat /\ n \in Nat
          BY <4>1, <4>2, <4>3, LeadIs, Zenon
        <5>2. OutSent = n - l /\ OutSent' = (n + 1) - l
          <6>1. OutSent = sent["in"] - Lead /\ OutSent' = sent'["in"] - Lead'
            BY <2>2, <4>3, Zenon DEF OutSent
          <6>2. sent["in"] = n /\ Lead = l /\ Lead' = l
            BY <2>2, <4>2, Zenon
          <6>3. sent'["in"] = n + 1
            BY <2>5, <6>2, Zenon
          <6> QED  BY <6>1, <6>2, <6>3, Zenon
        <5> QED  BY <5>1, <5>2
      <4>4. CASE ~Begun
        BY <1>0, <2>2, <4>4 DEF OutSent
      <4> QED  BY <4>3, <4>4
    <3>3. OutFin' = OutFin
      BY <3>1, Zenon DEF OutFin
    <3> QED  BY <1>0, <2>3, <3>1, <3>2, <3>3, Zenon DEF Outbound!Next, Outbound!Write
  <2>6. CASE peer'["in"] # "open" /\ sent'["in"] = sent["in"]
    <3>1. OutSent' = OutSent
      BY <2>2, <2>6, Zenon DEF OutSent
    <3>2. CASE OutFin' = OutFin
      <4>1. Len(OutRcvd) <= Len(OutRcvd')
        BY <2>3 DEF OutOK, Sound
      <4> QED  BY <3>1, <3>2, <4>1, OutDelivers, Zenon
    <3>3. CASE OutFin' # OutFin
      <4>1. ~OutFin /\ OutFin' = TRUE
        BY <2>1, <2>6, <3>3, Zenon DEF OutFin
      <4> QED  BY <2>3, <3>1, <4>1, Zenon DEF Outbound!Next, Outbound!Finish
    <3> QED  BY <3>2, <3>3
  <2> QED  BY <2>1, <2>4, <2>5, <2>6, Zenon DEF Sides
<1>2. CASE Handler
  <2>1. hpc # "relay" /\ UNCHANGED sent /\ peer'["in"] = peer["in"]
    <3>1. CASE H2Dial
      <4>1. "in" \in Sides /\ "in" # "out" /\ peer \in [Sides -> {"open", "fin", "reset"}]
        BY Typed, Zenon DEF Sides
      <4> QED  BY <3>1, <4>1 DEF H2Dial
    <3>2. CASE ~H2Dial
      BY <1>2, <3>2, Zenon DEF Handler, Sniff, Hijack, HijackFails, ReadPrefix, ReadText, Dial, DialFails,
         CopyToFails, Answer, sysVars, netVars
    <3> QED  BY <3>1, <3>2
  <2>2. tx["out"] = <<>> /\ tx'["out"] = <<>>
    <3>1. tx["out"] = <<>> /\ (hpc' # "relay" => tx'["out"] = <<>>)
      BY <2>1, Zenon DEF IInv, HandlerInv
    <3>2. CASE hpc' = "relay"
      BY <1>2, <3>1, <3>2, Zenon DEF Handler, Sniff, Hijack, HijackFails, ReadPrefix, ReadText, Dial, DialFails,
         H2Dial, CopyToFails, Answer, sysVars, netVars
    <3> QED  BY <3>1, <3>2
  <2>3. OutEof = FALSE /\ OutEof' = FALSE
    <3>1. ~Carries(<<>>, FIN)
      BY QueueEmpty
    <3> QED  BY <2>2, <3>1, Zenon DEF OutEof
  <2>4. OutRcvd' = OutRcvd
    <3>1. Len(Data(<<>>)) = 0 /\ Data(<<>>) = Run(0, 0)
      BY QueueEmpty, QueueData
    <3>2. DOMAIN Data(<<>>) = {}
      BY <3>1 DEF Run
    <3> QED  BY <2>2, <3>2 DEF OutRcvd
  <2>5. Len(OutRcvd) <= Len(OutRcvd')
    BY <2>4 DEF OutOK, Sound
  <2>6. CASE Dial \/ H2Dial \/ Answer
    <3>1. UNCHANGED <<skip>> /\ hpc \in {"dial", "answer"} /\ hpc' \in {"answer", "relay"}
      BY <2>6, Zenon DEF Dial, H2Dial, Answer
    <3>2. HasDest /\ HasDest' /\ Lead' = Lead
      <4>1. HasDest
        BY <2>6 DEF Dial, H2Dial, Answer, HasDest, IInv, HandlerInv
      <4> QED  BY <1>0, <3>1, <4>1 DEF HasDest, Lead
    <3>3. OutSent' = OutSent
      BY <2>1, <3>1, <3>2, Zenon DEF OutSent, Begun
    <3>4. CASE OutFin' = OutFin
      BY <2>5, <3>3, <3>4, OutDelivers, Zenon
    <3>5. CASE OutFin' # OutFin
      <4>1. ~OutFin /\ OutFin' = TRUE
        BY <2>1, <3>1, <3>5, Zenon DEF OutFin
      <4> QED  BY <2>3, <2>4, <3>3, <4>1, Zenon DEF Outbound!Next, Outbound!Finish
    <3> QED  BY <3>4, <3>5
  <2>7. CASE ~(Dial \/ H2Dial \/ Answer)
    <3>1. hpc \notin {"answer", "relay"} /\ hpc' \notin {"answer", "relay"}
      BY <1>2, <2>7 DEF Handler, Sniff, Hijack, HijackFails, ReadPrefix, ReadText, DialFails, CopyToFails
    <3>2. ~OutFin /\ OutFin = FALSE /\ OutFin' = FALSE
      BY <3>1, Zenon DEF OutFin
    <3>3. OutSent' >= OutSent
      <4>1. CASE Begun
        <5>1. hpc = "dial" /\ UNCHANGED skip /\ hpc' = "failed"
          BY <1>2, <2>7, <4>1 DEF Begun, Handler, Sniff, Hijack, HijackFails, ReadPrefix, ReadText, DialFails,
             CopyToFails
        <5>2. Lead' = Lead /\ (HasDest' <=> HasDest)
          BY <1>0, <5>1 DEF HasDest, Lead
        <5>3. OutSent' = OutSent
          BY <2>1, <4>1, <5>1, <5>2, Zenon DEF OutSent, Begun
        <5> QED  BY <1>0, <5>3
      <4>2. CASE ~Begun
        BY <1>0, <4>2 DEF OutSent
      <4> QED  BY <4>1, <4>2
    <3> QED  BY <1>0, <2>3, <2>4, <3>2, <3>3, Zenon DEF Outbound!Next, Outbound!Write
  <2> QED  BY <2>6, <2>7
<1>3. CASE hpc = "relay" /\ Relay /\ UNCHANGED hVars
  <2>1. UNCHANGED <<peer, sent, hpc, skip, resp>>
    BY <1>3, RelayMove, Zenon DEF hVars
  <2>2. Lead' = Lead /\ (HasDest' <=> HasDest) /\ (Begun' <=> Begun)
    BY <1>0, <2>1 DEF Lead, HasDest, Begun
  <2>3. OutSent' = OutSent /\ OutFin' = OutFin
    BY <2>1, <2>2, Zenon DEF OutSent, OutFin
  <2>4. Len(Data(tx["out"])) <= Len(Data(tx'["out"]))
    BY <2>1, OutGrows, Zenon
  <2>5. Len(OutRcvd) <= Len(OutRcvd')
    BY <2>4 DEF OutRcvd
  <2> QED  BY <2>3, <2>5, OutDelivers, Zenon
<1> QED  BY <1>1, <1>2, <1>3, Zenon DEF TunnelNext

\* Every step of a tunnel is a step of the stream back to the client, or none.
LEMMA InStep ==
  ASSUME IInv, IInv', InOK, InOK', TunnelNext
  PROVE  Inbound!Next
<1>0. Len(InRcvd) <= Len(InRcvd') /\ InSent' \in Nat
  BY InGrows, Zenon DEF InOK, Sound
<1>1. CASE sent'["out"] = sent["out"] /\ peer'["out"] = peer["out"]
  BY <1>0, <1>1, InDelivers, Zenon DEF InSent, InFin
<1>2. CASE Peers /\ UNCHANGED hVars
  <2>1. /\ UNCHANGED <<tx, conn, hpc, skip, resp, kind, faults, eager, framed, hlen>>
        /\ \E x \in Sides :
             /\ \A y \in Sides : y # x => peer'[y] = peer[y] /\ sent'[y] = sent[y]
             /\ \/ peer[x] = "open" /\ peer'[x] = "open" /\ sent'[x] = sent[x] + 1
                \/ peer'[x] # "open" /\ sent'[x] = sent[x]
    BY <1>2, PeersMove, Zenon DEF TunnelNext
  <2>2. InRcvd' = InRcvd /\ InEof' = InEof
    BY <2>1, Zenon DEF InRcvd, InEof, HalfCloses
  <2>3. CASE peer["out"] = "open" /\ peer'["out"] = "open" /\ sent'["out"] = sent["out"] + 1
    <3>1. sent["out"] \in Nat
      BY Typed DEF Sides
    <3>2. InSent' >= InSent
      BY <2>3, <3>1 DEF InSent
    <3>3. ~InFin /\ InFin' = InFin
      BY <2>3, Zenon DEF InFin
    <3> QED  BY <1>0, <2>2, <3>2, <3>3, Zenon DEF Inbound!Next, Inbound!Write
  <2>4. CASE peer'["out"] # "open" /\ sent'["out"] = sent["out"]
    <3>1. CASE InFin' = InFin
      BY <1>0, <2>4, <3>1, InDelivers, Zenon DEF InSent
    <3>2. CASE InFin' # InFin
      <4>1. ~InFin /\ InFin' = TRUE
        BY <2>4, <3>2, Zenon DEF InFin
      <4> QED  BY <2>2, <2>4, <4>1, Zenon DEF Inbound!Next, Inbound!Finish, InSent
    <3> QED  BY <3>1, <3>2
  <2> QED  BY <1>1, <2>1, <2>3, <2>4, Zenon DEF Sides
<1>3. CASE H2Dial
  <2>1. UNCHANGED <<sent, tx>> /\ hpc = "dial" /\ hpc' = "answer"
    BY <1>3, Zenon DEF H2Dial
  <2>2. CASE peer' = [peer EXCEPT !["out"] = "fin"]
    <3>1. conn["out"] = "none"
      BY <2>1 DEF IInv, HandlerInv, TypeOK, ProxyTypeOK
    <3>2. peer["out"] = "open"
      BY <3>1, Zenon DEF IInv, HandlerInv
    <3>3. peer'["out"] = "fin"
      BY <2>2, Typed DEF Sides
    <3>4. ~InFin /\ InFin' = TRUE
      BY <3>2, <3>3, Zenon DEF InFin
    <3>5. InEof' = InEof /\ InRcvd' = InRcvd /\ InSent' = InSent
      BY <2>1, Zenon DEF InEof, InRcvd, InSent
    <3> QED  BY <3>4, <3>5, Zenon DEF Inbound!Next, Inbound!Finish
  <2>3. CASE UNCHANGED peer
    BY <1>1, <2>1, <2>3, Zenon
  <2> QED  BY <1>3, <2>2, <2>3, Zenon DEF H2Dial
<1>4. CASE Handler /\ ~H2Dial
  <2>1. UNCHANGED <<sent, peer>>
    BY <1>4, Zenon DEF Handler, Sniff, Hijack, HijackFails, ReadPrefix, ReadText, Dial, DialFails,
       CopyToFails, Answer, sysVars, netVars
  <2> QED  BY <1>1, <2>1, Zenon
<1>5. CASE hpc = "relay" /\ Relay /\ UNCHANGED hVars
  BY <1>1, <1>5, RelayMove, Zenon
<1> QED  BY <1>2, <1>3, <1>4, <1>5, Zenon DEF TunnelNext

\* A tunnel starts as two empty streams.
LEMMA StreamsInit == TunnelInit => Outbound!Init /\ Inbound!Init
<1> SUFFICES ASSUME TunnelInit
             PROVE  Outbound!Init /\ Inbound!Init
  OBVIOUS
<1>1. /\ tx["in"] = <<>> /\ tx["out"] = <<>> /\ peer["in"] = "open" /\ peer["out"] = "open"
      /\ sent["in"] = 0 /\ sent["out"] = 0 /\ skip = 0 /\ hpc \notin {"dial", "answer", "failed"}
  BY DEF TunnelInit, Init, Sides
<1>2. Len(Data(<<>>)) = 0 /\ ~Carries(<<>>, FIN) /\ Data(<<>>) = Run(0, 0)
  BY QueueEmpty, QueueData
<1>3. DOMAIN Data(<<>>) = {} /\ Data(<<>>) = <<>>
  BY <1>2 DEF Run
<1>4. OutSent = 0
  BY <1>1 DEF OutSent, Begun, Lead, HasDest, TunnelInit, Init
<1>5. OutRcvd = <<>> /\ InRcvd = <<>>
  BY <1>1, <1>3 DEF OutRcvd, InRcvd
<1>6. OutFin = FALSE /\ InFin = FALSE /\ OutEof = FALSE /\ InEof = FALSE
  BY <1>1, <1>2, Zenon DEF OutFin, InFin, OutEof, InEof
<1> QED  BY <1>1, <1>4, <1>5, <1>6, Zenon DEF Outbound!Init, Inbound!Init, InSent

\* A step that leaves the tunnel alone leaves both streams alone.
LEMMA StreamsStutter == UNCHANGED allVars => UNCHANGED Outbound!bsvars /\ UNCHANGED Inbound!bsvars
<1> SUFFICES ASSUME UNCHANGED allVars
             PROVE  UNCHANGED Outbound!bsvars /\ UNCHANGED Inbound!bsvars
  OBVIOUS
<1>1. UNCHANGED <<tx, peer, sent, hpc, skip, resp, kind, faults, eager, framed, hlen>>
  BY Zenon DEF allVars, fixedVars, kindVars, tunVars, sysVars, netVars, hVars
<1>2. Lead' = Lead /\ (HasDest' <=> HasDest) /\ (Begun' <=> Begun)
  BY <1>1 DEF Lead, HasDest, Begun
<1>3. OutSent' = OutSent /\ OutFin' = OutFin /\ OutRcvd' = OutRcvd /\ OutEof' = OutEof
  BY <1>1, <1>2, Zenon DEF OutSent, OutFin, OutRcvd, OutEof, HalfCloses
<1>4. InSent' = InSent /\ InFin' = InFin /\ InRcvd' = InRcvd /\ InEof' = InEof
  BY <1>1, Zenon DEF InSent, InFin, InRcvd, InEof, HalfCloses
<1> QED  BY <1>3, <1>4, Zenon DEF Outbound!bsvars, Inbound!bsvars

\* A tunnel implements two byte streams, whatever its handler, its faults, the length of
\* the header and the number of bytes: what Proxy and its two Copy goroutines write to a
\* peer is what the other one sent, in order, none skipped or repeated, and the FIN that
\* Copy's CloseWrite sends between healthy peers says that nothing is missing.
THEOREM TunnelImplementsStreams == TunnelSpec => ImplementsStreams
<1>1. TunnelInit => Outbound!Init /\ Inbound!Init
  BY StreamsInit
<1>2. IInv => OutOK /\ InOK
  BY OutState, InState
<1>3. IInv' => OutOK' /\ InOK'
  BY <1>2, PTL
<1>4. IInv /\ IInv' /\ [TunnelNext]_allVars => [Outbound!Next]_(Outbound!bsvars) /\ [Inbound!Next]_(Inbound!bsvars)
  BY <1>2, <1>3, OutStep, InStep, StreamsStutter, Zenon
<1>5. TunnelSpec => []IInv
  BY TunnelInvariance
<1> QED  BY <1>1, <1>4, <1>5, PTL DEF TunnelSpec, ImplementsStreams, Outbound!Spec, Inbound!Spec
=============================================================================
