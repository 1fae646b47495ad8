----------------------------- MODULE ByteStream -----------------------------
(***************************************************************************)
(* What a one-directional byte stream of the gateway promises its reader,  *)
(* whatever buffers and channels carry it: the bytes come out in the order *)
(* they went in, none missing and none twice, and the end of the stream is *)
(* reported only when everything that went in has come out.                *)
(*                                                                         *)
(* A byte is its position in the stream: the k-th byte written is k.       *)
(***************************************************************************)
EXTENDS Integers, Sequences

VARIABLES
  sent,   \* how many bytes the writer has put into the stream
  rcvd,   \* the bytes handed to the reader, in the order it got them
  fin,    \* the writer has ended the stream
  eof     \* the reader's last answer was that the stream ended

bsvars == <<sent, rcvd, fin, eof>>

\* The k bytes that follow position p.
Bytes(p, k) == [i \in 1..k |-> p + i]

Init ==
  /\ sent = 0
  /\ rcvd = <<>>
  /\ fin = FALSE
  /\ eof = FALSE

Write ==
  /\ ~fin
  /\ sent' \in Nat /\ sent' >= sent
  /\ UNCHANGED <<rcvd, fin, eof>>

Finish ==
  /\ ~fin
  /\ fin' = TRUE
  /\ UNCHANGED <<sent, rcvd, eof>>

\* One call may hand out bytes and report the end at the same time.
Deliver ==
  /\ \E k \in 0..(sent - Len(rcvd)) : rcvd' = rcvd \o Bytes(Len(rcvd), k)
  /\ eof' \in {FALSE, eof, fin /\ Len(rcvd') = sent}
  /\ UNCHANGED <<sent, fin>>

Next == Write \/ Finish \/ Deliver

Spec == Init /\ [][Next]_bsvars
=============================================================================
