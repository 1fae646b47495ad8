--------------------------- MODULE TunnelStreams ---------------------------
(***************************************************************************)
(* What a tunnel promises: each direction, from the client to the          *)
(* destination (Outbound) and back (Inbound), is a ByteStream.             *)
(***************************************************************************)
EXTENDS Tunnel

\* From the client to the destination: what follows the handler's own bytes, from the
\* moment the handler has read those.  A FIN stands for the end of the stream between
\* healthy peers only.
Begun   == hpc \in {"dial", "answer", "relay", "failed"} /\ HasDest
OutSent == IF Begun THEN sent["in"] - Lead ELSE 0
OutRcvd == LET d == Data(tx["out"]) IN [i \in DOMAIN d |-> d[i] - Lead]
OutFin  == hpc \in {"answer", "relay"} /\ peer["in"] # "open"
OutEof  == faults = {} /\ HalfCloses("out") /\ Carries(tx["out"], FIN)

\* And back.
InSent == sent["out"]
InRcvd == Data(tx["in"])
InFin  == peer["out"] # "open"
InEof  == faults = {} /\ HalfCloses("in") /\ hpc = "relay" /\ Carries(tx["in"], FIN)

Outbound == INSTANCE ByteStream
  WITH sent <- OutSent, rcvd <- OutRcvd, fin <- OutFin, eof <- OutEof
Inbound == INSTANCE ByteStream
  WITH sent <- InSent, rcvd <- InRcvd, fin <- InFin, eof <- InEof

\* Each direction implements a byte stream: the bytes of a peer reach the other one in
\* order, none skipped or repeated, and a FIN means that it has them all.
ImplementsStreams == Outbound!Spec /\ Inbound!Spec
=============================================================================
