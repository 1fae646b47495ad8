------------------------------- MODULE WebRTC -------------------------------
(***************************************************************************)
(* AcceptPeering (pkg/webrtc): the answer to an offer that comes over HTTP *)
(* is held back until the gathering of candidates, which runs on the       *)
(* library's goroutine, has reported its end over an unbuffered channel.   *)
(* Then the data channel of the accepted connection, to which Start sends  *)
(* a message every five seconds.                                           *)
(***************************************************************************)
EXTENDS Integers

CONSTANT MaxCands    \* bound on the number of candidates

ASSUME WebRTCAssumption == MaxCands \in Nat

VARIABLES
  cands,    \* the candidates that this host has; fixed
  rpc,      \* where the handler is
  gather,   \* the library: "off", "on", "last" (in the callback for nil), "over"
  local,    \* candidates in the local description
  answer,   \* what the handler wrote: "none", "501", or the candidates of the answer
  channel,  \* the data channel: "none", "open", "closed"
  ticker    \* the goroutine of OnOpen: "none", "runs", "panicked"

rtcVars == <<rpc, gather, local, answer, channel, ticker>>
rtcAll  == <<cands, rtcVars>>

InitRTC ==
  /\ cands \in 0..MaxCands
  /\ rpc = "offer" /\ gather = "off" /\ local = 0
  /\ answer = [status |-> "none", cands |-> 0]
  /\ channel = "none" /\ ticker = "none"

\* An offer that does not parse or that SetRemoteDescription, CreateAnswer or
\* SetLocalDescription refuses.  The peer connection is not closed.
Refuse ==
  /\ rpc = "offer"
  /\ answer' = [status |-> "501", cands |-> 0] /\ rpc' = "done"
  /\ UNCHANGED <<gather, local, channel, ticker>>

\* The callback is registered, then SetLocalDescription starts the gathering.
AcceptPeering ==
  /\ rpc = "offer"
  /\ gather' = "on" /\ rpc' = "set"
  /\ UNCHANGED <<local, answer, channel, ticker>>

SetLocalDescription ==
  /\ rpc = "set" /\ rpc' = "wait"
  /\ UNCHANGED <<gather, local, answer, channel, ticker>>

\* OnICECandidate with a candidate, which only logs.
Candidate ==
  /\ gather = "on" /\ local < cands
  /\ local' = local + 1
  /\ UNCHANGED <<rpc, gather, answer, channel, ticker>>

\* Mutant: the callback does not wait for the receiver.
LastCandidateDrops ==
  /\ gather = "on" /\ local = cands
  /\ gather' = IF rpc = "wait" THEN "last" ELSE "over"
  /\ UNCHANGED <<rpc, local, answer, channel, ticker>>

\* OnICECandidate with nil: the callback blocks in its send.
LastCandidate ==
  /\ gather = "on" /\ local = cands
  /\ gather' = "last"
  /\ UNCHANGED <<rpc, local, answer, channel, ticker>>

\* The receive of gatherComplete, and the answer.
GatherComplete ==
  /\ rpc = "wait" /\ gather = "last"
  /\ gather' = "over"
  /\ answer' = [status |-> "200", cands |-> local] /\ rpc' = "done"
  /\ UNCHANGED <<local, channel, ticker>>

\* OnDataChannel and OnOpen: the peer opens its channel, and the ticker starts.
Opened ==
  /\ rpc = "done" /\ answer.status = "200" /\ channel = "none"
  /\ channel' = "open" /\ ticker' = "runs"
  /\ UNCHANGED <<rpc, gather, local, answer>>

ChannelCloses ==
  /\ channel = "open" /\ channel' = "closed"
  /\ UNCHANGED <<rpc, gather, local, answer, ticker>>

\* SendText fails on a closed channel, and the goroutine panics.
Tick ==
  /\ ticker = "runs" /\ channel = "closed"
  /\ ticker' = "panicked"
  /\ UNCHANGED <<rpc, gather, local, answer, channel>>

Gathering == Candidate \/ LastCandidate
Handling  == Refuse \/ AcceptPeering \/ SetLocalDescription \/ GatherComplete

NextRTC == (Gathering \/ Handling \/ Opened \/ ChannelCloses \/ Tick) /\ UNCHANGED cands

-----------------------------------------------------------------------------
RTCTypeOK ==
  /\ rpc \in {"offer", "set", "wait", "done"} /\ gather \in {"off", "on", "last", "over"}
  /\ local \in 0..cands /\ answer.status \in {"none", "501", "200"}

\* "Block until ICE Gathering is complete, disabling trickle ICE" (AcceptPeering):
\* an offer that is accepted is answered, with all candidates of the host, whichever
\* of the handler and the gathering comes first to the channel between them.
OfferAnswered ==
  (rpc = "set") ~> (answer.status = "200" /\ answer.cands = cands)
=============================================================================
