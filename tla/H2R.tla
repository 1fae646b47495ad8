-------------------------------- MODULE H2R --------------------------------
(***************************************************************************)
(* The reverse HTTP/2 server (pkg/h2r): ServeHTTP turns an accepted stream *)
(* into a client connection and files it under the client's name, so that  *)
(* RoundTripper finds it.  The stream's end reaches the handler over an    *)
(* unbuffered channel.                                                     *)
(***************************************************************************)
EXTENDS Integers

CONSTANTS
  Conns,      \* accepted streams, one handler each
  Names,      \* the values of {client} in the path
  Callers     \* goroutines that look a client up, once each

VARIABLES
  name,       \* [Conns -> Names]; fixed
  m,          \* holder of the mutex, or "free"
  peers,      \* "nil", or [Names -> the connection of a peer, or "none"]
  hpc,        \* [Conns -> where the handler is]
  ended,      \* streams whose Close has been called, by the library's read loop
  lpc,        \* [Callers -> where the lookup is]
  found       \* [Callers -> what RoundTripper returned]

h2rVars == <<m, peers, hpc, ended, lpc, found>>
h2rAll  == <<name, h2rVars>>

\* New: no map is made.
Init ==
  /\ name \in [Conns -> Names]
  /\ m = "free" /\ peers = "nil"
  /\ hpc = [c \in Conns |-> "accept"] /\ ended = {}
  /\ lpc = [l \in Callers |-> "start"] /\ found = [l \in Callers |-> "none"]

\* NewClientConn, with its handshake.
NewClientConn(c) ==
  /\ hpc[c] = "accept"
  /\ \E to \in {"lock", "returned"} : hpc' = [hpc EXCEPT ![c] = to]
  /\ UNCHANGED <<m, peers, ended, lpc, found>>

Lock(c) ==
  /\ hpc[c] = "lock" /\ m = "free"
  /\ m' = c /\ hpc' = [hpc EXCEPT ![c] = "register"]
  /\ UNCHANGED <<peers, ended, lpc, found>>

\* The assignment to an entry of a nil map panics; the HTTP server recovers, and the
\* mutex stays locked.
Register(c) ==
  /\ hpc[c] = "register"
  /\ IF peers = "nil"
     THEN hpc' = [hpc EXCEPT ![c] = "panicked"] /\ UNCHANGED <<m, peers>>
     ELSE /\ peers' = [peers EXCEPT ![name[c]] = c]
          /\ m' = "free" /\ hpc' = [hpc EXCEPT ![c] = "wait"]
  /\ UNCHANGED <<ended, lpc, found>>

\* The stream ends: the read loop closes it, and its ReadCloser blocks in the send.
StreamEnds(c) ==
  /\ hpc[c] # "accept" /\ c \notin ended
  /\ ended' = ended \cup {c}
  /\ UNCHANGED <<m, peers, hpc, lpc, found>>

\* <-end, then, under the mutex, the peer loses this connection unless it has a newer one.
Unregister(c) ==
  /\ hpc[c] = "wait" /\ c \in ended /\ m = "free"
  /\ peers' = IF peers[name[c]] = c THEN [peers EXCEPT ![name[c]] = "none"] ELSE peers
  /\ hpc' = [hpc EXCEPT ![c] = "returned"]
  /\ UNCHANGED <<m, ended, lpc, found>>

\* RoundTripper; a nil map reads as an empty one.
RoundTripper(l) ==
  /\ lpc[l] = "start" /\ m = "free"
  /\ \E k \in Names : found' = [found EXCEPT ![l] = IF peers = "nil" THEN "none" ELSE peers[k]]
  /\ lpc' = [lpc EXCEPT ![l] = "done"]
  /\ UNCHANGED <<m, peers, hpc, ended>>

ServeHTTP(c) == NewClientConn(c) \/ Lock(c) \/ Register(c) \/ Unregister(c)

Next ==
  /\ \/ \E c \in Conns : ServeHTTP(c) \/ StreamEnds(c)
     \/ \E l \in Callers : RoundTripper(l)
  /\ UNCHANGED name

Spec ==
  /\ Init /\ [][Next]_h2rAll
  /\ \A c \in Conns : WF_h2rVars(ServeHTTP(c))
  /\ \A l \in Callers : WF_h2rVars(RoundTripper(l))

-----------------------------------------------------------------------------
\* "The server maintains a list of connections, and forwards to the clients" (H2R):
\* a client connection that was made is listed, unless its stream ends.
Listed ==
  \A c \in Conns :
    (hpc[c] = "lock") ~> (c \in ended \/ (peers # "nil" /\ peers[name[c]] \in Conns))
=============================================================================
