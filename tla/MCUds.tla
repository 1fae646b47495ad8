------------------------------- MODULE MCUds -------------------------------
(***************************************************************************)
(* Instances of Uds for TLC.                                               *)
(***************************************************************************)
EXTENDS Uds

\* One connection with frames that fit the buffer, and one that does not.
Framing == [conns |-> 1, lens |-> {1, 4, 7}, frames |-> 3, cut |-> TRUE, sends |-> 0]

\* Two connections with a frame or two, and a message to them.
Table == [conns |-> 2, lens |-> {1}, frames |-> 2, cut |-> FALSE, sends |-> 1]

\* One frame that passes the check of its length but does not fit with its header.
Edge == [conns |-> 1, lens |-> {5, 6}, frames |-> 1, cut |-> TRUE, sends |-> 0]

MCLoads == {Framing, Table, Edge}
=============================================================================
