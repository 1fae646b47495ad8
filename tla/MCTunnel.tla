------------------------------ MODULE MCTunnel ------------------------------
(***************************************************************************)
(* Instances of Tunnel, with the Proxy it ends in, for TLC.                *)
(***************************************************************************)
EXTENDS TunnelStreams
=============================================================================
