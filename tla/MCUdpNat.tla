------------------------------ MODULE MCUdpNat ------------------------------
(***************************************************************************)
(* Instances of UdpNat for TLC.                                            *)
(***************************************************************************)
EXTENDS UdpNat
=============================================================================
