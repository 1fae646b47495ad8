---------------------------- MODULE MCRecvBuffer ----------------------------
(***************************************************************************)
(* Instances of RecvBuffer for TLC.                                        *)
(***************************************************************************)
EXTENDS RecvBuffer
=============================================================================
