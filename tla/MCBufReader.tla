---------------------------- MODULE MCBufReader ----------------------------
(***************************************************************************)
(* Instances of BufReader for TLC.                                         *)
(***************************************************************************)
EXTENDS BufReader
=============================================================================
