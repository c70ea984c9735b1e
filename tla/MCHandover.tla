---------------------------- MODULE MCHandover ----------------------------
(***************************************************************************)
(* Handover for TLC.                                                       *)
(***************************************************************************)
EXTENDS Handover
=============================================================================
