------------------------ MODULE MCSessionController ------------------------
(***************************************************************************)
(* Small instances of SessionController.                                   *)
(***************************************************************************)
EXTENDS SessionController

=============================================================================
