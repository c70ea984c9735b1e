-------------------------- MODULE MCStepExecution --------------------------
(***************************************************************************)
(* A small instance of StepExecution.                                      *)
(***************************************************************************)
EXTENDS StepExecution

CONSTANTS s1, s2

\* One step that may be retried and is answered on the wire, one that awaits
\* nothing or awaits both; the wait for the commit alone is the second half of
\* both.
MCBarriers(s) == IF s = s1 THEN {"wire"} ELSE {"none", "wireThenCommitted"}
=============================================================================
