---------------------------- MODULE MCExecution ----------------------------
(***************************************************************************)
(* A small instance of Execution.                                          *)
(***************************************************************************)
EXTENDS Execution

CONSTANTS a1, a2, w1, class, lane

\* Two attack launches of one automation: the second is lighter and has a
\* deadline.
MCRequest ==
    [o \in Ops |-> [class |-> class, tier |-> 1, deadline |-> IF o = a2 THEN 2 ELSE 0,
                    weight |-> IF o = a2 THEN 1 ELSE 2, priority |-> 1]]
MCLane == [o \in Ops |-> lane]
MCTarget == [a \in Awaiters |-> a1]
=============================================================================
