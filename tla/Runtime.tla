------------------------------ MODULE Runtime ------------------------------
(***************************************************************************)
(* What the components of one application process share: the operations   *)
(* that execute and the clock they read with time.Now().                  *)
(***************************************************************************)
EXTENDS Integers

CONSTANTS
    Ops,       \* operations
    NoOp,      \* no operation
    MaxTime    \* bound on the clock

ASSUME OpsAssumption == NoOp \notin Ops
ASSUME MaxTimeAssumption == MaxTime \in Nat

VARIABLE now

Instants == 0..MaxTime

\* An instant that lies in the future, within the model's clock.
Capped(t) == IF t > MaxTime THEN MaxTime ELSE t

Tick ==
    /\ now < MaxTime
    /\ now' = now + 1
=============================================================================
