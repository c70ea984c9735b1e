---------------------------- MODULE SingleOwner ----------------------------
(***************************************************************************)
(* What the handover protocol of Server/Accounts promises about one hosted *)
(* account: at any time at most one cell holds a runtime of it, the        *)
(* generations (placement epochs) that run only grow, and one generation   *)
(* never runs on two cells.                                                *)
(***************************************************************************)
EXTENDS Naturals

CONSTANTS
  Cells,   \* worker cells
  NoCell   \* none of them

VARIABLES
  runner,      \* the cell whose supervisor holds a runtime, or NoCell
  generation,  \* the placement epoch of the last runtime that was started
  home         \* the cell it was started on

vars == <<runner, generation, home>>

Init == runner = NoCell /\ generation = 0 /\ home = NoCell

\* A cell builds the account's runtime for a placement epoch.
Start(c) ==
  /\ runner = NoCell
  /\ generation' \in Nat \ {0} /\ generation' >= generation
  /\ generation' = generation => c = home
  /\ runner' = c /\ home' = c

\* The runtime is gone: it finished stopping, or its process died.
Stop ==
  /\ runner # NoCell
  /\ runner' = NoCell
  /\ UNCHANGED <<generation, home>>

Next == Stop \/ \E c \in Cells : Start(c)

Spec == Init /\ [][Next]_vars
=============================================================================
