------------------------ MODULE MCStatePersistence ------------------------
(* Instances of StatePersistence for TLC. *)
EXTENDS StatePersistence

CONSTANTS a, b, t, p1

(* Commits change one component each; one of them is transient. *)
MCChanges == {{a}, {b}, {t}}
=============================================================================
