-------------------------- MODULE MCOutboundRouter --------------------------
(***************************************************************************)
(* Small instances of OutboundRouter.                                      *)
(***************************************************************************)
EXTENDS OutboundRouter

CONSTANTS a1, a2, c1

\* Two attack launches share a paced lane: the second has the higher priority
\* and a deadline.  The ordinary command has its own lane.
MCLane(c) == IF c = c1 THEN "command" ELSE "attack"
MCPriority(c) == IF c = a2 THEN MaxPriority ELSE 1
MCDeadlineRank(c) == IF c = a2 THEN 1 ELSE NoDeadline
=============================================================================
