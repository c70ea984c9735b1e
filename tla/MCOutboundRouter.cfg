CONSTANTS
  a1 = a1
  a2 = a2
  c1 = c1
  Commands = {a1, a2}
  Lane <- MCLane
  Priority <- MCPriority
  DeadlineRank <- MCDeadlineRank
  MaxPriority = 2
  MaxQueued = 1
  Cancellable = {a1}
  MayReset = TRUE
  PacedLanes = {"attack"}
  MayShutDown = TRUE
SPECIFICATION Spec
INVARIANTS OutcomeTellsTheWire
PROPERTIES PacedSends EverySendReturns
CHECK_DEADLOCK FALSE
