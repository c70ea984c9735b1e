CONSTANTS
  Callers = {c1, c2, c3}
  Requests <- MixedRequests
  Priorities = {1, 2}
  Deadlines = {0, 1}
  MaxPriority = 2
SPECIFICATION Spec
INVARIANTS TypeOK WorkIsExclusive NoLostWakeup
PROPERTIES NoOvertakingAtCap FairWithoutDeadlines
