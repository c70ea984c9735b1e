CONSTANTS
  Steps = {s1, s2}
  s1 = s1
  s2 = s2
  Barriers <- MCBarriers
  Retryable = {s1}
  Purses = {3}
  Cost = 1
  Reserve = 1
  MaxTries = 2
  MaxPushes = 1
  MaxReconnects = 1
SPECIFICATION Spec
INVARIANTS TypeOK Affordable EarlyIsUncertain ReservationsAreSettled
CHECK_DEADLOCK FALSE
