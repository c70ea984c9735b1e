CONSTANTS
  a = a
  b = b
  t = t
  p1 = p1
  NoCaller = NoCaller
  Components = {a, b}
  Transient = t
  Changes <- MCChanges
  Callers = {p1}
  Buffer = 2
  MaxRevision = 3
  MaxFaults = 0
SPECIFICATION Spec
INVARIANTS AcknowledgedIsDurable
CHECK_DEADLOCK FALSE
