CONSTANTS
  a = a
  b = b
  t = t
  p1 = p1
  NoCaller = NoCaller
  Components = {a, b}
  Transient = t
  Changes <- MCChanges
  Callers = {p1}
  Buffer = 2
  MaxRevision = 3
  MaxFaults = 2
SPECIFICATION Spec
INVARIANTS AcknowledgedUnlessSkipped RecoveryIsAGeneration
PROPERTIES EverythingReachesDisk SavesReturn
CHECK_DEADLOCK FALSE
