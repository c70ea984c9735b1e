CONSTANTS
  Ids = {i1}
  Contents = {c1, c2}
  MaxVersions = 2
  MaxFaults = 1
SPECIFICATION Spec
INVARIANTS ExecutionsAreOwn
PROPERTIES DueIsExecutedAlone
CHECK_DEADLOCK FALSE
