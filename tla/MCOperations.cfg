CONSTANTS
  Submitters = {s1, s2}
  Readers = {}
  Ids = {i1, i2}
  Bodies = {b1, b2}
  Steps = 2
  MemoryLimit = 2
  HistoryLimit = 1
  MaxDispatches = 2
  MaxCrashes = 1
SPECIFICATION Spec
INVARIANTS TypeOK AtMostOnce WriteAhead RowsAreTruthful DrainedIsIdle
SYMMETRY SubmitterSymmetry
