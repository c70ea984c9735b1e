CONSTANTS
  Submitters = {s1}
  Readers = {r1}
  Ids = {i1, i2}
  Bodies = {b1}
  Steps = 1
  MemoryLimit = 1
  HistoryLimit = 2
  MaxDispatches = 2
  MaxCrashes = 0
SPECIFICATION Spec
PROPERTIES AtMostOnceUnlessCrossed
