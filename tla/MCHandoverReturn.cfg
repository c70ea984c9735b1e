CONSTANTS
  Cells = {a, b}
  NoCell = NoCell
  MaxEpoch = 3
  MaxControl = 1
  MaxFaults = 0
SPECIFICATION Spec
PROPERTIES ReturnIsBuilt
CHECK_DEADLOCK FALSE
