CONSTANTS
  Cells = {a, b}
  NoCell = NoCell
  MaxEpoch = 3
  MaxControl = 2
  MaxFaults = 2
SPECIFICATION Spec
INVARIANTS TypeOK OneRuntime CooldownFollowsAccount AcknowledgedStopHolds
PROPERTIES ControlNeverRegresses ImplementsSingleOwner HandoversFinish
CHECK_DEADLOCK FALSE
