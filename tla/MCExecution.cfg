CONSTANTS
  a1 = a1
  a2 = a2
  w1 = w1
  class = class
  lane = lane
  Ops = {a1, a2}
  NoOp = NoOp
  Classes = {class}
  NoClass = NoClass
  Request <- MCRequest
  AgingTicks = 1
  MaxBonus = 2
  Lanes = {lane}
  NoLane = NoLane
  Lane <- MCLane
  LockTicks = 1
  Awaiters = {w1}
  Target <- MCTarget
  Buffer = 1
  PaceTicks = 1
  Cancellable = {a2}
  MaxTurns = 1
  MaxTime = 1
SPECIFICATION Spec
INVARIANTS SlotsAreSound NoSendBehindOwnClass LockOutlivesRestart AwaitMissesNothing
PROPERTIES AwaitsReturn
CHECK_DEADLOCK FALSE
