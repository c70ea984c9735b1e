CONSTANTS
  MaxRuns = 2
  MaxFrames = 2
  StatusBuffer = 2
  FrameBuffer = 1
  PauseAt = 1
  ResumeBelow = 1
  MaxEvents = 3
  IngestLimit = 1
SPECIFICATION Spec
INVARIANTS FramesInOrder CurrentFramesAreAccepted
PROPERTIES FramesAreSettled SessionFollowsTransport
CHECK_DEADLOCK FALSE
