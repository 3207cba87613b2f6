CONSTANTS
  Channels = 2
  RateHz = 1500
  CapacityMs = 1
  MaxDurationMs = 2
  ScratchFrames = 1
  BufferSizes = {1, 2, 4, 6}
  MaxHeard = 5
  MaxErrors = 1
  Hosts <- LinuxHosts
SPECIFICATION CaptureSpec
CHECK_DEADLOCK FALSE
INVARIANTS
  FinalizedGapFree
  NothingReturnedIsLost
  LossIsCounted
