CONSTANTS
  Workers = {w1, w2}
  Modes = {"Toggle", "PushToTalk"}
  Controls = {"shortcut"}
  Environments = {"x11"}
  MaxSession = 3
  MaxEvents = 3
SPECIFICATION FairSpec
CHECK_DEADLOCK FALSE
INVARIANTS
  RecordingHasControl
PROPERTIES
  QueuedStopApplied
  CoordinatorSettles
  PressingStops
