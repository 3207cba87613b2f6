CONSTANTS
  Workers = {w1, w2}
  Modes = {"Toggle", "PushToTalk"}
  Controls = {"shortcut", "page"}
  Environments = {"x11", "wayland", "unknown"}
  MaxSession = 2
  MaxEvents = 3
SPECIFICATION Spec
SYMMETRY WorkerSymmetry
INVARIANTS
  CoordinatorTracksTask
CHECK_DEADLOCK FALSE
