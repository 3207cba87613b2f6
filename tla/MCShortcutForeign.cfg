CONSTANTS
  Workers = {w1, w2}
  Modes = {"Toggle"}
  Controls = {"shortcut", "page"}
  Environments = {"x11"}
  MaxSession = 2
  MaxEvents = 3
SPECIFICATION Spec
SYMMETRY WorkerSymmetry
INVARIANTS
  RecordingHasControl
