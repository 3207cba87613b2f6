SPECIFICATION Spec
CONSTANTS
  None = "none"
  Owners = {"o1", "o2"}
  Environments = {"windows", "x11", "wayland", "unknown"}
  Keycodes = {1, 2, 3, 4, 5}
  Modifiers = {1}
  UserKeys = {2}
  ChangedKeys = {5}
  Devices = {"text"}
  TextDevices = {"text"}
  MaxEvents = 4
  Texts <- MCTexts
  MaxCrashes = 1
CHECK_DEADLOCK FALSE
INVARIANTS
  TypedAsReported
  KeymapRestored
  ReceiptHonoured
PROPERTIES
  CallReturns
