SPECIFICATION Spec
CONSTANTS
  w1 = w1
  w2 = w2
  Workers = {w1, w2}
  m1 = m1
  m2 = m2
  Models = {m1, m2}
  Devices = {"d1"}
  Languages = {"auto"}
  None = None
  Partial = Partial
  Platforms = {"posix", "windows"}
  MaxCommands = 4
  MaxCrashes = 1
SYMMETRY MCSymmetry
CHECK_DEADLOCK FALSE
INVARIANTS
  ModelsTypeOK
  InstalledIsValidated
  SettingsDurable
  SettingsAsTold
  RecognizerFresh
