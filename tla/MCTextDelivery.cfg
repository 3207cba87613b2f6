SPECIFICATION Spec
CONSTANTS
  Owners = {"o1", "o2"}
  Processes = {"main", "other"}
  Main = "main"
  SchemaVersion = 1
  MaxCrashes = 1
CHECK_DEADLOCK FALSE
INVARIANTS
  TextAccountedFor
  HistoryTellsOutcome
  StoreUsable
PROPERTIES
  DeletesWhatWasShown
  NewerFileKept
  FinishReturns
