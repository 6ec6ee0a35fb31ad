CONSTANTS
  Parts = {"fetch", "predictors", "caches", "state", "power"}
  FetchCores <- AllCores
  Tables <- AllTables
  Hierarchies <- AllHierarchies
  Windows <- AllWindows
  Chips <- AllChips
SPECIFICATION FairSpec
INVARIANTS TypeOK CountersMatch OnPath PredictorsSound StateIsPrecise UnitsSound PowerSound
PROPERTIES StoresKept FetchCalls ServedInOrder SetsAreLRU
CHECK_DEADLOCK FALSE
