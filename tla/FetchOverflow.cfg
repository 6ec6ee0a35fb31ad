CONSTANTS
  Parts = {"fetch"}
  FetchCores <- OddCores
  Tables <- AllTables
  Hierarchies <- AllHierarchies
  Windows <- AllWindows
  Chips <- AllChips
SPECIFICATION Spec
PROPERTIES NoOverwrite
CHECK_DEADLOCK FALSE
