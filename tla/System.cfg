CONSTANTS
  Parts = {"processes", "files"}
  Machines <- AllMachines
  Settings <- AllSettings
SPECIFICATION FairSpec
INVARIANTS TypeOK PlacesAgree Families HostFiles
PROPERTIES WokenInPlace HostClosing
CHECK_DEADLOCK FALSE
