CONSTANTS
  Parts = {"processes"}
  Machines <- LostMachines
  Settings <- AllSettings
SPECIFICATION FairSpec
PROPERTIES Woken
CHECK_DEADLOCK FALSE
