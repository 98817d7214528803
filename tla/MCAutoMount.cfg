SPECIFICATION Spec
CONSTANTS
  Ports = 2
  Delay = 2
  MaxTry = 5
  MaxMounts = 4
  Tested = 2
  MaxPlugs = 2
  Drives <- MCDrives
  Chained = {1}
CHECK_DEADLOCK FALSE
INVARIANTS
  EveryMountKnown
  OwnDrive
  SettledBeforeMount
  DriveFound
PROPERTIES
  Ends
