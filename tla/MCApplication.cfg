SPECIFICATION AppSpec
CONSTANTS
  Client = {c1, c2}
  MaxRest = 1
  MaxChunks = 2
  Pads = {1, 2}
  ListMax = 1
  Repeat = 2
  Lists = {0, 1, 4}
INVARIANTS
  UsedOnce
  MenuShowsWholeList
  UnmountedWhileRunning
  SelectedShown
PROPERTIES
  StoredWhole
  NextConnectionStops
  EachMenuFresh
  BootReachesMenu
  OneMountPerPress
CHECK_DEADLOCK FALSE
