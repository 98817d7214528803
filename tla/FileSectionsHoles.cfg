SPECIFICATION Spec
CONSTANTS
  SectorSize = 2
  ClusterSize = 4
  Word = 64
  Hole <- MCHole
  Max = 3
  MaxTracks = 2
  MountLists <- MCMountLists
INVARIANTS
  HolesAreZero
