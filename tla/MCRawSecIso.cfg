SPECIFICATION Spec
CONSTANTS
  DiscTypes = {1}
INVARIANTS
  UsesWhatItOwns
  ExitReleasesAll
  RealDiscBack
  UnloadedWhenQuiet
PROPERTIES
  StopCompletes
  ImplementsProxiedDisc
