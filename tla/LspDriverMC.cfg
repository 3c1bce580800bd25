CONSTANTS
  main = main
  util = util
  Files <- MCFiles
  Uses <- MCUses
  Cap = 2
  MaxVersion = 2
SPECIFICATION Spec
INVARIANTS
  QuietMeansCurrent
  GraphMirrors
PROPERTIES
  VersionsNeverGoBack
  ServerSettles
CHECK_DEADLOCK FALSE
