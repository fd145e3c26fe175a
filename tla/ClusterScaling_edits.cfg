SPECIFICATION Spec
CONSTANTS
  Sizes = {1, 2}
  InitialSize = 2
  Patient = FALSE
  MaxEdits = 2
  MaxOutages = 1
  MaxKills = 0
  MaxUpdates = 9
  MaxStale = 1
INVARIANTS
  TopoPairs
PROPERTIES
  KeepsVolumes
  UserOwnsReplicas
  VersionNeverFalls
CHECK_DEADLOCK FALSE
