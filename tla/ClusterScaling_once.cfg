SPECIFICATION FairSpec
CONSTANTS
  Sizes = {1, 2, 3, 4}
  InitialSize = 3
  Patient = FALSE
  MaxEdits = 1
  MaxOutages = 0
  MaxKills = 2
  MaxUpdates = 40
  MaxStale = 1
INVARIANTS
  TypeOK
  IndexInRange
PROPERTIES
  MasterSurvivesShrink
  KeepsVolumes
  Settles
