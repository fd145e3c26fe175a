SPECIFICATION FairSpec
CONSTANTS
  Sizes = {1, 3}
  InitialSize = 3
  Patient = TRUE
  MaxEdits = 2
  MaxOutages = 0
  MaxKills = 0
  MaxUpdates = 40
  MaxStale = 0
PROPERTIES
  Settles
