CONSTANTS
  Sizes = {1, 2, 3, 4}
  InitialSize = 3
  Budgets <- ResizeOrFailover
SPECIFICATION FairSpec
INVARIANTS TypeOK
PROPERTIES NoSecondMaster MasterSurvivesShrink KeepsVolumes Settles
