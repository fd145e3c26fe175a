CONSTANTS
  Sizes = {2}
  InitialSize = 2
  Budgets <- OneEviction
SPECIFICATION FairSpec
PROPERTIES RecoversFromPodLoss
