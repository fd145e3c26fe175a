CONSTANTS
  Sizes = {1, 3, 5}
  InitialSize = 5
  Budgets <- TwoEdits
SPECIFICATION Spec
PROPERTIES MasterSurvivesShrink
