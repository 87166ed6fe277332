SPECIFICATION Spec
CONSTANTS
  MAX_TAXA = 6
  Scale = 48
  Most3 = 2
  Most4 = 3
  INPUT_MAX = 2
  NoOutlier = NoOutlier
  Texts <- MCTexts
  Outliers <- MCOutliers
CHECK_DEADLOCK FALSE
INVARIANTS
  
  EveryPairIsConsidered
  MinimumIsFound
  ActiveNodesAreRoots
  TreeIsBuilt
  AdditiveTreeIsFound
  NewickNamesAll
