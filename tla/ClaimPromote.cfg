\* One step by hand beside the jobs.
SPECIFICATION FairSpec
CONSTANTS
  Trees <- TwoTrees
  Names <- TwoNames
  MaxPushes = 2
  MaxByHand = 1
  ReadsMayFail = FALSE
PROPERTIES
  OnlySmokedIsPromoted
CHECK_DEADLOCK FALSE
