\* A describe may fail.
SPECIFICATION FairSpec
CONSTANTS
  Trees <- TwoTrees
  Names <- TwoNames
  MaxPushes = 2
  MaxByHand = 0
  ReadsMayFail = TRUE
PROPERTIES
  NoNameIsDropped
CHECK_DEADLOCK FALSE
