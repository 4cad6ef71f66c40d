\* Three pushes, jobs that fail anywhere, an operator who does one thing.
SPECIFICATION FairSpec
CONSTANTS
  Trees <- TwoTrees
  Names <- TwoNames
  MaxPushes = 3
  MaxByHand = 1
  ReadsMayFail = FALSE
INVARIANTS
  IInv
PROPERTIES
  PromotesSmoked
  TrafficMovesAtPromotion
  ServiceNeverGoesBack
  NoNameIsDropped
  LastPushIsTried
CHECK_DEADLOCK FALSE
