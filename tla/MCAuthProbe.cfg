SPECIFICATION FairSpec
CONSTANTS
  Configs  <- MCConfigs
  Calls    <- MCCalls
  MaxFlips = 1
  Free     = Free
INVARIANTS
  IInv
  VerdictForeseesDispatch
  ReportIsTrue
PROPERTIES
  EveryTaskEnds
CHECK_DEADLOCK FALSE
