\* Half a cent to the grain: ties everywhere.
SPECIFICATION Spec
CONSTANTS
  Contracts <- ManyLoans
  Grains = 2
  LastMonth <- LastMonthOfYear3
  MaxFigure = 50000000
INVARIANTS
  IInv
  InterestFoots
  StatementCloses
  ResidualIsBounded
  SplitsFoot
  SplitsRollForward
  UnexpiredIsNextYears
  PaymentsAsAgreed
CHECK_DEADLOCK FALSE
