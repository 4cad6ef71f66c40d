\* The contracts of the schedule run.
SPECIFICATION Spec
CONSTANTS
  Contracts <- ManyLoans
  Grains = 2
  LastMonth <- LastMonthOfYear3
  MaxFigure = 50000000
INVARIANTS
  OutputsAreCents
CHECK_DEADLOCK FALSE
