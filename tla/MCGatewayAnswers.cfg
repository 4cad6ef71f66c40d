\* One request, every calculator, every answer: the error mapper and the tails
\* of the routes.
SPECIFICATION Spec
CONSTANTS
  Requests = {r1}
  Kinds <- AllKinds
  Answers <- AllAnswers
  CloudRun = {}
  Free = Free
INVARIANTS
  CallerBlamedJustly
  CallerFaultReachesCaller
  SuccessIsBacked
  RefusalsAreScrubbed
CHECK_DEADLOCK FALSE
