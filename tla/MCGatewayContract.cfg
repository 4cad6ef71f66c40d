\* Two requests under fairness: the gateway implements its contract, each
\* request is answered, and the invariant of the proofs holds.
SPECIFICATION FairSpec
CONSTANTS
  Requests = {r1, r2}
  Kinds <- SomeKinds
  Answers <- SomeAnswers
  CloudRun = {"fbt"}
  Free = Free
INVARIANTS
  IInv
  TokenDiscipline
  AuthFaultsPartition
PROPERTIES
  ImplementsContract
  EveryRequestAnswered
CHECK_DEADLOCK FALSE
