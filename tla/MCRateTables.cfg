\* Two requests while the tree is edited.
SPECIFICATION Spec
CONSTANTS
  benchmark = benchmark
  statutory = statutory
  now = now
  before = before
  garbage = garbage
  fy2026 = fy2026
  r1 = r1
  r2 = r2
  Periods = {fy2026}
  RateIds <- TwoTables
  InOrder <- TableOrder
  Bodies = {now, before, garbage}
  NotUtf8 = {garbage}
  BadYaml = {}
  Trees <- SomeTrees
  Maintained <- OurRoot
  Requests = {r1, r2}
  Kinds <- SomeKinds
  Rounded = {"fbt", "div7a"}
  MaxEdits = 1
  BenchmarkInterest = benchmark
SYMMETRY Symmetric
INVARIANTS
  IInv
  PublishedHashWasLive
  CitationsVerify
  QuietAnswerIsExact
  BareErrorHasCause
  AdvisoryFitsManifest
PROPERTIES
  RoundingOnceKnown
CHECK_DEADLOCK FALSE
