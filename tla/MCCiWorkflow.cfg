\* Two attempts at recording a run and one replay of a later step, another commit,
\* CI turned off and a cancellation, under an engine that keeps going.
SPECIFICATION FairSpec
CONSTANTS
  build = build
  test = test
  lint = lint
  Names <- Three
  Plans <- SomePlans
  Attempts = {a1, a2}
  MaxReplays = 1
  MaxOthers = 1
  Cancels = TRUE
  Nil = nil
INVARIANTS
  WorkflowTypeOK
  SortIsRight
  WavesAreRight
  OneRunPerInstance
PROPERTIES
  ExecutionSpec
  PlanningEnds
  RunsSettle
CHECK_DEADLOCK FALSE
