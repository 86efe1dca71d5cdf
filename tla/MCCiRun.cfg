\* Three waves with a step that always runs, failures anywhere, a
\* cancellation and a reader, under fair scheduling.
SPECIFICATION FairSpec
CONSTANTS
  build = build
  test = test
  deploy = deploy
  report = report
  Steps <- FourSteps
  Streams <- FourSteps
  Needs <- ChainNeeds
  Always = {report}
  MaxOutput = 1
  FlushSize = 2
  MaxBuffered = 2
  Readers = {1}
  MaxReconnects = 0
  Cancels = TRUE
INVARIANTS
  SuccessMeansAllPassed
  NotifiedOnRecord
PROPERTIES
  ExecutionSpec
  RunSettles
  StreamCloses
  OutputIsStored
CHECK_DEADLOCK FALSE
