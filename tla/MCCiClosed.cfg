\* A stream closes on the row's status before the last output is written.
SPECIFICATION Spec
CONSTANTS
  build = build
  test = test
  deploy = deploy
  report = report
  Steps <- TwoSteps
  Streams <- TwoSteps
  Needs <- NoNeeds
  Always = {}
  MaxOutput = 2
  FlushSize = 2
  MaxBuffered = 4
  Readers = {1}
  MaxReconnects = 0
  Cancels = FALSE
INVARIANTS
  ClosedStreamIsComplete
CHECK_DEADLOCK FALSE
