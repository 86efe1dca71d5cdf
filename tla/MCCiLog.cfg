\* Two steps printing at once, a trimmed log, readers that come back.
SPECIFICATION Spec
CONSTANTS
  build = build
  test = test
  deploy = deploy
  report = report
  Steps <- TwoSteps
  Streams <- TwoSteps
  Needs <- NoNeeds
  Always = {}
  MaxOutput = 4
  FlushSize = 2
  MaxBuffered = 2
  Readers = {1}
  MaxReconnects = 1
  Cancels = FALSE
SYMMETRY Symmetric
INVARIANTS
  TypeOK
  NoSilentGap
PROPERTY OutputLogSpec
CHECK_DEADLOCK FALSE
