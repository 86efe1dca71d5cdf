\* Two hooks and an event, two attempts and one retry of the queue, one call of the
\* handler at a time, and any two troubles, under a queue that keeps delivering.
SPECIFICATION FairSpec
CONSTANTS
  Hooks = {h1, h2}
  Events = {e1}
  MaxAttempts = 2
  MaxRetries = 1
  BatchSize = 2
  MaxBatches = 1
  MaxTrouble = 2
INVARIANTS
  TypeOK
  NothingLost
PROPERTIES
  RepeatsHaveACause
  QueueDrains
CHECK_DEADLOCK FALSE
