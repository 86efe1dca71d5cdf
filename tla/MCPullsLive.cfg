\* Handlers keep running: every request ends and every landing is recorded, with
\* force-pushes and deleted branches as well; and the service is a merge log.
SPECIFICATION FairSpec
CONSTANTS
  Branches = {main, topic}
  Requests = {r1, r2}
  MaxCommits = 5
  MaxUserCommits = 2
  AncestryLimit = 2
  MaxPulls = 1
  MaxEdits = 2
  AllowRewrites = TRUE
  Nil = Nil
PROPERTIES
  MergeLogSpec
  LandedIsRecorded
  RequestsEnd
CHECK_DEADLOCK FALSE
