\* What is pushed to base while the pull request page is open is merged over.
SPECIFICATION ShownSpec
CONSTANTS
  Branches = {main, topic}
  Requests = {r1, r2}
  MaxCommits = 5
  MaxUserCommits = 3
  AncestryLimit = 5
  MaxPulls = 1
  MaxEdits = 2
  AllowRewrites = FALSE
  Nil = Nil
INVARIANT LandingKeepsContent
SYMMETRY Symmetry
CHECK_DEADLOCK FALSE
