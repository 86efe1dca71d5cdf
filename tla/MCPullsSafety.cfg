\* Three requests, two creations, pushes to both branches, no rewrites.
SPECIFICATION Spec
CONSTANTS
  Branches = {main, topic}
  Requests = {r1, r2, r3}
  MaxCommits = 5
  MaxUserCommits = 3
  AncestryLimit = 2
  MaxPulls = 2
  MaxEdits = 1
  AllowRewrites = FALSE
  Nil = Nil
INVARIANTS
  TypeOK
  LandingAddsWork
  NoDoubleLanding
  MergedIsLanded
  ReviewedHeadLands
  NumbersAreFresh
SYMMETRY Symmetry
CHECK_DEADLOCK FALSE
