\* An update that read the row before the merge writes it after.
SPECIFICATION Spec
CONSTANTS
  Branches = {main, topic}
  Requests = {r1, r2, r3}
  MaxCommits = 3
  MaxUserCommits = 2
  AncestryLimit = 3
  MaxPulls = 1
  MaxEdits = 2
  AllowRewrites = FALSE
  Nil = Nil
INVARIANT MergedIsClosed
SYMMETRY Symmetry
CHECK_DEADLOCK FALSE
