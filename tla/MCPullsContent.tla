--------------------------- MODULE MCPullsContent ---------------------------
(***************************************************************************)
(* PullRequests with one more history variable, which no action reads: how *)
(* many commits there were when a merge was asked for, and its page shown. *)
(***************************************************************************)
EXTENDS MCPullRequests

VARIABLE shown  \* history: request -> commits made before its merge was asked for

ShownInit == Init /\ shown = [r \in Requests |-> 0]

AsksToMerge(r) == At(r, "idle") /\ req'[r].kind = "merge"

ShownNext ==
  /\ Next
  /\ shown' = [r \in Requests |-> IF AsksToMerge(r) THEN nCommits ELSE shown[r]]

ShownSpec == ShownInit /\ [][ShownNext]_<<vars, shown>>

\* receive-pack.ts:62: the compare-and-swap "is what stops a merge from silently
\* clobbering a push that landed while the pull request page was open".  So what was
\* pushed to base after the page named its head, and before the merge moved base, is
\* in base's tree afterwards.  What base had gained before the page was shown is left
\* out: pull.ts:629 says that head's tree is taken over it.
LandingKeepsContent ==
  \A l \in landings :
    LET pushedMeanwhile == tree[l.old] \ (1 .. shown[l.by])
    IN  req[l.by].expected # NoCommit => pushedMeanwhile \subseteq tree[l.new]
=============================================================================
