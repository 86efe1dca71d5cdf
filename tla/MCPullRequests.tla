--------------------------- MODULE MCPullRequests ---------------------------
(* PullRequests on small instances. *)
EXTENDS PullRequests, TLC

Symmetry == Permutations(Requests)
=============================================================================
