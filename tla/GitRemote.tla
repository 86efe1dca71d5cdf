------------------------------ MODULE GitRemote ------------------------------
(***************************************************************************)
(* One Artifacts repository as gitflare sees it: an immutable store of     *)
(* commits and a set of branch refs that move only through receive-pack.   *)
(* The store itself is outside the repository's source; it is modelled     *)
(* from how src/src/server/git/receive-pack.ts and artifacts/client.ts use *)
(* it.                                                                     *)
(*                                                                         *)
(* Commits are numbered in the order they are created.  A commit carries   *)
(* its ancestry (itself included), which never changes once it exists, and *)
(* the content of its tree: the set of changes the tree contains, a change *)
(* being named by the commit that introduced it.                           *)
(***************************************************************************)
EXTENDS Naturals, FiniteSets

CONSTANTS
  Branches,       \* branch names of the repository
  MaxCommits,     \* bound: commits that can ever exist
  AncestryLimit   \* ANCESTRY_LIMIT: commits a history walk returns at most

ASSUME GitAssumption ==
  /\ MaxCommits \in Nat \ {0}
  /\ AncestryLimit \in Nat \ {0}

VARIABLES
  refs,       \* branch -> commit it points at, NoCommit when it does not exist
  nCommits,   \* commits created so far
  anc,        \* commit -> its ancestry, itself included
  tree        \* commit -> the changes its tree contains

gitVars == <<refs, nCommits, anc, tree>>

NoCommit == 0
CommitIds == 1 .. MaxCommits
Tips == CommitIds \cup {NoCommit}
Created == 1 .. nCommits

GitTypeOK ==
  /\ refs \in [Branches -> Tips]
  /\ nCommits \in CommitIds
  /\ anc \in [CommitIds -> SUBSET CommitIds]
  /\ tree \in [CommitIds -> SUBSET CommitIds]

\* A repository starts with one commit, and every branch was cut from it.
GitInit ==
  /\ refs = [b \in Branches |-> 1]
  /\ nCommits = 1
  /\ anc = [c \in CommitIds |-> IF c = 1 THEN {1} ELSE {}]
  /\ tree = [c \in CommitIds |-> IF c = 1 THEN {1} ELSE {}]

(***************************************************************************)
(* Reading.                                                                *)
(***************************************************************************)

\* ArtifactsClient.log with limit ANCESTRY_LIMIT: newest commits first, cut
\* off at the limit.
Log(c) ==
  {a \in anc[c] : Cardinality({b \in anc[c] : b > a}) < AncestryLimit}

\* The verdict of resolveBranches on two tips.  findMergeBase walks head's log,
\* which begins with head itself, so its answer is head exactly when head is in
\* base's log.
Mergeable(base, head) ==
  IF base = NoCommit \/ head = NoCommit THEN "unknown"
  ELSE IF base = head THEN "empty"
  ELSE IF base \in Log(head) THEN "clean"
  ELSE IF head \in Log(base) THEN "behind"
  ELSE "conflicted"

(***************************************************************************)
(* Writing.                                                                *)
(***************************************************************************)

\* Adds the commit nCommits + 1 to the store.
NewCommit(parents, changes) ==
  /\ nCommits' = nCommits + 1
  /\ anc' = [anc EXCEPT ![nCommits + 1] =
                {nCommits + 1} \cup UNION {anc[p] : p \in parents}]
  /\ tree' = [tree EXCEPT ![nCommits + 1] = changes]

\* The server's half of a ref update: it is refused unless the ref is still
\* where the client said it was.
Accepts(branch, old) == old # NoCommit /\ refs[branch] = old

(***************************************************************************)
(* A person pushing with git.                                              *)
(***************************************************************************)

\* A new commit on top of a branch.
PushCommit(branch) ==
  /\ refs[branch] # NoCommit
  /\ nCommits < MaxCommits
  /\ NewCommit({refs[branch]}, tree[refs[branch]] \cup {nCommits + 1})
  /\ refs' = [refs EXCEPT ![branch] = nCommits + 1]

\* A local merge of another branch, pushed: both histories, both contents.
PushMerge(branch, other) ==
  /\ refs[branch] # NoCommit /\ refs[other] # NoCommit
  /\ refs[other] \notin anc[refs[branch]]
  /\ nCommits < MaxCommits
  /\ NewCommit({refs[branch], refs[other]},
               tree[refs[branch]] \cup tree[refs[other]] \cup {nCommits + 1})
  /\ refs' = [refs EXCEPT ![branch] = nCommits + 1]

\* A forced push to any existing commit, or the deletion of the branch.
Rewrite(branch, target) ==
  /\ refs[branch] # target
  /\ refs' = [refs EXCEPT ![branch] = target]
  /\ UNCHANGED <<nCommits, anc, tree>>
=============================================================================
