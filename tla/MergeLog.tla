------------------------------ MODULE MergeLog ------------------------------
(***************************************************************************)
(* What the pull request service promises of a git repository, with no     *)
(* request, row or database in sight: commits are never altered, and a     *)
(* merge does one thing, which is to move one branch from where it is now  *)
(* to a descendant that brings in a commit the branch did not have, as far *)
(* back as a walk of its history goes.                                     *)
(***************************************************************************)
EXTENDS Naturals, FiniteSets

CONSTANT WalkLimit   \* how many commits, newest first, a walk sees

VARIABLES
  refs,      \* branch -> tip
  anc,       \* commit -> its ancestry, empty until the commit exists
  landings   \* every move of a branch made by a merge

vars == <<refs, anc, landings>>

Init == landings = {}

\* Commits may be added; those that exist keep their ancestry.
CommitsKept ==
  /\ DOMAIN anc' = DOMAIN anc
  /\ \A c \in DOMAIN anc : anc[c] # {} => anc'[c] = anc[c]

\* The newest commits of a history.
Newest(history) ==
  {a \in history : Cardinality({b \in history : b > a}) < WalkLimit}

\* Anything people do with git.
Push == CommitsKept /\ UNCHANGED landings

Land ==
  /\ CommitsKept
  /\ \E l \in landings' :
       /\ landings' = landings \cup {l}
       /\ l.branch \in DOMAIN refs
       /\ l.old = refs[l.branch]
       /\ refs' = [refs EXCEPT ![l.branch] = l.new]
       /\ l.old \in anc'[l.new]
       /\ l.head \in anc'[l.new]
       /\ l.head \notin Newest(anc'[l.old])

Next == Push \/ Land

Spec == Init /\ [][Next]_vars
=============================================================================
