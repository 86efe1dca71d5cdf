-------------------------------- MODULE Rbac --------------------------------
(***************************************************************************)
(* Permissions on a repository: the ranks of auth/rbac.ts, how the grants  *)
(* that apply to a viewer are resolved to one of them, and what            *)
(* db/repos.ts answers to a request that needs a rank.                     *)
(***************************************************************************)
EXTENDS Naturals

None == 0
Read == 1
Triage == 2
Write == 3
Maintain == 4
Admin == 5
Permission == None .. Admin

AtLeast(actual, required) == actual >= required

MutantHighest(grants) ==
  IF grants = {} THEN None ELSE CHOOSE p \in grants : \A q \in grants : AtLeast(q, p)

Highest(grants) ==
  CHOOSE p \in grants \cup {None} : \A q \in grants \cup {None} : AtLeast(p, q)

\* in: what findRepoForViewer found of the viewer and of the repository.
PermissionInputs ==
  [signedIn : BOOLEAN, siteAdmin : BOOLEAN, ownsIt : BOOLEAN, public : BOOLEAN,
   archived : BOOLEAN, orgRole : {"none", "member", "owner"}, grants : SUBSET Permission]

Gather(in) ==
  IF in.siteAdmin \/ in.ownsIt \/ in.orgRole = "owner"
  THEN Admin
  ELSE Highest((IF in.public THEN {Read} ELSE {})
                 \cup (IF in.signedIn THEN in.grants ELSE {}))

CanWrite(in) == ~in.archived /\ AtLeast(Gather(in), Write)

\* requireRepo.
Answer(in, required) ==
  CASE Gather(in) = None -> "not_found"
    [] Gather(in) # None /\ ~AtLeast(Gather(in), required) -> "permission_denied"
    [] Gather(in) # None /\ AtLeast(Gather(in), required) /\ AtLeast(required, Write) /\ ~CanWrite(in)
         -> "failed_precondition"
    [] OTHER -> "found"
=============================================================================
