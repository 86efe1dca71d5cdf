------------------------------ MODULE MCForge ------------------------------
(***************************************************************************)
(* The services that share D1 but no protocol, each checked on a small     *)
(* instance of its own: a behaviour is one of one part, and the others     *)
(* stay where they begin, so that the states are the sum of theirs.        *)
(***************************************************************************)
EXTENDS Orgs, Issues, Feed, Repos, Wiki, Releases, Accounts, Diff, TLC

CONSTANTS
  Parts,                       \* the parts to check
  Users, Calls, Things,        \* sets that may be permuted
  alice, bob, carol, mail, shared, name

VARIABLE part

\* Two identities have one email, and all emails give one login name.
Emails == alice :> mail @@ bob :> shared @@ carol :> shared
LoginNameOf == mail :> name @@ shared :> name

\* A part that is not checked has one initial state.  What labels and locks do to a
\* pull, or to an issue with comments, they do to any issue, and one may be locked later.
ForgeInit ==
  /\ part \in Parts
  /\ OrgsInit /\ (part = "orgs" \/ org = "none")
  /\ IssuesInit /\ (part = "issues" \/ (issue.life = "none" /\ labels = {} /\ milestone = "none"))
  /\ issue.pull => ~issue.locked
  /\ issue.pull \/ issue.locked \/ comments # {} => labels = {}
  /\ FeedInit /\ (part = "feed" \/ (visibility = "public" /\ order = "newest" /\ ~reader.admitted /\ nextEntry = 1))
  /\ ReposInit /\ WikiInit /\ (part = "wiki" \/ wikiStore = "none") /\ ReleasesInit
  /\ AccountsInit /\ (part = "accounts" \/ ~accessConfigured)
  /\ (part = "diff" \/ (oldLines = <<>> /\ newLines = <<>> /\ context = 1)) /\ DiffInit

ForgeNext ==
  \/ /\ part = "orgs" /\ OrgsNext
     /\ UNCHANGED <<part, issuesVars, feedVars, reposVars, wikiVars, releasesVars, accountsVars, diffVars>>
  \/ /\ part = "issues" /\ IssuesNext
     /\ UNCHANGED <<part, orgsVars, feedVars, reposVars, wikiVars, releasesVars, accountsVars, diffVars>>
  \/ /\ part = "feed" /\ FeedNext
     /\ UNCHANGED <<part, orgsVars, issuesVars, reposVars, wikiVars, releasesVars, accountsVars, diffVars>>
  \/ /\ part = "repos" /\ ReposNext
     /\ UNCHANGED <<part, orgsVars, issuesVars, feedVars, wikiVars, releasesVars, accountsVars, diffVars>>
  \/ /\ part = "wiki" /\ WikiNext
     /\ UNCHANGED <<part, orgsVars, issuesVars, feedVars, reposVars, releasesVars, accountsVars, diffVars>>
  \/ /\ part = "releases" /\ ReleasesNext
     /\ UNCHANGED <<part, orgsVars, issuesVars, feedVars, reposVars, wikiVars, accountsVars, diffVars>>
  \/ /\ part = "accounts" /\ AccountsNext
     /\ UNCHANGED <<part, orgsVars, issuesVars, feedVars, reposVars, wikiVars, releasesVars, diffVars>>
  \/ /\ part = "diff" /\ DiffNext
     /\ UNCHANGED <<part, orgsVars, issuesVars, feedVars, reposVars, wikiVars, releasesVars, accountsVars>>

ForgeSpec ==
  ForgeInit /\ [][ForgeNext]_<<part, orgsVars, issuesVars, feedVars, reposVars,
                               wikiVars, releasesVars, accountsVars, diffVars>>

Symmetry == Permutations(Users) \cup Permutations(Calls) \cup Permutations(Things)

\* The part that is checked keeps its types.
ForgeTypeOK ==
  CASE part = "orgs" -> OrgsTypeOK
    [] part = "issues" -> IssuesTypeOK
    [] part = "feed" -> FeedTypeOK
    [] part = "repos" -> ReposTypeOK
    [] part = "wiki" -> WikiTypeOK
    [] part = "releases" -> ReleasesTypeOK
    [] part = "accounts" -> AccountsTypeOK
    [] part = "diff" -> DiffTypeOK
=============================================================================
