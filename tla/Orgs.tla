-------------------------------- MODULE Orgs --------------------------------
(***************************************************************************)
(* An organisation: its members, a team with what it reaches of one        *)
(* repository, the handlers of services/org.ts that change their rows, and *)
(* a viewer whose permission on the repository db/repos.ts resolves with   *)
(* queries that run side by side.                                          *)
(*                                                                         *)
(* A handler reads and writes D1 one statement at a time, so calls         *)
(* interleave between any two statements.  Logins, names and descriptions  *)
(* are left out: one organisation, one team, one repository.               *)
(***************************************************************************)
EXTENDS Rbac, FiniteSets

CONSTANTS
  Members,      \* users who may come to belong to the organisation
  SiteAdmins,   \* those of them who administer the site
  OrgCalls,     \* calls of its handlers that may be in progress at once
  TeamRanks,    \* the permissions teams are given in the instance
  MaxOrgCalls   \* bound: calls and visits started

ASSUME OrgsAssumption ==
  /\ IsFiniteSet(Members)
  /\ SiteAdmins \subseteq Members
  /\ TeamRanks \subseteq Read .. Admin
  /\ MaxOrgCalls \in Nat

VARIABLES
  org,        \* its row in owners: not yet there, there, deleted
  orgRole,    \* org_members
  team,       \* teams: the row of the team
  teamMembers, teamRepo,  \* team_members, and whether team_repos has the repository
  orgRepo,    \* the repository, in the organisation or not (any more)
  orgCall,    \* OrgCalls -> what the call does, and where it stands
  orgStarted, \* calls and visits started so far
  visit,      \* a viewer's resolveAccess
  held        \* history: grants of that viewer that held all along, and at some time

orgTables == <<org, orgRole, team, teamMembers, teamRepo, orgRepo>>
orgsVars == <<org, orgRole, team, teamMembers, teamRepo, orgRepo,
              orgCall, orgStarted, visit, held>>

Roles == {"none", "member", "owner"}
OrgOps == {"createOrg", "deleteOrg", "addOrgMember", "removeOrgMember", "createTeam",
           "updateTeam", "deleteTeam", "setTeamMember", "setTeamRepo", "createRepo"}
Team == [life : {"none", "here", "gone"}, permission : Permission, all : BOOLEAN]
NoTeam == [life |-> "none", permission |-> None, all |-> FALSE]
Call == [op : OrgOps \cup {"none"}, by : Members \cup {"nobody"}, user : Members \cup {"nobody"}, role : {"member", "owner"}, on : BOOLEAN,
         at : {"idle", "authorise", "count", "read", "write"},
         team : Team, owners : SUBSET Members, was : Roles]
Visit == [at : {"idle", "reading", "done"}, user : Members \cup {"nobody"}, left : SUBSET {"teams", "role"},
          grants : SUBSET Permission, role : Roles]
NoCall == [op |-> "none", by |-> "nobody", user |-> "nobody", role |-> "member", on |-> TRUE,
           at |-> "idle", team |-> NoTeam, owners |-> {}, was |-> "none"]
NoVisit == [at |-> "idle", user |-> "nobody", left |-> {}, grants |-> {}, role |-> "none"]

OrgsTypeOK ==
  /\ org \in {"none", "here", "gone"}
  /\ orgRole \in [Members -> Roles]
  /\ team \in Team
  /\ teamMembers \subseteq Members
  /\ teamRepo \in BOOLEAN
  /\ orgRepo \in {"none", "here", "gone"}
  /\ orgCall \in [OrgCalls -> Call]
  /\ orgStarted \in 0 .. MaxOrgCalls
  /\ visit \in Visit
  /\ held \in [{"always", "ever"} -> SUBSET (Permission \X {"team", "org"})]

Request(op, by, user, role, on) ==
  [op |-> op, by |-> by, user |-> user, role |-> role, on |-> on,
   at |-> IF op = "createOrg" THEN "write" ELSE "authorise",
   team |-> NoTeam, owners |-> {}, was |-> "none"]

Owners == {m \in Members : orgRole[m] = "owner"}
Belongs(m) == orgRole[m] # "none"

\* No organisation, or one as earlier calls may have left it.
OrgsInit ==
  /\ \/ /\ org = "none"
        /\ orgRole = [m \in Members |-> "none"]
        /\ team = NoTeam
        /\ teamMembers = {}
        /\ teamRepo = FALSE
        /\ orgRepo = "none"
     \/ /\ org = "here"
        /\ orgRole \in [Members -> Roles]
        /\ Owners # {}
        /\ team \in {NoTeam} \cup [life : {"here"}, permission : TeamRanks, all : BOOLEAN]
        /\ teamMembers \in SUBSET {m \in Members : team # NoTeam /\ Belongs(m)}
        /\ orgRepo \in {"none", "here"}
        /\ teamRepo \in {FALSE, team # NoTeam /\ orgRepo = "here"}
  /\ orgCall = [c \in OrgCalls |-> NoCall]
  /\ visit = NoVisit
  /\ orgStarted = 0
  /\ held = [always |-> {}, ever |-> {}]

-----------------------------------------------------------------------------
(***************************************************************************)
(* The calls.                                                              *)
(***************************************************************************)

OfTheTeam == {"updateTeam", "deleteTeam", "setTeamMember", "setTeamRepo"}

\* What by may ask for; a part that the operation has no use for is fixed.
Requests(by) ==
  {Request(op, by, by, "member", TRUE) : op \in {"createOrg", "deleteOrg", "createRepo", "deleteTeam"}}
    \cup {Request("addOrgMember", by, m, "member", TRUE) : m \in Members}
    \cup {Request("addOrgMember", by, m, "owner", TRUE) : m \in Members}
    \cup {Request("removeOrgMember", by, m, "member", TRUE) : m \in Members}
    \cup {Request(op, by, by, "member", on) : op \in {"createTeam", "updateTeam", "setTeamRepo"}, on \in BOOLEAN}
    \cup {Request("setTeamMember", by, m, "member", on) : m \in Members, on \in BOOLEAN}

\* requireOrg or requireTeam finds the row, which the handler keeps.
Starts(c) ==
  /\ orgCall[c].at = "idle"
  /\ orgStarted < MaxOrgCalls
  /\ \E by \in Members : \E r \in Requests(by) :
       /\ org = IF r.op = "createOrg" THEN "none" ELSE "here"
       /\ r.op \in OfTheTeam => team.life = "here"
       /\ orgCall' = [orgCall EXCEPT ![c] = IF r.op = "updateTeam" THEN [r EXCEPT !.team = team] ELSE r]
  /\ orgStarted' = orgStarted + 1
  /\ UNCHANGED <<orgTables, visit>>

Ends(c) == orgCall' = [orgCall EXCEPT ![c] = NoCall]
GoesTo(c, at) == orgCall' = [orgCall EXCEPT ![c].at = at]

\* requireOrgOwner; for a new repository, resolveCreateTarget.
MayAct(c) ==
  \/ orgCall[c].op = "createRepo" /\ Belongs(orgCall[c].by)
  \/ orgCall[c].op # "createRepo"
       /\ (orgCall[c].by \in SiteAdmins \/ orgRole[orgCall[c].by] = "owner")

Authorises(c) ==
  /\ orgCall[c].at = "authorise"
  /\ IF ~MayAct(c)
     THEN Ends(c)
     ELSE GoesTo(c, CASE orgCall[c].op \in {"deleteOrg", "removeOrgMember"} -> "count"
                      [] orgCall[c].op \in {"setTeamMember", "setTeamRepo"} /\ orgCall[c].on -> "read"
                      [] OTHER -> "write")
  /\ UNCHANGED <<orgTables, orgStarted, visit>>

\* The count of owners, or of the repositories of the organisation.
Counts(c) ==
  /\ orgCall[c].at = "count"
  /\ CASE orgCall[c].op = "removeOrgMember" ->
            orgCall' = [orgCall EXCEPT ![c].owners = Owners, ![c].at = "read"]
       [] orgCall[c].op = "deleteOrg" /\ orgRepo = "here" -> Ends(c)
       [] OTHER -> GoesTo(c, "write")
  /\ UNCHANGED <<orgTables, orgStarted, visit>>

MutantLastOwner(c) == orgRole[orgCall[c].user] = "owner" /\ Cardinality(orgCall[c].owners) < 1

LastOwner(c) == orgRole[orgCall[c].user] = "owner" /\ Cardinality(orgCall[c].owners) <= 1

\* The role of the user, or whether the organisation owns the repository.
Reads(c) ==
  /\ orgCall[c].at = "read"
  /\ CASE orgCall[c].op = "removeOrgMember" ->
            IF LastOwner(c) THEN Ends(c)
            ELSE orgCall' = [orgCall EXCEPT ![c].was = orgRole[orgCall[c].user], ![c].at = "write"]
       [] orgCall[c].op = "setTeamMember" /\ ~Belongs(orgCall[c].user) -> Ends(c)
       [] orgCall[c].op = "setTeamRepo" /\ orgRepo # "here" -> Ends(c)
       [] OTHER -> GoesTo(c, "write")
  /\ UNCHANGED <<orgTables, orgStarted, visit>>

Writing(c, op) == orgCall[c].at = "write" /\ orgCall[c].op = op /\ Ends(c) /\ UNCHANGED <<orgStarted, visit>>

\* The owner and its first member in one batch; the login is unique.
CreatesOrg(c) ==
  /\ Writing(c, "createOrg")
  /\ IF org = "none"
     THEN org' = "here" /\ orgRole' = [orgRole EXCEPT ![orgCall[c].by] = "owner"]
     ELSE UNCHANGED <<org, orgRole>>
  /\ UNCHANGED <<team, teamMembers, teamRepo, orgRepo>>

\* The rows that refer to the organisation go with it.
DeletesOrg(c) ==
  /\ Writing(c, "deleteOrg")
  /\ org' = "gone"
  /\ orgRole' = [m \in Members |-> "none"]
  /\ team' = [team EXCEPT !.life = "gone"]
  /\ teamMembers' = {}
  /\ teamRepo' = FALSE
  /\ orgRepo' = IF orgRepo = "here" THEN "gone" ELSE orgRepo

\* A row that refers to a deleted one is refused, here and below.
AddsMember(c) ==
  /\ Writing(c, "addOrgMember")
  /\ orgRole' = IF org = "here" THEN [orgRole EXCEPT ![orgCall[c].user] = orgCall[c].role] ELSE orgRole
  /\ UNCHANGED <<org, team, teamMembers, teamRepo, orgRepo>>

\* The rows of the user in the teams stay.
RemovesMember(c) ==
  /\ Writing(c, "removeOrgMember")
  /\ orgRole' = [orgRole EXCEPT ![orgCall[c].user] = "none"]
  /\ UNCHANGED <<org, team, teamMembers, teamRepo, orgRepo>>

CreatesTeam(c) ==
  /\ Writing(c, "createTeam")
  /\ \/ /\ org = "here" /\ team.life = "none"
        /\ \E p \in TeamRanks : team' = [life |-> "here", permission |-> p, all |-> orgCall[c].on]
     \/ ~(org = "here" /\ team.life = "none") /\ UNCHANGED team
  /\ UNCHANGED <<org, orgRole, teamMembers, teamRepo, orgRepo>>

\* The whole row is written: what the request left out, as it was read.
UpdatesTeam(c) ==
  /\ Writing(c, "updateTeam")
  /\ \/ team.life # "here" /\ UNCHANGED team
     \/ /\ team.life = "here"
        /\ \E p \in TeamRanks \cup {orgCall[c].team.permission},
              all \in {orgCall[c].on, orgCall[c].team.all} :
             team' = [team EXCEPT !.permission = p, !.all = all]
  /\ UNCHANGED <<org, orgRole, teamMembers, teamRepo, orgRepo>>

DeletesTeam(c) ==
  /\ Writing(c, "deleteTeam")
  /\ team' = [team EXCEPT !.life = "gone"]
  /\ teamMembers' = {}
  /\ teamRepo' = FALSE
  /\ UNCHANGED <<org, orgRole, orgRepo>>

SetsTeamMember(c) ==
  /\ Writing(c, "setTeamMember")
  /\ teamMembers' = IF ~orgCall[c].on THEN teamMembers \ {orgCall[c].user}
                    ELSE IF team.life = "here" THEN teamMembers \cup {orgCall[c].user}
                    ELSE teamMembers
  /\ UNCHANGED <<org, orgRole, team, teamRepo, orgRepo>>

SetsTeamRepo(c) ==
  /\ Writing(c, "setTeamRepo")
  /\ teamRepo' = IF orgCall[c].on /\ team.life = "here" /\ orgRepo = "here" THEN TRUE
                 ELSE orgCall[c].on /\ teamRepo
  /\ UNCHANGED <<org, orgRole, team, teamMembers, orgRepo>>

\* createRepo of services/repo.ts, as far as the organisation is concerned.
CreatesOrgRepo(c) ==
  /\ Writing(c, "createRepo")
  /\ orgRepo' = IF org = "here" /\ orgRepo = "none" THEN "here" ELSE orgRepo
  /\ UNCHANGED <<org, orgRole, team, teamMembers, teamRepo>>

-----------------------------------------------------------------------------
(***************************************************************************)
(* The viewer.                                                             *)
(***************************************************************************)

\* What the three queries ask for, of the tables as they are.
TeamGrants(m) ==
  {p \in {team.permission} : team.life = "here" /\ m \in teamMembers /\ (teamRepo \/ team.all)}
GrantsOf(m) == (TeamGrants(m) \X {"team"}) \cup {g \in {<<Admin, "org">>} : orgRole[m] = "owner"}

\* Promise.all puts the queries side by side; repo_collaborators has no writer.
Visits(m) ==
  /\ visit.at = "idle"
  /\ orgStarted < MaxOrgCalls
  /\ m \notin SiteAdmins
  /\ orgRepo = "here"
  /\ visit' = [at |-> "reading", user |-> m, left |-> {"teams", "role"}, grants |-> {}, role |-> "none"]
  /\ orgStarted' = orgStarted + 1
  /\ UNCHANGED <<orgTables, orgCall>>

VisitReads(what) ==
  /\ visit.at = "reading"
  /\ what \in visit.left
  /\ visit' = [visit EXCEPT
       !.left = @ \ {what},
       !.at = IF visit.left = {what} THEN "done" ELSE "reading",
       !.grants = IF what = "teams" THEN TeamGrants(visit.user) ELSE @,
       !.role = IF what = "role" THEN orgRole[visit.user] ELSE @]
  /\ UNCHANGED <<orgTables, orgCall, orgStarted>>

\* A repository of the organisation, not archived; its visibility was read with it,
\* before the queries.
Inputs(v, public) ==
  [signedIn |-> TRUE, siteAdmin |-> v.user \in SiteAdmins, ownsIt |-> FALSE, public |-> public,
   archived |-> FALSE, orgRole |-> v.role, grants |-> v.grants]

\* History only: the grants of the viewer since the visit began.
Watches ==
  held' = CASE visit'.at # "reading" /\ visit.at # "reading" -> held
            [] visit.at = "idle" /\ visit'.at = "reading" ->
                 [always |-> GrantsOf(visit'.user), ever |-> GrantsOf(visit'.user)]
            [] OTHER -> [always |-> held.always \cap GrantsOf(visit.user)',
                         ever |-> held.ever \cup GrantsOf(visit.user)']

OrgStep(c) ==
  \/ Starts(c) \/ Authorises(c) \/ Counts(c) \/ Reads(c)
  \/ CreatesOrg(c) \/ DeletesOrg(c) \/ AddsMember(c) \/ RemovesMember(c)
  \/ CreatesTeam(c) \/ UpdatesTeam(c) \/ DeletesTeam(c)
  \/ SetsTeamMember(c) \/ SetsTeamRepo(c) \/ CreatesOrgRepo(c)

OrgsNext ==
  /\ \/ \E c \in OrgCalls : OrgStep(c)
     \/ \E m \in Members : Visits(m)
     \/ \E what \in {"teams", "role"} : VisitReads(what)
  /\ Watches

OrgsSpec == OrgsInit /\ [][OrgsNext]_orgsVars

-----------------------------------------------------------------------------
(***************************************************************************)
(* Properties.                                                             *)
(***************************************************************************)

\* Of the calls that take the last owner from an organisation, a removal did so
\* only because rows changed under it: when it counted there was another owner,
\* or the user was none when their role was read.  (A demotion by addOrgMember
\* asks nothing.)
RemovalsKeepAnOwner ==
  [][\A c \in OrgCalls :
       RemovesMember(c) /\ Owners # {} /\ Owners' = {} =>
         \/ orgCall[c].owners # Owners
         \/ orgCall[c].was # "owner"]_orgsVars

\* services/org.ts:219 says that an organisation without owners cannot be
\* administered by anyone and that nothing can restore one, so an organisation
\* keeps an owner.
AnOwnerRemains == org = "here" => Owners # {}

\* The permission a viewer is given, though its queries see the tables at
\* different moments, is that of a grant they had while it was worked out, or what a
\* public repository grants, and no lower than any of these they had all the time.
PermissionIsTheHighestGrant ==
  visit.at = "done" =>
    \A public \in BOOLEAN :
      LET p == Gather(Inputs(visit, public))
          open == IF public THEN {Read} ELSE {}
      IN  /\ \A g \in {h[1] : h \in held.always} \cup open : AtLeast(p, g)
          /\ p \in {None} \cup open \cup {h[1] : h \in held.ever}
=============================================================================
