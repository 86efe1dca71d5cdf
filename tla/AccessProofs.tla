---------------------------- MODULE AccessProofs ----------------------------
(***************************************************************************)
(* Who may do what.  An organisation: a removal that sees the owners as    *)
(* they are leaves one, and a permission put together from queries at      *)
(* different moments is one that was held.  Accounts: whoever signs in     *)
(* first, at once or again, the site has an administrator, nobody who      *)
(* comes after there was a user is made one, and an identity that shares   *)
(* its email with none has one account.                                    *)
(***************************************************************************)
EXTENDS Orgs, Accounts, FiniteSetTheorems, TLAPS

-----------------------------------------------------------------------------
(***************************************************************************)
(* Ranks.                                                                  *)
(***************************************************************************)

\* resolvePermission's fold over the grants: what it returns is one of them, or none,
\* and as much as any.
LEMMA HighestIsReached ==
  ASSUME NEW S \in SUBSET Permission
  PROVE  /\ Highest(S) \in S \cup {None}
         /\ \A q \in S \cup {None} : AtLeast(Highest(S), q)
<1> DEFINE T == S \cup {None}
<1>1. \E p \in T : \A q \in T : AtLeast(p, q)
  <2>1. T \subseteq 0 .. 5 /\ 0 \in T
    BY DEF Permission, None, Admin
  <2>2. \A q \in T : q = 0 \/ q = 1 \/ q = 2 \/ q = 3 \/ q = 4 \/ q = 5
    BY <2>1
  <2>3. CASE 5 \in T
    BY <2>2, <2>3 DEF AtLeast
  <2>4. CASE 5 \notin T /\ 4 \in T
    BY <2>2, <2>4 DEF AtLeast
  <2>5. CASE 5 \notin T /\ 4 \notin T /\ 3 \in T
    BY <2>2, <2>5 DEF AtLeast
  <2>6. CASE 5 \notin T /\ 4 \notin T /\ 3 \notin T /\ 2 \in T
    BY <2>2, <2>6 DEF AtLeast
  <2>7. CASE 5 \notin T /\ 4 \notin T /\ 3 \notin T /\ 2 \notin T /\ 1 \in T
    BY <2>2, <2>7 DEF AtLeast
  <2>8. CASE 5 \notin T /\ 4 \notin T /\ 3 \notin T /\ 2 \notin T /\ 1 \notin T
    BY <2>1, <2>2, <2>8 DEF AtLeast
  <2> QED BY <2>3, <2>4, <2>5, <2>6, <2>7, <2>8
<1> QED BY <1>1 DEF Highest

-----------------------------------------------------------------------------
(***************************************************************************)
(* The inductive invariant of an organisation.                             *)
(***************************************************************************)

\* A removal about to be written found other owners, or did not find one in the user.
CallInv ==
  \A c \in OrgCalls :
    /\ orgCall[c].at # "idle" => orgCall[c].user \in Members /\ orgCall[c].by \in Members
    /\ orgCall[c].op = "removeOrgMember" /\ orgCall[c].at = "write" /\ orgCall[c].was = "owner" =>
         ~(Cardinality(orgCall[c].owners) <= 1)

\* What a query has answered is between the grants held all along and those held at
\* some time; those of the moment are between them too while queries are under way.
VisitInv ==
  /\ visit.at # "idle" => visit.user \in Members \ SiteAdmins
  /\ visit.at = "done" => visit.left = {}
  /\ visit.at = "reading" =>
       held.always \subseteq GrantsOf(visit.user) /\ GrantsOf(visit.user) \subseteq held.ever
  /\ visit.at # "idle" => \A g \in held.always : g[2] = "org" => g = <<Admin, "org">>
  /\ visit.at # "idle" /\ "teams" \notin visit.left =>
       /\ \A g \in held.always : g[2] = "team" => g[1] \in visit.grants
       /\ \A p \in visit.grants : <<p, "team">> \in held.ever
  /\ visit.at # "idle" /\ "role" \notin visit.left =>
       /\ <<Admin, "org">> \in held.always => visit.role = "owner"
       /\ visit.role = "owner" => <<Admin, "org">> \in held.ever

OrgsInv == OrgsTypeOK /\ CallInv /\ VisitInv

LEMMA OrgsInvIsEnough == OrgsInv => PermissionIsTheHighestGrant
<1> SUFFICES ASSUME OrgsInv, visit.at = "done", NEW public \in BOOLEAN
             PROVE  LET p == Gather(Inputs(visit, public))
                        open == IF public THEN {Read} ELSE {}
                    IN  /\ \A g \in {h[1] : h \in held.always} \cup open : AtLeast(p, g)
                        /\ p \in {None} \cup open \cup {h[1] : h \in held.ever}
  BY DEF PermissionIsTheHighestGrant
<1> DEFINE open == IF public THEN {Read} ELSE {}
           p == Gather(Inputs(visit, public))
<1>1. visit.grants \in SUBSET Permission /\ held.always \subseteq Permission \X {"team", "org"}
  BY DEF OrgsInv, OrgsTypeOK, Visit
<1>2. open \in SUBSET Permission
  BY DEF Permission, None, Read, Admin
<1>3. /\ visit.user \notin SiteAdmins
      /\ \A g \in held.always : g[2] = "org" => g = <<Admin, "org">>
      /\ \A g \in held.always : g[2] = "team" => g[1] \in visit.grants
      /\ \A q \in visit.grants : <<q, "team">> \in held.ever
      /\ <<Admin, "org">> \in held.always => visit.role = "owner"
      /\ visit.role = "owner" => <<Admin, "org">> \in held.ever
  BY DEF OrgsInv, VisitInv
<1>4. p = IF visit.role = "owner" THEN Admin ELSE Highest(open \cup visit.grants)
  BY <1>3 DEF Gather, Inputs
<1>5. /\ \A g \in {h[1] : h \in held.always} \cup open : g \in Permission
      /\ \A q \in visit.grants : q \in {h[1] : h \in held.ever}
  <2>1. \A q \in visit.grants : <<q, "team">> \in held.ever /\ <<q, "team">>[1] = q
    BY <1>3
  <2> QED BY <1>1, <1>2, <2>1
<1>6. CASE visit.role = "owner"
  <2>1. <<Admin, "org">> \in held.ever /\ <<Admin, "org">>[1] = Admin
    BY <1>3, <1>6
  <2>2. \A g \in Permission : AtLeast(Admin, g)
    BY DEF Permission, AtLeast, Admin, None
  <2> QED BY <1>4, <1>5, <1>6, <2>1, <2>2
<1>7. CASE visit.role # "owner"
  <2>1. \A g \in held.always : g[1] \in visit.grants
    <3>1. \A g \in held.always : g[2] = "org" \/ g[2] = "team"
      BY <1>1
    <3> QED BY <1>3, <1>7, <3>1
  <2>2. \A g \in {h[1] : h \in held.always} \cup open : g \in open \cup visit.grants
    BY <2>1
  <2>3. /\ p \in (open \cup visit.grants) \cup {None}
        /\ \A q \in (open \cup visit.grants) \cup {None} : AtLeast(p, q)
    <3> HIDE DEF open, p
    <3>1. open \cup visit.grants \in SUBSET Permission
      BY <1>1, <1>2
    <3> QED BY <1>4, <1>7, <3>1, HighestIsReached
  <2> HIDE DEF open, p
  <2>4. \A g \in {h[1] : h \in held.always} \cup open : AtLeast(p, g)
    BY <2>2, <2>3
  <2>5. p \in {None} \cup open \cup {h[1] : h \in held.ever}
    BY <1>5, <2>3
  <2> QED BY <2>4, <2>5 DEF open, p
<1> QED BY <1>6, <1>7

-----------------------------------------------------------------------------
(***************************************************************************)
(* The calls.                                                              *)
(***************************************************************************)

LEMMA CallHasFields ==
  ASSUME OrgsTypeOK, NEW c \in OrgCalls
  PROVE  /\ DOMAIN orgCall = OrgCalls
         /\ orgCall[c] \in Call
         /\ DOMAIN orgCall[c] = {"op", "by", "user", "role", "on", "at", "team", "owners", "was"}
         /\ orgCall[c].by \in Members \cup {"nobody"}
         /\ orgCall[c].user \in Members \cup {"nobody"}
         /\ orgCall[c].role \in {"member", "owner"}
         /\ orgCall[c].on \in BOOLEAN
         /\ orgCall[c].team \in Team
BY DEF OrgsTypeOK, Call

LEMMA NoCallIsIdle == NoTeam \in Team /\ NoCall \in Call /\ NoCall.at = "idle"
BY DEF NoCall, NoTeam, Team, Call, Roles, Permission, None, Admin

LEMMA RequestsAreCalls ==
  ASSUME NEW by \in Members, NEW r \in Requests(by)
  PROVE  /\ r \in Call
         /\ r.at # "idle"
         /\ r.was = "none"
         /\ r.user \in Members /\ r.by \in Members
<1>1. ASSUME NEW op \in OrgOps, NEW user \in Members, NEW role \in {"member", "owner"}, NEW on \in BOOLEAN
      PROVE  /\ Request(op, by, user, role, on) \in Call
             /\ Request(op, by, user, role, on).at # "idle"
             /\ Request(op, by, user, role, on).was = "none"
             /\ Request(op, by, user, role, on).user = user
             /\ Request(op, by, user, role, on).by = by
  BY NoCallIsIdle DEF Request, Call, Roles
<1>2. \E op \in OrgOps, user \in Members, role \in {"member", "owner"}, on \in BOOLEAN :
        r = Request(op, by, user, role, on)
  <2> DEFINE plain == {Request(op, by, by, "member", TRUE) : op \in {"createOrg", "deleteOrg", "createRepo", "deleteTeam"}}
             members == {Request("addOrgMember", by, m, "member", TRUE) : m \in Members}
             owners == {Request("addOrgMember", by, m, "owner", TRUE) : m \in Members}
             removals == {Request("removeOrgMember", by, m, "member", TRUE) : m \in Members}
             teams == {Request(op, by, by, "member", on) : op \in {"createTeam", "updateTeam", "setTeamRepo"}, on \in BOOLEAN}
             teamed == {Request("setTeamMember", by, m, "member", on) : m \in Members, on \in BOOLEAN}
  <2>1. CASE r \in plain
    BY <2>1 DEF OrgOps
  <2>2. CASE r \in members
    BY <2>2 DEF OrgOps
  <2>3. CASE r \in owners
    BY <2>3 DEF OrgOps
  <2>4. CASE r \in removals
    BY <2>4 DEF OrgOps
  <2>5. CASE r \in teams
    BY <2>5 DEF OrgOps
  <2>6. CASE r \in teamed
    BY <2>6 DEF OrgOps
  <2>7. Requests(by) = plain \cup members \cup owners \cup removals \cup teams \cup teamed
    BY DEF Requests
  <2> HIDE DEF plain, members, owners, removals, teams, teamed
  <2> QED BY <2>1, <2>2, <2>3, <2>4, <2>5, <2>6, <2>7
<1> QED BY <1>1, <1>2

\* A call moves alone, and a removal goes on to write only past its count.
LEMMA CallsAreKept ==
  ASSUME OrgsTypeOK, CallInv, NEW c \in OrgCalls, OrgStep(c)
  PROVE  orgCall' \in [OrgCalls -> Call] /\ CallInv'
<1> USE CallHasFields, NoCallIsIdle
<1> DEFINE Moves(r) ==
      /\ orgCall' = [orgCall EXCEPT ![c] = r]
      /\ r \in Call
      /\ r.at # "idle" => r.user \in Members /\ r.by \in Members
      /\ r.op = "removeOrgMember" /\ r.at = "write" /\ r.was = "owner" => ~(Cardinality(r.owners) <= 1)
<1>1. ASSUME NEW r, Moves(r)
      PROVE  orgCall' \in [OrgCalls -> Call] /\ CallInv'
  BY <1>1 DEF OrgsTypeOK, CallInv
<1>2. CASE Ends(c)
  <2>1. NoCall.op # "removeOrgMember"
    BY DEF NoCall
  <2> QED BY <1>1, <1>2, <2>1 DEF Ends
<1>3. ASSUME NEW at \in {"count", "read", "write"}, GoesTo(c, at), orgCall[c].at # "idle",
             orgCall[c].op = "removeOrgMember" => at # "write"
      PROVE  orgCall' \in [OrgCalls -> Call] /\ CallInv'
  <2> DEFINE r == [orgCall[c] EXCEPT !.at = at]
  <2>1. r \in Call /\ r.op = orgCall[c].op /\ r.at = at /\ r.user = orgCall[c].user /\ r.by = orgCall[c].by
    BY DEF Call
  <2>2. orgCall' = [orgCall EXCEPT ![c] = r]
    BY <1>3 DEF GoesTo
  <2>3. orgCall[c].user \in Members /\ orgCall[c].by \in Members
    BY <1>3 DEF CallInv
  <2> HIDE DEF r
  <2> QED BY <1>1, <1>3, <2>1, <2>2, <2>3
<1>4. CASE Starts(c)
  <2>1. PICK by \in Members : \E r \in Requests(by) :
          orgCall' = [orgCall EXCEPT ![c] = IF r.op = "updateTeam" THEN [r EXCEPT !.team = team] ELSE r]
    BY <1>4 DEF Starts
  <2>5. PICK r \in Requests(by) :
          orgCall' = [orgCall EXCEPT ![c] = IF r.op = "updateTeam" THEN [r EXCEPT !.team = team] ELSE r]
    BY <2>1
  <2>2. r \in Call /\ r.was = "none" /\ r.at # "idle" /\ r.user \in Members /\ r.by \in Members
    BY RequestsAreCalls
  <2>3. team \in Team
    BY DEF OrgsTypeOK
  <2>4. /\ [r EXCEPT !.team = team] \in Call /\ [r EXCEPT !.team = team].was = "none"
        /\ [r EXCEPT !.team = team].user = r.user /\ [r EXCEPT !.team = team].by = r.by
    BY <2>2, <2>3 DEF Call
  <2> QED BY <1>1, <2>2, <2>4, <2>5
<1>5. CASE Authorises(c)
  <2>1. Ends(c) \/ \E at \in {"count", "read", "write"} :
          GoesTo(c, at) /\ (orgCall[c].op = "removeOrgMember" => at # "write")
    BY <1>5 DEF Authorises
  <2> QED BY <1>2, <1>3, <1>5, <2>1 DEF Authorises
<1>6. CASE Counts(c)
  <2>1. CASE orgCall[c].op = "removeOrgMember"
    <3> DEFINE r == [orgCall[c] EXCEPT !.owners = Owners, !.at = "read"]
    <3>1. /\ r \in Call /\ r.at = "read"
          /\ r.user = orgCall[c].user /\ r.by = orgCall[c].by
      BY DEF Call, Owners
    <3>3. orgCall[c].user \in Members /\ orgCall[c].by \in Members
      BY <1>6 DEF Counts, CallInv
    <3>2. orgCall' = [orgCall EXCEPT ![c] = r]
      BY <1>6, <2>1 DEF Counts
    <3> HIDE DEF r
    <3> QED BY <1>1, <3>1, <3>2, <3>3
  <2>2. CASE orgCall[c].op # "removeOrgMember"
    <3>1. Ends(c) \/ GoesTo(c, "write")
      BY <1>6, <2>2 DEF Counts
    <3> QED BY <1>2, <1>3, <1>6, <2>2, <3>1 DEF Counts
  <2> QED BY <2>1, <2>2
<1>7. CASE Reads(c)
  <2>1. CASE orgCall[c].op = "removeOrgMember" /\ ~LastOwner(c)
    <3> DEFINE r == [orgCall[c] EXCEPT !.was = orgRole[orgCall[c].user], !.at = "write"]
    <3>1. orgCall' = [orgCall EXCEPT ![c] = r]
      BY <1>7, <2>1 DEF Reads
    <3>5. orgCall[c].user \in Members /\ orgCall[c].by \in Members
      BY <1>7 DEF Reads, CallInv
    <3>2. orgRole[orgCall[c].user] \in Roles
      BY <3>5 DEF OrgsTypeOK
    <3>3. /\ r \in Call /\ r.was = orgRole[orgCall[c].user] /\ r.owners = orgCall[c].owners
          /\ r.user = orgCall[c].user /\ r.by = orgCall[c].by
      BY <3>2 DEF Call
    <3>4. r.was = "owner" => ~(Cardinality(r.owners) <= 1)
      BY <2>1, <3>3 DEF LastOwner
    <3> HIDE DEF r
    <3> QED BY <1>1, <3>1, <3>3, <3>4, <3>5
  <2>2. CASE orgCall[c].op = "removeOrgMember" /\ LastOwner(c)
    BY <1>2, <1>7, <2>2 DEF Reads
  <2>3. CASE orgCall[c].op # "removeOrgMember"
    <3>1. Ends(c) \/ GoesTo(c, "write")
      BY <1>7, <2>3 DEF Reads
    <3> QED BY <1>2, <1>3, <1>7, <2>3, <3>1 DEF Reads
  <2> QED BY <2>1, <2>2, <2>3
<1>8. CASE \E op \in OrgOps : Writing(c, op)
  BY <1>2, <1>8 DEF Writing
<1> QED BY <1>4, <1>5, <1>6, <1>7, <1>8 DEF OrgStep, OrgOps, CreatesOrg, DeletesOrg, AddsMember, RemovesMember,
        CreatesTeam, UpdatesTeam, DeletesTeam, SetsTeamMember, SetsTeamRepo, CreatesOrgRepo

-----------------------------------------------------------------------------
(***************************************************************************)
(* The tables, the viewer and the history.                                 *)
(***************************************************************************)

TablesOK ==
  /\ org \in {"none", "here", "gone"}
  /\ orgRole \in [Members -> Roles]
  /\ team \in Team
  /\ teamMembers \subseteq Members
  /\ teamRepo \in BOOLEAN
  /\ orgRepo \in {"none", "here", "gone"}

LEMMA TablesAreKept ==
  ASSUME OrgsTypeOK, CallInv, NEW c \in OrgCalls, OrgStep(c)
  PROVE  TablesOK'
<1> USE OrgsAssumption, CallHasFields DEF OrgsTypeOK, TablesOK
<1>1. ASSUME UNCHANGED orgTables PROVE TablesOK'
  BY <1>1 DEF orgTables
<1>2. orgCall[c].at = "write" => orgCall[c].user \in Members /\ orgCall[c].by \in Members
  BY DEF CallInv
<1>3. TeamRanks \subseteq Permission
  BY DEF Permission, Read, None, Admin
<1>4. \A l \in {"none", "here", "gone"}, p \in Permission, all \in BOOLEAN :
        /\ [life |-> l, permission |-> p, all |-> all] \in Team
        /\ [team EXCEPT !.permission = p, !.all = all] \in Team
        /\ [team EXCEPT !.life = l] \in Team
  BY DEF Team
<1>5. CASE Starts(c) \/ Authorises(c) \/ Counts(c) \/ Reads(c)
  BY <1>1, <1>5 DEF Starts, Authorises, Counts, Reads
<1>6. CASE CreatesOrg(c)
  BY <1>2, <1>6 DEF CreatesOrg, Writing, Roles
<1>7. CASE DeletesOrg(c)
  BY <1>4, <1>7, ZenonT(30) DEF DeletesOrg, Writing, Roles, Team
<1>8. CASE AddsMember(c)
  BY <1>2, <1>8 DEF AddsMember, Writing, Roles
<1>9. CASE RemovesMember(c)
  BY <1>2, <1>9 DEF RemovesMember, Writing, Roles
<1>10. CASE CreatesTeam(c)
  <2>1. orgCall[c].on \in BOOLEAN
    OBVIOUS
  <2>2. team' \in Team
    <3>1. CASE UNCHANGED team
      BY <3>1
    <3>2. CASE \E p \in TeamRanks : team' = [life |-> "here", permission |-> p, all |-> orgCall[c].on]
      <4>1. PICK p \in Permission, all \in BOOLEAN : team' = [life |-> "here", permission |-> p, all |-> all]
        BY <1>3, <2>1, <3>2
      <4> QED BY <4>1 DEF Team
    <3> QED BY <1>10, <3>1, <3>2 DEF CreatesTeam
  <2> QED BY <1>10, <2>2 DEF CreatesTeam
<1>11. CASE UpdatesTeam(c)
  <2>1. orgCall[c].on \in BOOLEAN /\ orgCall[c].team.permission \in Permission /\ orgCall[c].team.all \in BOOLEAN
    BY DEF Team
  <2>2. team' \in Team
    <3>1. CASE UNCHANGED team
      BY <3>1
    <3>2. CASE \E p \in TeamRanks \cup {orgCall[c].team.permission},
                  all \in {orgCall[c].on, orgCall[c].team.all} :
                 team' = [team EXCEPT !.permission = p, !.all = all]
      <4>1. PICK p \in Permission, all \in BOOLEAN : team' = [team EXCEPT !.permission = p, !.all = all]
        BY <1>3, <2>1, <3>2, ZenonT(30)
      <4> QED BY <4>1 DEF Team
    <3> QED BY <1>11, <3>1, <3>2 DEF UpdatesTeam
  <2> QED BY <1>11, <2>2 DEF UpdatesTeam
<1>12. CASE DeletesTeam(c)
  <2>1. team' \in Team
    BY <1>4, <1>12 DEF DeletesTeam, Team
  <2> QED BY <1>12, <2>1 DEF DeletesTeam
<1>13. CASE SetsTeamMember(c)
  BY <1>2, <1>13 DEF SetsTeamMember, Writing
<1>14. CASE SetsTeamRepo(c)
  BY <1>14 DEF SetsTeamRepo
<1>15. CASE CreatesOrgRepo(c)
  BY <1>15 DEF CreatesOrgRepo
<1> QED BY <1>5, <1>6, <1>7, <1>8, <1>9, <1>10, <1>11, <1>12, <1>13, <1>14, <1>15 DEF OrgStep

LEMMA CallsLeaveTheVisit ==
  ASSUME NEW c \in OrgCalls, OrgStep(c)
  PROVE  /\ visit' = visit
         /\ orgStarted' = orgStarted \/ (orgStarted < MaxOrgCalls /\ orgStarted' = orgStarted + 1)
BY DEF OrgStep, Starts, Authorises, Counts, Reads, Writing, CreatesOrg, DeletesOrg, AddsMember, RemovesMember,
       CreatesTeam, UpdatesTeam, DeletesTeam, SetsTeamMember, SetsTeamRepo, CreatesOrgRepo

Grants == SUBSET (Permission \X {"team", "org"})

GrantsFit ==
  \A m \in Members :
    /\ GrantsOf(m) \in Grants
    /\ \A g \in GrantsOf(m) : g[2] = "org" => g = <<Admin, "org">>
    /\ \A p : <<p, "team">> \in GrantsOf(m) <=> p \in TeamGrants(m)
    /\ <<Admin, "org">> \in GrantsOf(m) <=> orgRole[m] = "owner"
    /\ TeamGrants(m) \subseteq Permission

LEMMA GrantsAreGrants == TablesOK => GrantsFit
<1> SUFFICES ASSUME TablesOK, NEW m \in Members
             PROVE  /\ GrantsOf(m) \in Grants
                    /\ \A g \in GrantsOf(m) : g[2] = "org" => g = <<Admin, "org">>
                    /\ \A p : <<p, "team">> \in GrantsOf(m) <=> p \in TeamGrants(m)
                    /\ <<Admin, "org">> \in GrantsOf(m) <=> orgRole[m] = "owner"
                    /\ TeamGrants(m) \subseteq Permission
  BY DEF GrantsFit
<1>1. TeamGrants(m) \subseteq Permission
  BY DEF TeamGrants, TablesOK, Team
<1>2. \A g \in GrantsOf(m) :
        \/ \E p \in TeamGrants(m) : g = <<p, "team">>
        \/ g = <<Admin, "org">> /\ orgRole[m] = "owner"
  BY DEF GrantsOf
<1>3. Admin \in Permission
  BY DEF Permission, None, Admin
<1>4. \A g \in GrantsOf(m) : g \in Permission \X {"team", "org"}
  BY <1>1, <1>2, <1>3
<1>5. \A g \in GrantsOf(m) : g[2] = "org" => g = <<Admin, "org">>
  BY <1>2
<1>6. \A p : <<p, "team">> \in GrantsOf(m) <=> p \in TeamGrants(m)
  BY <1>2 DEF GrantsOf
<1>7. <<Admin, "org">> \in GrantsOf(m) <=> orgRole[m] = "owner"
  <2>1. ~ \E p \in TeamGrants(m) : <<Admin, "org">> = <<p, "team">>
    OBVIOUS
  <2> QED BY <1>2, <2>1 DEF GrantsOf
<1> QED BY <1>1, <1>4, <1>5, <1>6, <1>7 DEF Grants

\* While the queries are under way the history follows the grants of the viewer.
LEMMA HistoryIsKept ==
  ASSUME OrgsTypeOK, VisitInv, TablesOK', Watches, visit' = visit
  PROVE  held' \in [{"always", "ever"} -> Grants] /\ VisitInv'
<1>1. CASE visit.at # "reading"
  <2>1. held' = held
    BY <1>1 DEF Watches
  <2> QED BY <1>1, <2>1 DEF VisitInv, OrgsTypeOK, Grants
<1>2. CASE visit.at = "reading"
  <2>1. PICK u : u = visit.user
    OBVIOUS
  <2>2. u \in Members
    BY <1>2, <2>1 DEF VisitInv
  <2>3. GrantsFit'
    BY GrantsAreGrants, PTL
  <2>4. PICK now : now = GrantsOf(u)'
    OBVIOUS
  <2>5. now \in Grants
    BY <2>2, <2>3, <2>4 DEF GrantsFit
  <2>6. held' = [always |-> held.always \cap now, ever |-> held.ever \cup now]
    BY <1>2, <2>1, <2>4 DEF Watches
  <2>7. /\ held'.always \subseteq now /\ now \subseteq held'.ever
        /\ held'.always \subseteq held.always /\ held.ever \subseteq held'.ever
    BY <2>6
  <2>8. held' \in [{"always", "ever"} -> Grants]
    BY <2>5, <2>6 DEF OrgsTypeOK, Grants
  <2>9. GrantsOf(visit.user)' = now
    BY <2>1, <2>4
  <2> QED BY <1>2, <2>7, <2>8, <2>9 DEF VisitInv
<1> QED BY <1>1, <1>2

LEMMA GrantsStay ==
  ASSUME UNCHANGED orgTables, NEW m
  PROVE  GrantsOf(m)' = GrantsOf(m) /\ TeamGrants(m)' = TeamGrants(m) /\ orgRole'[m] = orgRole[m]
BY DEF orgTables, GrantsOf, TeamGrants

LEMMA VisitsStart ==
  ASSUME OrgsInv, NEW m \in Members, Visits(m), Watches
  PROVE  OrgsInv'
<1>1. /\ m \notin SiteAdmins
      /\ visit' = [at |-> "reading", user |-> m, left |-> {"teams", "role"}, grants |-> {}, role |-> "none"]
      /\ visit.at = "idle" /\ UNCHANGED <<orgTables, orgCall>>
      /\ orgStarted < MaxOrgCalls /\ orgStarted' = orgStarted + 1
  BY DEF Visits
<1>2. TablesOK /\ TablesOK' /\ GrantsFit
  BY <1>1, GrantsAreGrants DEF OrgsInv, OrgsTypeOK, TablesOK, orgTables
<1>3. visit' \in Visit
  BY <1>1 DEF Visit, Roles
<1>4. PICK now : now = GrantsOf(m)
  OBVIOUS
<1>5. now \in Grants /\ GrantsOf(m)' = now /\ \A g \in now : g[2] = "org" => g = <<Admin, "org">>
  BY <1>1, <1>2, <1>4, GrantsStay DEF GrantsFit
<1>6. held' = [always |-> now, ever |-> now]
  BY <1>1, <1>4 DEF Watches
<1>7. VisitInv'
  <2>1. visit'.user = m /\ visit'.at = "reading" /\ visit'.left = {"teams", "role"}
    BY <1>1
  <2>2. GrantsOf(visit.user)' = now
    BY <1>5, <2>1
  <2>3. held'.always = now /\ held'.ever = now
    BY <1>6
  <2> QED BY <1>1, <1>5, <2>1, <2>2, <2>3 DEF VisitInv
<1>8. CallInv'
  BY <1>1 DEF OrgsInv, CallInv
<1>9. OrgsTypeOK'
  <2>1. orgStarted' \in 0 .. MaxOrgCalls
    BY <1>1, OrgsAssumption DEF OrgsInv, OrgsTypeOK
  <2>2. held' \in [{"always", "ever"} -> Grants]
    BY <1>5, <1>6
  <2> QED BY <1>1, <1>2, <1>3, <2>1, <2>2 DEF OrgsInv, OrgsTypeOK, TablesOK, Grants
<1> QED BY <1>7, <1>8, <1>9 DEF OrgsInv

LEMMA VisitsRead ==
  ASSUME OrgsInv, NEW what \in {"teams", "role"}, VisitReads(what), Watches
  PROVE  OrgsInv'
<1> DEFINE v == [visit EXCEPT
       !.left = @ \ {what},
       !.at = IF visit.left = {what} THEN "done" ELSE "reading",
       !.grants = IF what = "teams" THEN TeamGrants(visit.user) ELSE @,
       !.role = IF what = "role" THEN orgRole[visit.user] ELSE @]
<1>1. /\ visit.at = "reading" /\ what \in visit.left
      /\ visit' = v
      /\ UNCHANGED <<orgTables, orgCall, orgStarted>>
  BY DEF VisitReads
<1>2. TablesOK /\ TablesOK' /\ GrantsFit
  BY <1>1, GrantsAreGrants DEF OrgsInv, OrgsTypeOK, TablesOK, orgTables
<1>3. PICK u : u = visit.user
  OBVIOUS
<1>4. u \in Members \ SiteAdmins
  BY <1>1, <1>3 DEF OrgsInv, VisitInv
<1>5. /\ v.user = u /\ v.left = visit.left \ {what}
      /\ v.at = IF visit.left = {what} THEN "done" ELSE "reading"
      /\ v.grants = IF what = "teams" THEN TeamGrants(u) ELSE visit.grants
      /\ v.role = IF what = "role" THEN orgRole[u] ELSE visit.role
  BY <1>3 DEF OrgsInv, OrgsTypeOK, Visit
<1>6. v \in Visit
  <2>1. TeamGrants(u) \subseteq Permission /\ orgRole[u] \in Roles
    BY <1>2, <1>4 DEF GrantsFit, TablesOK
  <2>2. /\ visit.left \ {what} \in SUBSET {"teams", "role"}
        /\ (IF what = "teams" THEN TeamGrants(u) ELSE visit.grants) \in SUBSET Permission
        /\ (IF what = "role" THEN orgRole[u] ELSE visit.role) \in Roles
        /\ (IF visit.left = {what} THEN "done" ELSE "reading") \in {"idle", "reading", "done"}
    BY <2>1 DEF OrgsInv, OrgsTypeOK, Visit
  <2> QED BY <1>3, <2>2 DEF OrgsInv, OrgsTypeOK, Visit
<1> HIDE DEF v
<1>7. PICK now : now = GrantsOf(u)
  OBVIOUS
<1>8. /\ now \in Grants /\ GrantsOf(u)' = now
      /\ \A p : <<p, "team">> \in now <=> p \in TeamGrants(u)
      /\ <<Admin, "org">> \in now <=> orgRole[u] = "owner"
  BY <1>1, <1>2, <1>4, <1>7, GrantsStay DEF GrantsFit
<1>9. held' = [always |-> held.always \cap now, ever |-> held.ever \cup now]
  <2>1. GrantsOf(visit.user)' = now
    BY <1>1, <1>5, <1>8
  <2> QED BY <1>1, <2>1 DEF Watches
<1>10. /\ held'.always \subseteq now /\ now \subseteq held'.ever
       /\ held'.always \subseteq held.always /\ held.ever \subseteq held'.ever
  BY <1>9
<1>11. held' \in [{"always", "ever"} -> Grants]
  BY <1>8, <1>9 DEF OrgsInv, OrgsTypeOK, Grants
<1>12. OrgsTypeOK'
  BY <1>1, <1>2, <1>6, <1>11 DEF OrgsInv, OrgsTypeOK, TablesOK, Grants
<1>13. CallInv'
  BY <1>1 DEF OrgsInv, CallInv
<1>14. VisitInv'
  <2>1. visit' = v
    BY <1>1
  <2>2. v.at = "done" => v.left = {}
    BY <1>5
  <2>3. GrantsOf(visit.user)' = now
    BY <1>1, <1>5, <1>8
  <2>4. \A g \in held'.always : g[2] = "org" => g = <<Admin, "org">>
    BY <1>1, <1>10 DEF OrgsInv, VisitInv
  <2>5. "teams" \notin v.left =>
          /\ \A g \in held'.always : g[2] = "team" => g[1] \in v.grants
          /\ \A p \in v.grants : <<p, "team">> \in held'.ever
    <3>1. CASE what = "teams"
      <4>1. v.grants = TeamGrants(u)
        BY <1>5, <3>1
      <4>2. \A g \in now : g[2] = "team" => g = <<g[1], "team">>
        BY <1>8 DEF Grants
      <4> QED BY <1>8, <1>10, <4>1, <4>2
    <3>2. CASE what # "teams"
      <4>1. v.grants = visit.grants /\ ("teams" \notin v.left => "teams" \notin visit.left)
        BY <1>5, <3>2
      <4> QED BY <1>1, <1>10, <4>1 DEF OrgsInv, VisitInv
    <3> QED BY <3>1, <3>2
  <2>6. "role" \notin v.left =>
          /\ <<Admin, "org">> \in held'.always => v.role = "owner"
          /\ v.role = "owner" => <<Admin, "org">> \in held'.ever
    <3>1. CASE what = "role"
      BY <1>5, <1>8, <1>10, <3>1
    <3>2. CASE what # "role"
      <4>1. v.role = visit.role /\ ("role" \notin v.left => "role" \notin visit.left)
        BY <1>5, <3>2
      <4> QED BY <1>1, <1>10, <4>1 DEF OrgsInv, VisitInv
    <3> QED BY <3>1, <3>2
  <2> QED BY <1>4, <1>5, <1>10, <2>1, <2>2, <2>3, <2>4, <2>5, <2>6 DEF VisitInv
<1> QED BY <1>12, <1>13, <1>14 DEF OrgsInv

-----------------------------------------------------------------------------
(***************************************************************************)
(* The theorems.                                                           *)
(***************************************************************************)

LEMMA OrgsInitHolds == OrgsInit => OrgsInv
<1> SUFFICES ASSUME OrgsInit PROVE OrgsInv
  OBVIOUS
<1>1. /\ orgCall = [c \in OrgCalls |-> NoCall] /\ visit = NoVisit /\ orgStarted = 0
      /\ held = [always |-> {}, ever |-> {}]
  BY DEF OrgsInit
<1>2. NoVisit \in Visit /\ NoVisit.at = "idle"
  BY DEF NoVisit, Visit, Roles
<1>3. TablesOK
  <2>1. CASE org = "none"
    BY <2>1, NoCallIsIdle DEF OrgsInit, TablesOK, Roles
  <2>2. CASE org = "here"
    <3>1. TeamRanks \subseteq Permission
      BY OrgsAssumption DEF Permission, Read, None, Admin
    <3>2. team \in Team
      BY <2>2, <3>1, NoCallIsIdle DEF OrgsInit, Team
    <3> QED BY <2>2, <3>2 DEF OrgsInit, TablesOK
  <2> QED BY <2>1, <2>2 DEF OrgsInit
<1>4. held \in [{"always", "ever"} -> Grants]
  BY <1>1 DEF Grants
<1>5. OrgsTypeOK
  BY <1>1, <1>2, <1>3, <1>4, NoCallIsIdle, OrgsAssumption DEF OrgsTypeOK, TablesOK, Grants
<1>6. CallInv
  BY <1>1, NoCallIsIdle DEF CallInv, NoCall
<1>7. VisitInv
  BY <1>1, <1>2 DEF VisitInv
<1> QED BY <1>5, <1>6, <1>7 DEF OrgsInv

LEMMA OrgsStepHolds == OrgsInv /\ [OrgsNext]_orgsVars => OrgsInv'
<1>1. ASSUME OrgsInv, UNCHANGED orgsVars PROVE OrgsInv'
  BY <1>1 DEF orgsVars, OrgsInv, OrgsTypeOK, CallInv, VisitInv, Owners, GrantsOf, TeamGrants
<1>2. ASSUME OrgsInv, NEW c \in OrgCalls, OrgStep(c), Watches PROVE OrgsInv'
  <2>1. OrgsTypeOK /\ CallInv /\ VisitInv
    BY <1>2 DEF OrgsInv
  <2>2. orgCall' \in [OrgCalls -> Call] /\ CallInv'
    BY <1>2, <2>1, CallsAreKept
  <2>3. TablesOK'
    BY <1>2, <2>1, TablesAreKept
  <2>4. /\ visit' = visit
        /\ orgStarted' = orgStarted \/ (orgStarted < MaxOrgCalls /\ orgStarted' = orgStarted + 1)
    BY <1>2, CallsLeaveTheVisit
  <2>5. held' \in [{"always", "ever"} -> Grants] /\ VisitInv'
    BY <1>2, <2>1, <2>3, <2>4, HistoryIsKept
  <2>6. orgStarted' \in 0 .. MaxOrgCalls
    BY <2>1, <2>4, OrgsAssumption DEF OrgsTypeOK
  <2>7. OrgsTypeOK'
    BY <2>1, <2>2, <2>3, <2>4, <2>5, <2>6 DEF OrgsTypeOK, TablesOK, Grants
  <2> QED BY <2>2, <2>5, <2>7 DEF OrgsInv
<1> QED BY <1>1, <1>2, VisitsStart, VisitsRead DEF OrgsNext

LEMMA OrgsInvHolds == OrgsSpec => []OrgsInv
BY OrgsInitHolds, OrgsStepHolds, PTL DEF OrgsSpec

\* The tables, the calls of services/org.ts, the viewer of db/repos.ts and the history
\* stay within their types, whatever the handlers do in whatever order.
THEOREM OrgsAreTyped == OrgsSpec => []OrgsTypeOK
<1>1. OrgsInv => OrgsTypeOK
  BY DEF OrgsInv
<1> QED BY <1>1, OrgsInvHolds, PTL

\* resolvePermission (db/repos.ts:125) answers with what a grant held at some moment
\* of its queries, and with no less than any that held all along.
THEOREM PermissionsWereHeld == OrgsSpec => []PermissionIsTheHighestGrant
BY OrgsInvIsEnough, OrgsInvHolds, PTL

\* removeOrgMember (services/org.ts:221) takes the last owner only if the owners
\* changed after it counted them, or the user became one after it read the role.
THEOREM RemovalsLeaveAnOwner == OrgsSpec => RemovalsKeepAnOwner
<1>1. ASSUME OrgsInv, NEW c \in OrgCalls, RemovesMember(c), Owners # {}, Owners' = {}
      PROVE  orgCall[c].owners # Owners \/ orgCall[c].was # "owner"
  <2>1. PICK u : u = orgCall[c].user
    OBVIOUS
  <2>2. orgRole' = [orgRole EXCEPT ![u] = "none"] /\ orgCall[c].at = "write" /\ orgCall[c].op = "removeOrgMember"
    BY <1>1, <2>1 DEF RemovesMember, Writing
  <2>3. orgRole \in [Members -> Roles]
    BY <1>1 DEF OrgsInv, OrgsTypeOK
  <2>4. \A m \in Members : orgRole[m] = "owner" => m = u
    <3>1. \A m \in Members : orgRole'[m] # "owner"
      BY <1>1 DEF Owners
    <3> QED BY <2>2, <2>3, <3>1
  <2>5. Owners \subseteq {u}
    BY <2>4 DEF Owners
  <2>6. Cardinality(Owners) <= 1
    <3>1. Owners = {} \/ Owners = {u}
      BY <2>5
    <3> QED BY <3>1, FS_EmptySet, FS_Singleton
  <2> QED BY <1>1, <2>2, <2>6 DEF OrgsInv, CallInv
<1>2. OrgsInv /\ [OrgsNext]_orgsVars =>
        [\A c \in OrgCalls :
           RemovesMember(c) /\ Owners # {} /\ Owners' = {} =>
             \/ orgCall[c].owners # Owners
             \/ orgCall[c].was # "owner"]_orgsVars
  BY <1>1
<1> QED BY <1>2, OrgsInvHolds, PTL DEF OrgsSpec, RemovalsKeepAnOwner

-----------------------------------------------------------------------------
(***************************************************************************)
(* The inductive invariant of the accounts.                                *)
(***************************************************************************)

\* Ids are given out once, so that no account is written over.
IdInv ==
  /\ \A i \in DOMAIN users : i <= signInsStarted
  /\ \A s \in SignIns : signIn[s].at # "idle" =>
       signIn[s].id \in 1 .. signInsStarted /\ signIn[s].id \notin DOMAIN users
  /\ \A s, t \in SignIns : s # t /\ signIn[s].at # "idle" /\ signIn[t].at # "idle" =>
       signIn[s].id # signIn[t].id

\* Who is about to be inserted without the right to administer saw a user, and users stay.
AdminInv ==
  /\ AnAdminExists
  /\ \A s \in SignIns : signIn[s].at = "insert" => signIn[s].admin \/ DOMAIN users # {}

\* A subject is of one account, and its email is that of the account.
SubjectInv ==
  /\ \A i, j \in DOMAIN users : users[i].sub # NoSubject /\ users[i].sub = users[j].sub => i = j
  /\ \A i \in DOMAIN users : users[i].sub # NoSubject => users[i].email = EmailOf[users[i].sub]

\* A claim is for an account with the email of the identity that claims it.
ClaimInv ==
  \A s \in SignIns :
    /\ signIn[s].at \in {"email", "claim"} => ByAccess(s)
    /\ signIn[s].at = "claim" =>
         signIn[s].found \in DOMAIN users /\ users[signIn[s].found].email = EmailOf[signIn[s].sub]

\* While there is no user every sign-in under way is an early one, and so is who has
\* counted none since.
FirstInv ==
  /\ OnlyTheFirst
  /\ \A s \in SignIns :
       /\ signIn[s].at # "idle" /\ DOMAIN users = {} => signIn[s].id \in early
       /\ signIn[s].at = "insert" /\ signIn[s].admin => signIn[s].id \in early

Alone(sub) == \A other \in Subjects \ {sub} : EmailOf[other] # EmailOf[sub]

\* An account that an identity was signed in as stays its own.
AnsweredInv ==
  \A sub \in Subjects : Alone(sub) =>
    \A i \in answered[sub] : sub # NoSubject /\ i \in DOMAIN users /\ users[i].sub = sub

AccountsInv == AccountsTypeOK /\ IdInv /\ AdminInv /\ FirstInv /\ SubjectInv /\ ClaimInv /\ AnsweredInv

LEMMA AccountsInvIsEnough == AccountsInv => AccountsHold
<1> SUFFICES ASSUME AccountsInv PROVE AccountsHold
  OBVIOUS
<1>1. ASSUME NEW sub \in Subjects, Alone(sub), NEW i \in answered[sub], NEW j \in answered[sub]
      PROVE  i = j
  BY <1>1 DEF AccountsInv, AnsweredInv, SubjectInv
<1>2. ASSUME NEW sub \in Subjects
      PROVE  \/ \A i, j \in answered[sub] : i = j
             \/ \E other \in Subjects \ {sub} : EmailOf[other] = EmailOf[sub]
  BY <1>1 DEF Alone
<1>3. IdentitiesStay
  BY <1>2 DEF IdentitiesStay
<1> QED BY <1>3 DEF AccountsHold, AccountsInv, AdminInv, FirstInv

-----------------------------------------------------------------------------
(***************************************************************************)
(* What a step of a sign-in that is under way may change.                  *)
(***************************************************************************)

Proceeds(s) ==
  \/ FindsUser(s) \/ FindsByEmail(s) \/ ClaimsUser(s) \/ TriesLogin(s)
  \/ CountsUsers(s) \/ InsertsUser(s) \/ FailsSignIn(s)

LEMMA SignInHasFields ==
  ASSUME AccountsTypeOK, NEW s \in SignIns
  PROVE  /\ DOMAIN signIn = SignIns
         /\ DOMAIN signIn[s] = {"at", "id", "sub", "found", "login", "admin"}
         /\ signIn[s].id \in Nat
         /\ signIn[s].sub \in Subjects \cup {NoSubject}
         /\ signIn[s].login \in Login
         /\ signIn[s].admin \in BOOLEAN
BY DEF AccountsTypeOK, SignIn, UserIds

LEMMA NoSignInIsIdle == NoSignIn \in SignIn /\ NoSignIn.at = "idle"
<1>1. (CHOOSE n \in LoginNames : TRUE) \in LoginNames
  BY AccountsAssumption
<1> QED BY <1>1 DEF NoSignIn, SignIn, Login

\* Others stay where they are; the one that moves keeps its id and subject or is done.
LEMMA OnlyOneMoves ==
  ASSUME AccountsTypeOK, NEW s \in SignIns, Proceeds(s)
  PROVE  /\ signInsStarted' = signInsStarted /\ early' = early
         /\ signIn[s].at # "idle"
         /\ \A t \in SignIns \ {s} : signIn'[t] = signIn[t]
         /\ \/ signIn'[s].at = "idle"
            \/ signIn'[s].id = signIn[s].id /\ signIn'[s].sub = signIn[s].sub
<1> USE SignInHasFields, NoSignInIsIdle
<1>1. CASE FindsUser(s)
  BY <1>1 DEF FindsUser, AnswersAs, SignInEnds, SignInGoesTo
<1>2. CASE FindsByEmail(s)
  BY <1>2 DEF FindsByEmail, SignInGoesTo
<1>3. CASE ClaimsUser(s)
  BY <1>3 DEF ClaimsUser, AnswersAs, SignInEnds
<1>4. CASE TriesLogin(s)
  <2>1. CASE SignInGoesTo(s, "count")
    BY <1>4, <2>1 DEF TriesLogin, SignInGoesTo
  <2>2. CASE signIn' = [signIn EXCEPT ![s].login.suffix = @ + 1]
    BY <1>4, <2>2 DEF TriesLogin
  <2>3. CASE signIn' = [signIn EXCEPT ![s].login.suffix = MaxAttempts + signIn[s].id, ![s].at = "count"]
    BY <1>4, <2>3 DEF TriesLogin
  <2> QED BY <1>4, <2>1, <2>2, <2>3 DEF TriesLogin
<1>5. CASE CountsUsers(s)
  BY <1>5 DEF CountsUsers
<1>6. CASE InsertsUser(s)
  BY <1>6 DEF InsertsUser, AnswersAs, SignInEnds
<1>7. CASE FailsSignIn(s)
  BY <1>7 DEF FailsSignIn, SignInEnds
<1> QED BY <1>1, <1>2, <1>3, <1>4, <1>5, <1>6, <1>7 DEF Proceeds

\* The accounts stay as they are, but for the subject of one that is claimed and for
\* one that is new, whose sign-in is done with it.
LEMMA UsersAreKept ==
  ASSUME AccountsInv, NEW s \in SignIns, Proceeds(s)
  PROVE  \/ users' = users
         \/ /\ signIn[s].at = "claim" /\ signIn'[s].at = "idle"
            /\ users' = [users EXCEPT ![signIn[s].found].sub = signIn[s].sub]
            /\ \A j \in DOMAIN users : j # signIn[s].found => users[j].sub # signIn[s].sub
         \/ /\ signIn[s].at = "insert" /\ signIn'[s].at = "idle"
            /\ ByAccess(s) => ~HasSubject(signIn[s].sub)
            /\ DOMAIN users' = DOMAIN users \cup {signIn[s].id}
            /\ users' = [i \in DOMAIN users' |-> users'[i]]
            /\ \A i \in DOMAIN users : users'[i] = users[i]
            /\ users'[signIn[s].id] \in User
            /\ users'[signIn[s].id].sub = signIn[s].sub
            /\ users'[signIn[s].id].admin = signIn[s].admin
            /\ ByAccess(s) => users'[signIn[s].id].email = EmailOf[signIn[s].sub]
<1> USE SignInHasFields, NoSignInIsIdle
<1>0. AccountsTypeOK
  BY DEF AccountsInv
<1>1. CASE ClaimsUser(s)
  BY <1>0, <1>1 DEF ClaimsUser, AnswersAs, SignInEnds
<1>2. CASE InsertsUser(s)
  <2> DEFINE Rows(email) ==
        [i \in DOMAIN users \cup {signIn[s].id} |->
          IF i = signIn[s].id
          THEN [login |-> signIn[s].login, sub |-> signIn[s].sub, admin |-> signIn[s].admin, email |-> email]
          ELSE users[i]]
  <2>1. CASE UNCHANGED users
    BY <2>1
  <2>2. CASE ~ UNCHANGED users
    <3>1. PICK email \in {IF ByAccess(s) THEN EmailOf[signIn[s].sub] ELSE NoEmail}
                          \cup {e \in DOMAIN LoginOf : ~ByAccess(s) /\ LoginOf[e] = signIn[s].login.name} :
            users' = Rows(email)
      BY <1>2, <2>2 DEF InsertsUser
    <3>2. /\ signIn[s].at = "insert" /\ signIn'[s].at = "idle"
          /\ ByAccess(s) => ~HasSubject(signIn[s].sub)
      BY <1>0, <1>2, <2>2 DEF InsertsUser, AnswersAs, SignInEnds
    <3>3. signIn[s].id \notin DOMAIN users
      BY <3>2 DEF AccountsInv, IdInv
    <3>4. ByAccess(s) => email = EmailOf[signIn[s].sub] /\ email \in DOMAIN LoginOf
      BY <1>0, <3>1, AccountsAssumption DEF ByAccess
    <3>5. email \in DOMAIN LoginOf \cup {NoEmail}
      BY <3>1, <3>4
    <3>6. users'[signIn[s].id] =
            [login |-> signIn[s].login, sub |-> signIn[s].sub, admin |-> signIn[s].admin, email |-> email]
      BY <3>1
    <3>7. users'[signIn[s].id] \in User
      BY <1>0, <3>5, <3>6 DEF User
    <3>8. DOMAIN users' = DOMAIN users \cup {signIn[s].id} /\ \A i \in DOMAIN users : users'[i] = users[i]
      BY <3>1, <3>3
    <3>9. users' = [i \in DOMAIN users' |-> users'[i]]
      BY <3>1
    <3> QED BY <3>2, <3>4, <3>6, <3>7, <3>8, <3>9
  <2> QED BY <2>1, <2>2
<1>3. CASE FindsUser(s) \/ FindsByEmail(s) \/ TriesLogin(s) \/ CountsUsers(s) \/ FailsSignIn(s)
  BY <1>3 DEF FindsUser, FindsByEmail, TriesLogin, CountsUsers, FailsSignIn
<1> QED BY <1>1, <1>2, <1>3 DEF Proceeds

-----------------------------------------------------------------------------
(***************************************************************************)
(* Each part of the invariant.                                             *)
(***************************************************************************)

LEMMA IdInvKept ==
  ASSUME AccountsInv, NEW s \in SignIns, Proceeds(s)
  PROVE  IdInv'
<1> USE DEF AccountsInv, IdInv
<1>1. /\ signInsStarted' = signInsStarted
      /\ signIn[s].at # "idle"
      /\ \A t \in SignIns \ {s} : signIn'[t] = signIn[t]
      /\ signIn'[s].at = "idle" \/ signIn'[s].id = signIn[s].id
  BY OnlyOneMoves
<1>2. \/ DOMAIN users' = DOMAIN users
      \/ signIn'[s].at = "idle" /\ DOMAIN users' = DOMAIN users \cup {signIn[s].id}
  BY UsersAreKept
<1>3. \A i \in DOMAIN users' : i <= signInsStarted'
  <2>1. signInsStarted \in Nat /\ signIn[s].id \in 1 .. signInsStarted
    BY <1>1 DEF AccountsTypeOK
  <2> QED BY <1>1, <1>2, <2>1
<1>4. ASSUME NEW t \in SignIns, signIn'[t].at # "idle"
      PROVE  signIn'[t].id \in 1 .. signInsStarted' /\ signIn'[t].id \notin DOMAIN users'
  <2>1. CASE t = s
    BY <1>1, <1>2, <1>4, <2>1
  <2>2. CASE t # s
    BY <1>1, <1>2, <1>4, <2>2
  <2> QED BY <2>1, <2>2
<1>5. ASSUME NEW t \in SignIns, NEW u \in SignIns, t # u, signIn'[t].at # "idle", signIn'[u].at # "idle"
      PROVE  signIn'[t].id # signIn'[u].id
  BY <1>1, <1>5
<1> QED BY <1>3, <1>4, <1>5

LEMMA AdminInvKept ==
  ASSUME AccountsInv, NEW s \in SignIns, Proceeds(s)
  PROVE  AdminInv'
<1> USE DEF AccountsInv, AdminInv
<1>1. \A t \in SignIns \ {s} : signIn'[t] = signIn[t]
  BY OnlyOneMoves
<1>2. DOMAIN users \subseteq DOMAIN users'
  BY UsersAreKept
<1>3. \A i \in DOMAIN users : users'[i].admin = users[i].admin
  <2>1. \A i \in DOMAIN users : DOMAIN users[i] = {"login", "email", "sub", "admin"}
    BY DEF AccountsTypeOK, User
  <2>2. CASE users' = [users EXCEPT ![signIn[s].found].sub = signIn[s].sub]
    BY <2>1, <2>2
  <2>3. CASE \A i \in DOMAIN users : users'[i] = users[i]
    BY <2>3
  <2> QED BY <2>2, <2>3, UsersAreKept
<1>4. AnAdminExists'
  <2>1. CASE DOMAIN users # {}
    BY <1>2, <1>3, <2>1 DEF AnAdminExists
  <2>2. CASE DOMAIN users = {}
    BY <2>2, UsersAreKept DEF AnAdminExists
  <2> QED BY <2>1, <2>2
<1>5. signIn'[s].at = "insert" => signIn'[s].admin \/ DOMAIN users' # {}
  <2> USE SignInHasFields, NoSignInIsIdle
  <2>1. CASE CountsUsers(s)
    BY <2>1 DEF CountsUsers, IsFirst
  <2>2. CASE FindsUser(s)
    BY <2>2 DEF FindsUser, AnswersAs, SignInEnds, SignInGoesTo
  <2>3. CASE FindsByEmail(s)
    BY <2>3 DEF FindsByEmail, SignInGoesTo
  <2>4. CASE ClaimsUser(s)
    BY <2>4 DEF ClaimsUser, AnswersAs, SignInEnds
  <2>5. CASE TriesLogin(s)
    <3>2. \/ SignInGoesTo(s, "count")
          \/ signIn' = [signIn EXCEPT ![s].login.suffix = @ + 1]
          \/ signIn' = [signIn EXCEPT ![s].login.suffix = MaxAttempts + signIn[s].id, ![s].at = "count"]
      BY <2>5 DEF TriesLogin
    <3>3. signIn[s].at = "login"
      BY <2>5 DEF TriesLogin
    <3> QED BY <3>2, <3>3 DEF SignInGoesTo
  <2>6. CASE InsertsUser(s)
    BY <2>6 DEF InsertsUser, AnswersAs, SignInEnds
  <2>7. CASE FailsSignIn(s)
    BY <2>7 DEF FailsSignIn, SignInEnds
  <2> QED BY <2>1, <2>2, <2>3, <2>4, <2>5, <2>6, <2>7 DEF Proceeds
<1>6. ASSUME NEW t \in SignIns, signIn'[t].at = "insert"
      PROVE  signIn'[t].admin \/ DOMAIN users' # {}
  BY <1>1, <1>2, <1>5, <1>6
<1> QED BY <1>4, <1>6

\* Only a sign-in that counts gets the right to administer.
LEMMA CountingDecides ==
  ASSUME AccountsInv, NEW s \in SignIns, Proceeds(s), signIn'[s].at = "insert"
  PROVE  signIn'[s].id = signIn[s].id /\ (signIn'[s].admin => DOMAIN users = {})
<1> USE SignInHasFields, NoSignInIsIdle DEF AccountsInv
<1>1. CASE CountsUsers(s)
  BY <1>1 DEF CountsUsers, IsFirst
<1>2. CASE FindsUser(s)
  BY <1>2 DEF FindsUser, AnswersAs, SignInEnds, SignInGoesTo
<1>3. CASE FindsByEmail(s)
  BY <1>3 DEF FindsByEmail, SignInGoesTo
<1>4. CASE ClaimsUser(s)
  BY <1>4 DEF ClaimsUser, AnswersAs, SignInEnds
<1>5. CASE TriesLogin(s)
  <2>1. \/ SignInGoesTo(s, "count")
        \/ signIn' = [signIn EXCEPT ![s].login.suffix = @ + 1]
        \/ signIn' = [signIn EXCEPT ![s].login.suffix = MaxAttempts + signIn[s].id, ![s].at = "count"]
    BY <1>5 DEF TriesLogin
  <2>2. signIn[s].at = "login"
    BY <1>5 DEF TriesLogin
  <2> QED BY <2>1, <2>2 DEF SignInGoesTo
<1>6. CASE InsertsUser(s)
  BY <1>6 DEF InsertsUser, AnswersAs, SignInEnds
<1>7. CASE FailsSignIn(s)
  BY <1>7 DEF FailsSignIn, SignInEnds
<1> QED BY <1>1, <1>2, <1>3, <1>4, <1>5, <1>6, <1>7 DEF Proceeds

LEMMA FirstInvKept ==
  ASSUME AccountsInv, NEW s \in SignIns, Proceeds(s)
  PROVE  FirstInv'
<1> USE DEF AccountsInv, FirstInv
<1>1. /\ early' = early
      /\ signIn[s].at # "idle"
      /\ \A t \in SignIns \ {s} : signIn'[t] = signIn[t]
      /\ signIn'[s].at = "idle" \/ signIn'[s].id = signIn[s].id
  BY OnlyOneMoves
<1>2. DOMAIN users \subseteq DOMAIN users'
  BY UsersAreKept
<1>3. ASSUME NEW i \in DOMAIN users', users'[i].admin
      PROVE  i \in early'
  <2>1. \A j \in DOMAIN users : DOMAIN users[j] = {"login", "email", "sub", "admin"}
    BY DEF AccountsTypeOK, User
  <2>2. CASE users' = users
    BY <1>1, <1>3, <2>2 DEF OnlyTheFirst
  <2>3. CASE users' = [users EXCEPT ![signIn[s].found].sub = signIn[s].sub]
    <3>1. i \in DOMAIN users /\ users'[i].admin = users[i].admin
      BY <2>1, <2>3
    <3> QED BY <1>1, <1>3, <3>1 DEF OnlyTheFirst
  <2>4. CASE /\ signIn[s].at = "insert"
             /\ DOMAIN users' = DOMAIN users \cup {signIn[s].id}
             /\ \A j \in DOMAIN users : users'[j] = users[j]
             /\ users'[signIn[s].id].admin = signIn[s].admin
    <3>1. CASE i \in DOMAIN users
      BY <1>1, <1>3, <2>4, <3>1 DEF OnlyTheFirst
    <3>2. CASE i = signIn[s].id
      BY <1>1, <1>3, <2>4, <3>2
    <3> QED BY <2>4, <3>1, <3>2
  <2> QED BY <2>2, <2>3, <2>4, UsersAreKept
<1>4. ASSUME NEW t \in SignIns
      PROVE  /\ signIn'[t].at # "idle" /\ DOMAIN users' = {} => signIn'[t].id \in early'
             /\ signIn'[t].at = "insert" /\ signIn'[t].admin => signIn'[t].id \in early'
  <2>1. CASE t # s
    BY <1>1, <1>2, <2>1
  <2>2. CASE t = s
    <3>1. signIn'[s].at # "idle" /\ DOMAIN users' = {} => signIn'[s].id \in early'
      BY <1>1, <1>2
    <3>2. signIn'[s].at = "insert" /\ signIn'[s].admin => signIn'[s].id \in early'
      BY <1>1, CountingDecides
    <3> QED BY <2>2, <3>1, <3>2
  <2> QED BY <2>1, <2>2
<1>5. OnlyTheFirst'
  BY <1>3 DEF OnlyTheFirst
<1> QED BY <1>4, <1>5

LEMMA SubjectInvKept ==
  ASSUME AccountsInv, NEW s \in SignIns, Proceeds(s)
  PROVE  SubjectInv'
<1> USE DEF AccountsInv, SubjectInv
<1>0. \A i \in DOMAIN users : DOMAIN users[i] = {"login", "email", "sub", "admin"}
  BY DEF AccountsTypeOK, User
<1>1. CASE users' = users
  BY <1>1
<1>2. CASE /\ signIn[s].at = "claim"
           /\ users' = [users EXCEPT ![signIn[s].found].sub = signIn[s].sub]
           /\ \A j \in DOMAIN users : j # signIn[s].found => users[j].sub # signIn[s].sub
  <2>1. /\ signIn[s].found \in DOMAIN users
        /\ users[signIn[s].found].email = EmailOf[signIn[s].sub]
    BY <1>2 DEF ClaimInv
  <2>2. /\ DOMAIN users' = DOMAIN users
        /\ users'[signIn[s].found].sub = signIn[s].sub
        /\ users'[signIn[s].found].email = users[signIn[s].found].email
        /\ \A j \in DOMAIN users : j # signIn[s].found => users'[j] = users[j]
    BY <1>0, <1>2, <2>1
  <2> QED BY <1>2, <2>1, <2>2
<1>3. CASE /\ ByAccess(s) => ~HasSubject(signIn[s].sub)
           /\ DOMAIN users' = DOMAIN users \cup {signIn[s].id}
           /\ \A i \in DOMAIN users : users'[i] = users[i]
           /\ users'[signIn[s].id].sub = signIn[s].sub
           /\ ByAccess(s) => users'[signIn[s].id].email = EmailOf[signIn[s].sub]
  <2>1. signIn[s].sub # NoSubject =>
          /\ \A i \in DOMAIN users : users[i].sub # signIn[s].sub
          /\ users'[signIn[s].id].email = EmailOf[signIn[s].sub]
    BY <1>3 DEF ByAccess, HasSubject
  <2> QED BY <1>3, <2>1
<1> QED BY <1>1, <1>2, <1>3, UsersAreKept

LEMMA ClaimInvKept ==
  ASSUME AccountsInv, NEW s \in SignIns, Proceeds(s)
  PROVE  ClaimInv'
<1> USE DEF AccountsInv
<1> USE SignInHasFields, NoSignInIsIdle
<1>1. /\ \A t \in SignIns \ {s} : signIn'[t] = signIn[t]
      /\ signIn'[s].at = "idle" \/ signIn'[s].sub = signIn[s].sub
  BY OnlyOneMoves
<1>2. /\ DOMAIN users \subseteq DOMAIN users'
      /\ \A i \in DOMAIN users : users'[i].email = users[i].email
  <2>1. \A i \in DOMAIN users : DOMAIN users[i] = {"login", "email", "sub", "admin"}
    BY DEF AccountsTypeOK, User
  <2>2. CASE users' = [users EXCEPT ![signIn[s].found].sub = signIn[s].sub]
    BY <2>1, <2>2
  <2>3. CASE DOMAIN users \subseteq DOMAIN users' /\ \A i \in DOMAIN users : users'[i] = users[i]
    BY <2>3
  <2> QED BY <2>2, <2>3, UsersAreKept
<1>3. signIn'[s].at \in {"email", "claim"} => signIn[s].sub # NoSubject
  <2>1. CASE FindsUser(s)
    BY <2>1 DEF FindsUser, AnswersAs, SignInEnds, SignInGoesTo, ByAccess
  <2>2. CASE FindsByEmail(s)
    BY <2>2 DEF FindsByEmail, ClaimInv, ByAccess
  <2>3. CASE ClaimsUser(s)
    BY <2>3 DEF ClaimsUser, AnswersAs, SignInEnds
  <2>4. CASE TriesLogin(s)
    <3>1. signIn[s].at = "login"
      BY <2>4 DEF TriesLogin
    <3> QED BY <2>4, <3>1 DEF TriesLogin, SignInGoesTo
  <2>5. CASE CountsUsers(s)
    BY <2>5 DEF CountsUsers
  <2>6. CASE InsertsUser(s)
    BY <2>6 DEF InsertsUser, AnswersAs, SignInEnds
  <2>7. CASE FailsSignIn(s)
    BY <2>7 DEF FailsSignIn, SignInEnds
  <2> QED BY <2>1, <2>2, <2>3, <2>4, <2>5, <2>6, <2>7 DEF Proceeds
<1>4. signIn'[s].at = "claim" =>
        signIn'[s].found \in DOMAIN users /\ users[signIn'[s].found].email = EmailOf[signIn[s].sub]
  <2>1. CASE FindsUser(s)
    BY <2>1 DEF FindsUser, AnswersAs, SignInEnds, SignInGoesTo
  <2>2. CASE FindsByEmail(s)
    BY <2>2 DEF FindsByEmail, SignInGoesTo, Claimable
  <2>3. CASE ClaimsUser(s)
    BY <2>3 DEF ClaimsUser, AnswersAs, SignInEnds
  <2>4. CASE TriesLogin(s)
    <3>1. signIn[s].at = "login"
      BY <2>4 DEF TriesLogin
    <3> QED BY <2>4, <3>1 DEF TriesLogin, SignInGoesTo
  <2>5. CASE CountsUsers(s)
    BY <2>5 DEF CountsUsers
  <2>6. CASE InsertsUser(s)
    BY <2>6 DEF InsertsUser, AnswersAs, SignInEnds
  <2>7. CASE FailsSignIn(s)
    BY <2>7 DEF FailsSignIn, SignInEnds
  <2> QED BY <2>1, <2>2, <2>3, <2>4, <2>5, <2>6, <2>7 DEF Proceeds
<1>5. ASSUME NEW t \in SignIns
      PROVE  /\ signIn'[t].at \in {"email", "claim"} => ByAccess(t)'
             /\ signIn'[t].at = "claim" =>
                  /\ signIn'[t].found \in DOMAIN users'
                  /\ users'[signIn'[t].found].email = EmailOf[signIn'[t].sub]
  <2>1. CASE t = s
    BY <1>1, <1>2, <1>3, <1>4, <2>1 DEF ByAccess
  <2>2. CASE t # s
    BY <1>1, <1>2, <2>2 DEF ByAccess, ClaimInv
  <2> QED BY <2>1, <2>2
<1> QED BY <1>5 DEF ClaimInv

\* Whoever is answered has been found under the subject, or gets it with the answer.
LEMMA AnswersAreRight ==
  ASSUME AccountsInv, NEW s \in SignIns, Proceeds(s)
  PROVE  \/ answered' = answered
         \/ \E i \in DOMAIN users' :
              /\ answered' = [answered EXCEPT ![signIn[s].sub] = @ \cup {i}]
              /\ signIn[s].sub \in Subjects /\ signIn[s].sub # NoSubject
              /\ users'[i].sub = signIn[s].sub
<1> USE SignInHasFields DEF AccountsInv
<1>1. CASE FindsUser(s)
  BY <1>1 DEF FindsUser, AnswersAs, ByAccess
<1>2. CASE ClaimsUser(s)
  <2>1. signIn[s].found \in DOMAIN users /\ DOMAIN users[signIn[s].found] = {"login", "email", "sub", "admin"}
    BY <1>2 DEF ClaimsUser, ClaimInv, AccountsTypeOK, User
  <2>2. CASE UNCHANGED answered
    BY <2>2
  <2>3. CASE users' = [users EXCEPT ![signIn[s].found].sub = signIn[s].sub] /\ AnswersAs(s, signIn[s].found)
    BY <2>1, <2>3 DEF AnswersAs, ByAccess
  <2> QED BY <1>2, <2>2, <2>3 DEF ClaimsUser
<1>3. CASE InsertsUser(s)
  <2>1. CASE UNCHANGED answered
    BY <2>1
  <2>2. CASE ~ UNCHANGED answered
    <3>1. AnswersAs(s, signIn[s].id) /\ signIn[s].id \in DOMAIN users' /\ users'[signIn[s].id].sub = signIn[s].sub
      BY <1>3, <2>2 DEF InsertsUser
    <3> QED BY <2>2, <3>1 DEF AnswersAs, ByAccess
  <2> QED BY <2>1, <2>2
<1>4. CASE FindsByEmail(s) \/ TriesLogin(s) \/ CountsUsers(s) \/ FailsSignIn(s)
  BY <1>4 DEF FindsByEmail, TriesLogin, CountsUsers, FailsSignIn
<1> QED BY <1>1, <1>2, <1>3, <1>4 DEF Proceeds

LEMMA AnsweredInvKept ==
  ASSUME AccountsInv, NEW s \in SignIns, Proceeds(s)
  PROVE  AnsweredInv'
<1> USE DEF AccountsInv
<1> SUFFICES ASSUME NEW sub \in Subjects, Alone(sub), NEW i \in answered'[sub]
             PROVE  sub # NoSubject /\ i \in DOMAIN users' /\ users'[i].sub = sub
  BY DEF AnsweredInv, Alone
<1>1. CASE i \in answered[sub]
  <2>1. sub # NoSubject /\ i \in DOMAIN users /\ users[i].sub = sub
    BY <1>1 DEF AnsweredInv
  <2>2. users[i].email = EmailOf[sub]
    BY <2>1 DEF SubjectInv
  <2>3. CASE users' = users
    BY <2>1, <2>3
  <2>4. CASE signIn[s].at = "claim" /\ users' = [users EXCEPT ![signIn[s].found].sub = signIn[s].sub]
    <3>1. DOMAIN users[i] = {"login", "email", "sub", "admin"}
      BY <2>1 DEF AccountsTypeOK, User
    <3>2. CASE signIn[s].found # i
      BY <2>1, <2>4, <3>2
    <3>3. CASE signIn[s].found = i
      <4>1. EmailOf[signIn[s].sub] = EmailOf[sub] /\ signIn[s].sub \in Subjects
        BY <2>2, <2>4, <3>3, SignInHasFields DEF ClaimInv, ByAccess
      <4>2. signIn[s].sub = sub
        BY <4>1 DEF Alone
      <4> QED BY <2>1, <2>4, <3>1, <3>3, <4>2
    <3> QED BY <3>2, <3>3
  <2>5. CASE DOMAIN users \subseteq DOMAIN users' /\ \A j \in DOMAIN users : users'[j] = users[j]
    BY <2>1, <2>5
  <2> QED BY <2>3, <2>4, <2>5, UsersAreKept
<1>2. CASE i \notin answered[sub]
  <2>1. answered \in [Subjects -> SUBSET UserIds]
    BY DEF AccountsTypeOK
  <2>2. answered' # answered
    BY <1>2
  <2>3. PICK j \in DOMAIN users' :
          /\ answered' = [answered EXCEPT ![signIn[s].sub] = @ \cup {j}]
          /\ signIn[s].sub \in Subjects /\ signIn[s].sub # NoSubject
          /\ users'[j].sub = signIn[s].sub
    BY <2>2, AnswersAreRight
  <2>4. signIn[s].sub = sub /\ i = j
    BY <1>2, <2>1, <2>3
  <2> QED BY <2>3, <2>4
<1> QED BY <1>1, <1>2

LEMMA TypeKept ==
  ASSUME AccountsInv, NEW s \in SignIns, Proceeds(s)
  PROVE  AccountsTypeOK'
<1> USE SignInHasFields, NoSignInIsIdle DEF AccountsInv
<1>1. signIn' \in [SignIns -> SignIn]
  <2> SUFFICES signIn' = [signIn EXCEPT ![s] = signIn'[s]] /\ signIn'[s] \in SignIn
    BY DEF AccountsTypeOK
  <2>0. signIn[s] \in SignIn
    BY DEF AccountsTypeOK
  <2>1. CASE FindsUser(s)
    BY <2>0, <2>1 DEF FindsUser, AnswersAs, SignInEnds, SignInGoesTo, SignIn
  <2>2. CASE FindsByEmail(s)
    <3>1. CASE SignInGoesTo(s, "login")
      BY <2>0, <3>1 DEF SignInGoesTo, SignIn
    <3>2. ASSUME NEW i \in DOMAIN users, signIn' = [signIn EXCEPT ![s].at = "claim", ![s].found = i]
          PROVE  signIn' = [signIn EXCEPT ![s] = signIn'[s]] /\ signIn'[s] \in SignIn
      <4>1. signIn'[s] = [signIn[s] EXCEPT !.at = "claim", !.found = i]
        BY <3>2
      <4>2. i \in UserIds
        BY DEF AccountsTypeOK
      <4>3. signIn'[s] \in SignIn
        BY <2>0, <4>1, <4>2 DEF SignIn
      <4> QED BY <3>2, <4>3
    <3> QED BY <2>2, <3>1, <3>2 DEF FindsByEmail
  <2>3. CASE ClaimsUser(s)
    BY <2>3 DEF ClaimsUser, AnswersAs, SignInEnds
  <2>4. CASE TriesLogin(s)
    <3>1. signIn[s].login.suffix \in Nat
      BY DEF Login
    <3>2. CASE SignInGoesTo(s, "count")
      BY <2>0, <3>2 DEF SignInGoesTo, SignIn
    <3>3. ASSUME NEW n \in Nat PROVE [signIn[s].login EXCEPT !.suffix = n] \in Login
      BY DEF Login
    <3>4. CASE signIn' = [signIn EXCEPT ![s].login.suffix = @ + 1]
      <4>1. signIn'[s] = [signIn[s] EXCEPT !.login = [signIn[s].login EXCEPT !.suffix = signIn[s].login.suffix + 1]]
        BY <3>4
      <4>2. signIn'[s] \in SignIn
        BY <2>0, <3>1, <3>3, <4>1 DEF SignIn
      <4> QED BY <3>4, <4>2
    <3>5. CASE signIn' = [signIn EXCEPT ![s].login.suffix = MaxAttempts + signIn[s].id, ![s].at = "count"]
      <4>1. signIn'[s] = [signIn[s] EXCEPT !.login = [signIn[s].login EXCEPT !.suffix = MaxAttempts + signIn[s].id],
                                           !.at = "count"]
        BY <3>5
      <4>2. MaxAttempts + signIn[s].id \in Nat
        BY AccountsAssumption
      <4>3. signIn'[s] \in SignIn
        BY <2>0, <3>3, <4>1, <4>2 DEF SignIn
      <4> QED BY <3>5, <4>3
    <3> QED BY <2>4, <3>2, <3>4, <3>5 DEF TriesLogin
  <2>5. CASE CountsUsers(s)
    BY <2>0, <2>5 DEF CountsUsers, IsFirst, SignIn
  <2>6. CASE InsertsUser(s)
    BY <2>6 DEF InsertsUser, AnswersAs, SignInEnds
  <2>7. CASE FailsSignIn(s)
    BY <2>7 DEF FailsSignIn, SignInEnds
  <2> QED BY <2>1, <2>2, <2>3, <2>4, <2>5, <2>6, <2>7 DEF Proceeds
<1>2. signIn[s].at # "idle" => signIn[s].id \in UserIds
  BY AccountsAssumption DEF IdInv, AccountsTypeOK, UserIds
<1>3. DOMAIN users' \subseteq UserIds /\ users' \in [DOMAIN users' -> User]
  <2>1. CASE users' = users
    BY <2>1 DEF AccountsTypeOK
  <2>2. CASE signIn[s].at = "claim" /\ users' = [users EXCEPT ![signIn[s].found].sub = signIn[s].sub]
    <3>1. \A i \in DOMAIN users : [users[i] EXCEPT !.sub = signIn[s].sub] \in User
      BY DEF AccountsTypeOK, User
    <3> QED BY <2>2, <3>1 DEF AccountsTypeOK
  <2>3. CASE /\ signIn[s].at = "insert"
             /\ DOMAIN users' = DOMAIN users \cup {signIn[s].id}
             /\ users' = [i \in DOMAIN users' |-> users'[i]]
             /\ \A i \in DOMAIN users : users'[i] = users[i]
             /\ users'[signIn[s].id] \in User
    <3>1. \A i \in DOMAIN users' : users'[i] \in User
      BY <2>3 DEF AccountsTypeOK
    <3> QED BY <1>2, <2>3, <3>1 DEF AccountsTypeOK
  <2> QED BY <2>1, <2>2, <2>3, UsersAreKept
<1>4. answered' \in [Subjects -> SUBSET UserIds]
  BY <1>3, AnswersAreRight DEF AccountsTypeOK
<1>5. UNCHANGED signInsStarted /\ UNCHANGED accessConfigured /\ UNCHANGED early
  BY OnlyOneMoves DEF Proceeds, FindsUser, FindsByEmail, ClaimsUser, TriesLogin, CountsUsers,
     InsertsUser, FailsSignIn
<1> QED BY <1>1, <1>3, <1>4, <1>5 DEF AccountsTypeOK

\* A sign-in that starts knows its identity, and takes a number nobody had.
LEMMA StartKeepsAccountsInv ==
  ASSUME AccountsInv, NEW s \in SignIns, StartsSignIn(s)
  PROVE  AccountsInv'
<1> USE SignInHasFields, NoSignInIsIdle DEF AccountsInv
<1>1. signInsStarted \in Nat /\ signInsStarted' = signInsStarted + 1 /\ signInsStarted' \in UserIds
  <2>1. signInsStarted \in 0 .. MaxSignIns
    BY DEF AccountsTypeOK
  <2>2. signInsStarted < MaxSignIns /\ signInsStarted' = signInsStarted + 1
    BY DEF StartsSignIn
  <2> QED BY <2>1, <2>2, AccountsAssumption DEF UserIds
<1>2. UNCHANGED <<accessConfigured, users, answered>>
  BY DEF StartsSignIn
<1>3. /\ signIn' = [signIn EXCEPT ![s] = signIn'[s]]
      /\ signIn'[s].at = "find"
      /\ signIn'[s].id = signInsStarted'
      /\ signIn'[s] \in SignIn
  <2> DEFINE fresh == [NoSignIn EXCEPT !.at = "find", !.id = signInsStarted + 1]
  <2>1. fresh \in SignIn /\ fresh.at = "find" /\ fresh.id = signInsStarted'
    BY <1>1 DEF SignIn
  <2>2. ASSUME NEW sub \in Subjects,
               signIn' = [signIn EXCEPT ![s] = [fresh EXCEPT !.sub = sub, !.login = [name |-> LoginOf[EmailOf[sub]], suffix |-> 1]]]
        PROVE  signIn'[s].at = "find" /\ signIn'[s].id = signInsStarted' /\ signIn'[s] \in SignIn
    <3>1. [name |-> LoginOf[EmailOf[sub]], suffix |-> 1] \in Login
      BY AccountsAssumption DEF Login
    <3>2. signIn'[s] = [fresh EXCEPT !.sub = sub, !.login = [name |-> LoginOf[EmailOf[sub]], suffix |-> 1]]
      BY <2>2
    <3> HIDE DEF fresh
    <3>3. signIn'[s] \in SignIn
      <4>1. [fresh EXCEPT !.sub = sub] \in SignIn
        BY <2>1 DEF SignIn
      <4>2. ASSUME NEW y \in SignIn, NEW l \in Login
            PROVE  [y EXCEPT !.login = l] \in SignIn
        BY DEF SignIn
      <4> QED BY <3>1, <3>2, <4>1, <4>2
    <3>4. signIn'[s].at = fresh.at /\ signIn'[s].id = fresh.id
      BY <2>1, <3>2, SMTT(30) DEF SignIn
    <3> QED BY <2>1, <3>3, <3>4
  <2>3. ASSUME NEW n \in LoginNames,
               signIn' = [signIn EXCEPT ![s] = [fresh EXCEPT !.login = [name |-> n, suffix |-> 1]]]
        PROVE  signIn'[s].at = "find" /\ signIn'[s].id = signInsStarted' /\ signIn'[s] \in SignIn
    <3>1. [name |-> n, suffix |-> 1] \in Login
      BY DEF Login
    <3>2. signIn'[s] = [fresh EXCEPT !.login = [name |-> n, suffix |-> 1]]
      BY <2>3
    <3> HIDE DEF fresh
    <3> QED BY <2>1, <3>1, <3>2 DEF SignIn
  <2>4. signIn' = [signIn EXCEPT ![s] = signIn'[s]]
    BY DEF StartsSignIn
  <2> QED BY <2>2, <2>3, <2>4 DEF StartsSignIn
<1>4. signIn' \in [SignIns -> SignIn] /\ \A t \in SignIns \ {s} : signIn'[t] = signIn[t]
  BY <1>3 DEF AccountsTypeOK
<1>0. early' = early \cup (IF DOMAIN users = {} THEN {signInsStarted'} ELSE {})
  BY <1>1 DEF StartsSignIn
<1>5. AccountsTypeOK'
  <2>1. signInsStarted' \in 0 .. MaxSignIns
    BY <1>1 DEF UserIds
  <2>2. early' \subseteq UserIds
    BY <1>0, <1>1 DEF AccountsTypeOK
  <2> QED BY <1>2, <1>4, <2>1, <2>2 DEF AccountsTypeOK
<1>6. IdInv'
  <2>1. \A i \in DOMAIN users : i \in Nat /\ i <= signInsStarted
    BY DEF IdInv, AccountsTypeOK, UserIds
  <2>2. \A t \in SignIns : t # s /\ signIn'[t].at # "idle" =>
          signIn'[t].id \in 1 .. signInsStarted /\ signIn'[t].id \notin DOMAIN users
    BY <1>4 DEF IdInv
  <2>3. \A t, u \in SignIns : t # u /\ signIn'[t].at # "idle" /\ signIn'[u].at # "idle" =>
          signIn'[t].id # signIn'[u].id
    BY <1>1, <1>3, <1>4, <2>2 DEF IdInv
  <2> QED BY <1>1, <1>2, <1>3, <2>1, <2>2, <2>3 DEF IdInv
<1>7. AdminInv'
  BY <1>2, <1>3, <1>4 DEF AdminInv, AnAdminExists
<1>8. SubjectInv'
  BY <1>2 DEF SubjectInv
<1>9. ClaimInv'
  <2>1. \A t \in SignIns : signIn'[t].at \in {"email", "claim"} => t # s /\ signIn'[t] = signIn[t]
    BY <1>3, <1>4
  <2> QED BY <1>2, <2>1 DEF ClaimInv, ByAccess
<1>10. AnsweredInv'
  BY <1>2 DEF AnsweredInv, Alone
<1>11. FirstInv'
  <2>1. early \subseteq early' /\ OnlyTheFirst'
    BY <1>0, <1>2 DEF FirstInv, OnlyTheFirst
  <2>2. DOMAIN users = {} => signIn'[s].id \in early'
    BY <1>0, <1>3
  <2>3. ASSUME NEW t \in SignIns
        PROVE  /\ signIn'[t].at # "idle" /\ DOMAIN users' = {} => signIn'[t].id \in early'
               /\ signIn'[t].at = "insert" /\ signIn'[t].admin => signIn'[t].id \in early'
    <3>1. CASE t = s
      BY <1>2, <1>3, <2>2, <3>1
    <3>2. CASE t # s
      BY <1>2, <1>4, <2>1, <3>2 DEF FirstInv
    <3> QED BY <3>1, <3>2
  <2> QED BY <2>1, <2>3 DEF FirstInv
<1> QED BY <1>5, <1>6, <1>7, <1>8, <1>9, <1>10, <1>11

LEMMA AccountsInvKept == AccountsInv /\ [AccountsNext]_accountsVars => AccountsInv'
<1> SUFFICES ASSUME AccountsInv, [AccountsNext]_accountsVars PROVE AccountsInv'
  OBVIOUS
<1>1. CASE UNCHANGED <<users, signIn, answered, early, signInsStarted>> /\ accessConfigured' \in BOOLEAN
  BY <1>1 DEF AccountsInv, AccountsTypeOK, IdInv, AdminInv, AnAdminExists, FirstInv, OnlyTheFirst, SubjectInv, ClaimInv, ByAccess,
     AnsweredInv, Alone
<1>2. CASE UNCHANGED accountsVars
  BY <1>1, <1>2 DEF accountsVars, AccountsInv, AccountsTypeOK
<1>3. CASE ConfiguresAccess
  BY <1>1, <1>3 DEF ConfiguresAccess
<1>4. ASSUME NEW s \in SignIns, StartsSignIn(s) PROVE AccountsInv'
  BY <1>4, StartKeepsAccountsInv
<1>5. ASSUME NEW s \in SignIns, Proceeds(s) PROVE AccountsInv'
  BY <1>5, TypeKept, IdInvKept, AdminInvKept, FirstInvKept, SubjectInvKept, ClaimInvKept, AnsweredInvKept DEF AccountsInv
<1> QED BY <1>2, <1>3, <1>4, <1>5 DEF AccountsNext, Proceeds

-----------------------------------------------------------------------------
(***************************************************************************)
(* Theorems of the accounts.                                               *)
(***************************************************************************)

LEMMA AccountsInvHolds == AccountsSpec => []AccountsInv
<1>1. AccountsInit => AccountsInv
  <2> SUFFICES ASSUME AccountsInit PROVE AccountsInv
    OBVIOUS
  <2>1. \A s \in SignIns : signIn[s].at = "idle"
    BY NoSignInIsIdle DEF AccountsInit
  <2>2. AccountsTypeOK
    BY NoSignInIsIdle, AccountsAssumption DEF AccountsInit, AccountsTypeOK
  <2>3. DOMAIN users = {} /\ \A sub \in Subjects : answered[sub] = {}
    BY DEF AccountsInit
  <2> QED BY <2>1, <2>2, <2>3 DEF AccountsInv, IdInv, AdminInv, AnAdminExists, FirstInv, OnlyTheFirst, SubjectInv, ClaimInv, AnsweredInv
<1> QED BY <1>1, AccountsInvKept, PTL DEF AccountsSpec

\* Every reachable state has its type: no account is made under an id that was not
\* given out, and no identity is answered with one.
THEOREM AccountsAreTyped == AccountsSpec => []AccountsTypeOK
<1>1. AccountsInv => AccountsTypeOK
  BY DEF AccountsInv
<1> QED BY <1>1, AccountsInvHolds, PTL

\* upsertAccessUser and the form of dev-login.ts leave no site without an administrator,
\* make nobody one whose sign-in began after there was a user, and an identity that shares its email with none is one account for ever, whatever
\* sign-ins race, fail or come before Access is configured.
THEOREM IdentitiesAndAdmin == AccountsSpec => []AccountsHold
BY AccountsInvHolds, AccountsInvIsEnough, PTL
=============================================================================
