CONSTANTS
 Parts = {"orgs"}
 Users = {u1, u2}
 Calls = {c1, c2}
 Things = {n1, n2}
 alice = alice
 bob = bob
 carol = carol
 mail = mail
 shared = shared
 name = name
 Members = {u1, u2}
 SiteAdmins = {}
 OrgCalls = {c1, c2}
 TeamRanks = {1, 3}
 MaxOrgCalls = 2
 People = {u1, u2}
 Labels = {bug}
 Comments = {n1, n2}
 IssueCalls = {c1, c2}
 MaxIssueCalls = 2
 Posters = {c1, c2}
 MaxEntries = 4
 PageLimit = 1
 Names = {n1, n2}
 Starrers = {u1, u2}
 RepoCalls = {c1, c2}
 MaxRepoCalls = 4
 Pages = {home, guide}
 Texts = {n1, n2}
 Edits = {c1, c2}
 MaxEdits = 4
 Tags = {v1, v2}
 Files = {f1}
 ReleaseCalls = {c1, c2}
 MaxReleaseCalls = 4
 Subjects = {alice, bob, carol}
 EmailOf <- Emails
 LoginNames = {name}
 LoginOf <- LoginNameOf
 MaxAttempts = 2
 SignIns = {c1, c2}
 MaxSignIns = 4
 Letters = {a, b}
 MaxLines = 4
 ContextLines = {1, 2}
SPECIFICATION ForgeSpec
INVARIANT AnOwnerRemains
SYMMETRY Symmetry
CHECK_DEADLOCK FALSE
