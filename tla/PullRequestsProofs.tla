------------------------- MODULE PullRequestsProofs -------------------------
(***************************************************************************)
(* Proofs about PullRequests, for every set of branches, requests, commits *)
(* and numbers.                                                            *)
(*                                                                         *)
(* The inductive invariant joins what each module alone cannot see: the    *)
(* ancestry the remote keeps (GitInv), what a handler carries between two  *)
(* awaits (RowInv, ReqInv) and the history of landings (LandInv).          *)
(***************************************************************************)
EXTENDS PullRequests, FiniteSetTheorems, TLAPS

\* Ancestry is reflexive and transitive, an ancestor is older than its
\* descendants, and nothing points at a commit that does not exist.
GitInv ==
  /\ \A b \in Branches : refs[b] \in 0 .. nCommits
  /\ \A c \in CommitIds : c > nCommits => anc[c] = {}
  /\ \A c \in 1 .. nCommits :
       /\ c \in anc[c]
       /\ anc[c] \subseteq 1 .. c
       /\ \A d \in anc[c] : anc[d] \subseteq anc[c]

\* A row that exists names two branches.
RowInv ==
  \A n \in Numbers : Exists(n) => pulls[n].base \in Branches /\ pulls[n].head \in Branches

\* What a handler may rely on where it stands.
HandlerOK(q) ==
  /\ q.baseSha \in 0 .. nCommits /\ q.headSha \in 0 .. nCommits
  /\ q.pc \in {"resolve", "claim", "insert", "push"} =>
       q.base \in Branches /\ q.head \in Branches
  /\ q.pc = "resolve" => q.kind \in {"create", "merge"}
  /\ q.pc = "insert" => q.pull \in Numbers
  /\ q.pc \in {"write", "push", "record"} \/ (q.pc = "resolve" /\ q.kind = "merge") =>
       q.pull \in Numbers /\ Exists(q.pull)

ReqInv == \A r \in Requests : HandlerOK(req[r])

\* What mergePull knows about the tips it read when it pushes: head is not in
\* base's history, as far back as the walk goes.
PushInv ==
  \A r \in Requests : LET q == req[r] IN
    q.pc = "push" /\ q.baseSha # NoCommit /\ q.headSha # NoCommit =>
      q.headSha \notin Log(q.baseSha)

\* A merge never rewinds or forks a branch: what it moves the tip to has both the
\* tip it replaced and the pull's head in its history.
NothingRewound ==
  \A l \in landings : l.old \in anc[l.new] /\ l.head \in anc[l.new]

\* Landings are about commits that exist, and rewind nothing.
LandInv ==
  /\ \A l \in landings : l.old <= nCommits /\ l.new <= nCommits /\ l.head <= nCommits
  /\ NothingRewound

\* What landed was news to the branch, as far back as the walk goes.
NewsInv == \A l \in landings : l.head \notin Log(l.old)

\* A handler that is about to record a merge has landed it.
RecordInv ==
  \A r \in Requests : req[r].pc = "record" =>
    \E l \in landings : l.pull = req[r].pull /\ l.new = req[r].newSha

\* Without rewrites a branch keeps every head that landed on it.
KeptInv ==
  ~AllowRewrites => \A l \in landings :
    refs[l.branch] # NoCommit /\ l.head \in anc[refs[l.branch]]

WellFormed == TypeOK /\ GitInv /\ RowInv /\ ReqInv

-----------------------------------------------------------------------------
(***************************************************************************)
(* The store of commits.                                                   *)
(***************************************************************************)

\* Adding a commit on top of existing ones and pointing a branch at it keeps
\* the ancestry well formed.
LEMMA NewCommitKeepsGit ==
  ASSUME GitTypeOK, GitInv, nCommits < MaxCommits,
         NEW parents \in SUBSET (1 .. nCommits),
         NEW changes \in SUBSET CommitIds,
         NEW branch \in Branches,
         NewCommit(parents, changes),
         refs' = [refs EXCEPT ![branch] = nCommits + 1]
  PROVE  GitTypeOK' /\ GitInv'
<1> USE GitAssumption DEF GitTypeOK, CommitIds, Tips, NoCommit
<1> DEFINE new == nCommits + 1
           up == UNION {anc[p] : p \in parents}
<1>1. new \in 1 .. MaxCommits /\ nCommits' = new
  BY DEF NewCommit
<1>2. up \subseteq 1 .. nCommits
  BY DEF GitInv
<1>3. /\ anc' = [anc EXCEPT ![new] = {new} \cup up]
      /\ tree' = [tree EXCEPT ![new] = changes]
  BY DEF NewCommit
<1>4. GitTypeOK'
  BY <1>1, <1>2, <1>3
<1>5. \A b \in Branches : refs'[b] \in 0 .. nCommits'
  BY <1>1 DEF GitInv
<1>6. \A c \in CommitIds : c > nCommits' => anc'[c] = {}
  BY <1>1, <1>3 DEF GitInv
<1>7. ASSUME NEW c \in 1 .. nCommits
      PROVE  anc'[c] = anc[c]
  BY <1>1, <1>3
<1>8. ASSUME NEW c \in 1 .. nCommits'
      PROVE  /\ c \in anc'[c]
             /\ anc'[c] \subseteq 1 .. c
             /\ \A d \in anc'[c] : anc'[d] \subseteq anc'[c]
  <2>1. CASE c \in 1 .. nCommits
    BY <2>1, <1>7 DEF GitInv
  <2>2. CASE c = new
    <3>1. anc'[new] = {new} \cup up
      BY <1>1, <1>3
    <3>2. ASSUME NEW d \in up
          PROVE  anc'[d] \subseteq up
      BY <1>2, <1>7 DEF GitInv
    <3>3. QED
      BY <1>1, <1>2, <2>2, <3>1, <3>2
  <2>3. QED
    BY <1>1, <2>1, <2>2
<1>9. QED
  BY <1>4, <1>5, <1>6, <1>8 DEF GitInv

\* A walk sees the whole of a history that is not longer than its limit.
LEMMA WalkSeesAll ==
  ASSUME GitTypeOK, GitInv, NEW c \in 1 .. nCommits,
         Cardinality(anc[c]) <= AncestryLimit
  PROVE  Log(c) = anc[c]
<1> USE GitAssumption DEF GitTypeOK, CommitIds
<1>1. SUFFICES ASSUME NEW a \in anc[c]
               PROVE  Cardinality({b \in anc[c] : b > a}) < AncestryLimit
  BY DEF Log
<1> DEFINE newer == {b \in anc[c] : b > a}
<1>2. anc[c] \subseteq 1 .. c /\ c \in Nat
  BY DEF GitInv
<1>3. IsFiniteSet(1 .. c)
  BY <1>2, FS_Interval
<1>4. IsFiniteSet(anc[c])
  BY <1>2, <1>3, FS_Subset
<1>5. newer \in SUBSET anc[c] /\ newer # anc[c]
  BY <1>2
<1> HIDE DEF newer
<1>6. IsFiniteSet(newer) /\ Cardinality(newer) <= Cardinality(anc[c])
      /\ Cardinality(newer) # Cardinality(anc[c])
  BY <1>4, <1>5, FS_Subset
<1>7. Cardinality(newer) \in Nat /\ Cardinality(anc[c]) \in Nat
  BY <1>4, <1>6, FS_CardinalityType
<1>8. QED
  BY <1>6, <1>7 DEF newer

\* What a walk sees of a commit's history depends on nothing else.
LEMMA LogStays ==
  ASSUME NEW c, anc'[c] = anc[c]
  PROVE  Log(c)' = Log(c)
BY DEF Log

\* An ancestor is older, so two distinct commits are not each other's ancestor.
LEMMA AncestryAntisymmetric ==
  ASSUME GitTypeOK, GitInv, NEW c \in 1 .. nCommits, NEW d \in 1 .. nCommits,
         c \in anc[d], d \in anc[c]
  PROVE  c = d
BY GitAssumption DEF GitInv, GitTypeOK, CommitIds

-----------------------------------------------------------------------------
(***************************************************************************)
(* Every step keeps the state well formed.                                 *)
(***************************************************************************)

LEMMA InitWellFormed == Init => WellFormed
<1> SUFFICES ASSUME Init PROVE WellFormed
  OBVIOUS
<1> USE GitAssumption, PullAssumption
     DEF Init, GitInit, CommitIds, Tips, NoCommit
<1>1. GitTypeOK
  BY DEF GitTypeOK
<1>2. NoPull \in Row
  BY DEF NoPull, Row
<1>3. Idle \in Request
  BY DEF Idle, Request, PCs, Numbers
<1>4. TypeOK
  BY <1>1, <1>2, <1>3 DEF TypeOK
<1>5. GitInv
  BY DEF GitInv
<1>6. RowInv
  BY DEF RowInv, Exists, NoPull
<1>7. ReqInv
  BY DEF ReqInv, HandlerOK, Idle
<1>8. QED
  BY <1>4, <1>5, <1>6, <1>7 DEF WellFormed

\* People change only the repository.
LEMMA PeopleWellFormed ==
  ASSUME WellFormed, People
  PROVE  WellFormed' /\ nCommits <= nCommits'
<1> USE DEF WellFormed
<1>1. GitTypeOK' /\ GitInv' /\ nCommits <= nCommits'
  <2>1. ASSUME NEW b \in Branches, PushCommit(b)
        PROVE  GitTypeOK' /\ GitInv' /\ nCommits <= nCommits'
    <3>1. refs[b] \in 1 .. nCommits
      BY <2>1 DEF PushCommit, GitInv, NoCommit, TypeOK, GitTypeOK, CommitIds
    <3>2. tree[refs[b]] \cup {nCommits + 1} \in SUBSET CommitIds
      BY <2>1, <3>1, GitAssumption DEF PushCommit, TypeOK, GitTypeOK, CommitIds
    <3>3. GitTypeOK' /\ GitInv'
      BY <2>1, <3>1, <3>2, NewCommitKeepsGit DEF PushCommit, TypeOK
    <3>4. QED
      BY <2>1, <3>3, GitAssumption
         DEF PushCommit, NewCommit, TypeOK, GitTypeOK, CommitIds
  <2>2. ASSUME NEW b \in Branches, NEW c \in Branches, PushMerge(b, c)
        PROVE  GitTypeOK' /\ GitInv' /\ nCommits <= nCommits'
    <3>1. refs[b] \in 1 .. nCommits /\ refs[c] \in 1 .. nCommits
      BY <2>2 DEF PushMerge, GitInv, NoCommit, TypeOK, GitTypeOK, CommitIds
    <3>2. tree[refs[b]] \cup tree[refs[c]] \cup {nCommits + 1} \in SUBSET CommitIds
      BY <2>2, <3>1, GitAssumption DEF PushMerge, TypeOK, GitTypeOK, CommitIds
    <3>3. GitTypeOK' /\ GitInv'
      BY <2>2, <3>1, <3>2, NewCommitKeepsGit DEF PushMerge, TypeOK
    <3>4. QED
      BY <2>2, <3>3, GitAssumption
         DEF PushMerge, NewCommit, TypeOK, GitTypeOK, CommitIds
  <2>3. ASSUME NEW b \in Branches, NEW t \in Created \cup {NoCommit}, Rewrite(b, t)
        PROVE  GitTypeOK' /\ GitInv' /\ nCommits <= nCommits'
    BY <2>3, GitAssumption
       DEF Rewrite, Created, NoCommit, GitInv, TypeOK, GitTypeOK, CommitIds, Tips
  <2>4. QED
    BY <2>1, <2>2, <2>3 DEF People
<1>2. TypeOK'
  BY <1>1 DEF People, d1Vars, TypeOK
<1>3. RowInv'
  BY DEF People, d1Vars, RowInv, Exists
<1>4. ReqInv'
  BY <1>1, GitAssumption
     DEF People, d1Vars, ReqInv, HandlerOK, Exists, TypeOK, GitTypeOK, CommitIds
<1>5. QED
  BY <1>1, <1>2, <1>3, <1>4

\* A handler that keeps its hands off the repository and the rows keeps the
\* state well formed if its own new state is in order.
LEMMA HandlerWellFormed ==
  ASSUME WellFormed, NEW r \in Requests, NEW q \in Request,
         UNCHANGED <<gitVars, pulls, landings>>, nextNumber' \in Nat \ {0},
         req' = [req EXCEPT ![r] = q],
         HandlerOK(q)
  PROVE  WellFormed'
<1> USE DEF WellFormed
<1>1. TypeOK'
  BY DEF gitVars, TypeOK, GitTypeOK
<1>2. GitInv' /\ RowInv'
  BY DEF gitVars, GitInv, RowInv, Exists
<1>3. ReqInv'
  BY DEF gitVars, ReqInv, HandlerOK, Exists, TypeOK
<1>4. QED
  BY <1>1, <1>2, <1>3

\* Moving a handler on touches nothing else it holds.
LEMMA SetPC ==
  ASSUME NEW q \in Request, NEW pc \in PCs
  PROVE  /\ [q EXCEPT !.pc = pc] \in Request
         /\ [q EXCEPT !.pc = pc].pc = pc
         /\ [q EXCEPT !.pc = pc].kind = q.kind
         /\ [q EXCEPT !.pc = pc].pull = q.pull
         /\ [q EXCEPT !.pc = pc].base = q.base
         /\ [q EXCEPT !.pc = pc].head = q.head
         /\ [q EXCEPT !.pc = pc].baseSha = q.baseSha
         /\ [q EXCEPT !.pc = pc].headSha = q.headSha
BY DEF Request

\* A handler that resolved a branch, and goes on if that was the second one.
LEMMA ResolvedWellFormed ==
  ASSUME WellFormed, NEW r \in Requests, NEW p \in Request, NEW both \in BOOLEAN,
         UNCHANGED <<gitVars, d1Vars, landings>>,
         req' = [req EXCEPT ![r] =
                   IF both THEN [p EXCEPT !.pc = NextResolved(p)] ELSE p],
         p.pc = "resolve", p.kind \in {"create", "merge"},
         p.base \in Branches, p.head \in Branches,
         p.kind = "merge" => p.pull \in Numbers /\ Exists(p.pull),
         p.baseSha \in 0 .. nCommits, p.headSha \in 0 .. nCommits
  PROVE  WellFormed'
<1>1. /\ NextResolved(p) \in {"failed", "claim", "push"}
      /\ NextResolved(p) = "push" => p.kind = "merge"
  BY DEF NextResolved
<1>2. NextResolved(p) \in PCs
  BY <1>1 DEF PCs
<1>3. nextNumber' \in Nat \ {0}
  BY DEF d1Vars, WellFormed, TypeOK
<1>4. CASE both
  <2> DEFINE q == [p EXCEPT !.pc = NextResolved(p)]
  <2>1. /\ q \in Request
        /\ q.pc = NextResolved(p) /\ q.kind = p.kind /\ q.pull = p.pull
        /\ q.base = p.base /\ q.head = p.head
        /\ q.baseSha = p.baseSha /\ q.headSha = p.headSha
    BY <1>2, SetPC
  <2>2. req' = [req EXCEPT ![r] = q]
    BY <1>4
  <2> HIDE DEF q
  <2>3. QED
    BY <1>1, <1>3, <2>1, <2>2, HandlerWellFormed DEF d1Vars, HandlerOK
<1>5. CASE ~both
  BY <1>3, <1>5, HandlerWellFormed DEF d1Vars, HandlerOK
<1>6. QED
  BY <1>4, <1>5

\* Requests arriving: what they copy from a row is in order.
LEMMA ArriveWellFormed ==
  ASSUME WellFormed, NEW r \in Requests, Arrive(r)
  PROVE  WellFormed'
<1> USE PullAssumption, GitAssumption
<1>a. Idle \in Request
  BY DEF Idle, Request, PCs, Numbers, Tips, NoCommit
<1>b. 0 \in 0 .. nCommits /\ nextNumber \in Nat \ {0}
  BY DEF WellFormed, TypeOK, GitTypeOK, CommitIds
<1>1. ASSUME NEW b \in Branches, NEW h \in Branches, StartCreate(r, b, h)
      PROVE  WellFormed'
  <2> DEFINE q == [Idle EXCEPT !.kind = "create", !.pc = "resolve",
                               !.base = b, !.head = h]
  <2>1. q \in Request
    BY <1>a DEF Idle, Request, PCs
  <2>2. req' = [req EXCEPT ![r] = q]
    BY <1>1 DEF StartCreate
  <2>3. /\ q.pc = "resolve" /\ q.kind = "create" /\ q.base = b /\ q.head = h
        /\ q.baseSha = 0 /\ q.headSha = 0
    BY DEF Idle, NoCommit
  <2>4. UNCHANGED <<gitVars, pulls, nextNumber, landings>>
    BY <1>1 DEF StartCreate, d1Vars
  <2> HIDE DEF q
  <2>5. QED
    BY <1>b, <2>1, <2>2, <2>3, <2>4, HandlerWellFormed DEF HandlerOK
<1>2. ASSUME NEW n \in Numbers, NEW m \in Methods, NEW e \in PageHead(n),
             StartMerge(r, n, m, e)
      PROVE  WellFormed'
  <2> DEFINE q == [Idle EXCEPT !.kind = "merge", !.pc = "resolve", !.pull = n,
                     !.base = pulls[n].base, !.head = pulls[n].head,
                     !.method = m, !.expected = e]
  <2>1. pulls[n].base \in Branches /\ pulls[n].head \in Branches /\ Exists(n)
    BY <1>2 DEF StartMerge, MayMerge, WellFormed, RowInv, Exists
  <2>2. e \in Tips
    BY <2>1 DEF PageHead, WellFormed, TypeOK, GitTypeOK, Tips
  <2>3. q \in Request
    BY <1>a, <2>1, <2>2 DEF Idle, Request, PCs
  <2>4. req' = [req EXCEPT ![r] = q]
    BY <1>2 DEF StartMerge
  <2>5. /\ q.pc = "resolve" /\ q.kind = "merge" /\ q.pull = n
        /\ q.base = pulls[n].base /\ q.head = pulls[n].head
        /\ q.baseSha = 0 /\ q.headSha = 0
    BY DEF Idle, NoCommit
  <2>6. UNCHANGED <<gitVars, pulls, nextNumber, landings>>
    BY <1>2 DEF StartMerge, d1Vars
  <2> HIDE DEF q
  <2>7. QED
    BY <1>b, <2>1, <2>2, <2>3, <2>4, <2>5, <2>6, HandlerWellFormed DEF HandlerOK
<1>3. ASSUME NEW n \in Numbers, NEW s \in PullStates \cup {Nil},
             NEW d \in BOOLEAN \cup {Nil}, NEW b \in Branches \cup {Nil},
             StartUpdate(r, n, s, d, b)
      PROVE  WellFormed'
  <2> DEFINE q == [Idle EXCEPT !.kind = "update", !.pc = "write", !.pull = n,
                     !.state = s, !.draft = d, !.toBase = b]
  <2>1. q \in Request
    BY <1>a DEF Idle, Request, PCs
  <2>2. req' = [req EXCEPT ![r] = q]
    BY <1>3 DEF StartUpdate
  <2>3. /\ q.pc = "write" /\ q.pull = n /\ Exists(n)
        /\ q.baseSha = 0 /\ q.headSha = 0
    BY <1>3 DEF StartUpdate, Idle, NoCommit
  <2>4. UNCHANGED <<gitVars, pulls, nextNumber, landings>>
    BY <1>3 DEF StartUpdate, d1Vars
  <2> HIDE DEF q
  <2>5. QED
    BY <1>b, <2>1, <2>2, <2>3, <2>4, HandlerWellFormed DEF HandlerOK
<1>4. ASSUME NEW n \in Numbers, NEW s \in PullStates \cup {Nil}, StartIssue(r, n, s)
      PROVE  WellFormed'
  <2> DEFINE q == [Idle EXCEPT !.kind = "issue", !.pc = "write", !.pull = n,
                     !.state = s]
  <2>1. q \in Request
    BY <1>a DEF Idle, Request, PCs
  <2>2. req' = [req EXCEPT ![r] = q]
    BY <1>4 DEF StartIssue
  <2>3. /\ q.pc = "write" /\ q.pull = n /\ Exists(n)
        /\ q.baseSha = 0 /\ q.headSha = 0
    BY <1>4 DEF StartIssue, Idle, NoCommit
  <2>4. UNCHANGED <<gitVars, pulls, nextNumber, landings>>
    BY <1>4 DEF StartIssue, d1Vars
  <2> HIDE DEF q
  <2>5. QED
    BY <1>b, <2>1, <2>2, <2>3, <2>4, HandlerWellFormed DEF HandlerOK
<1>5. QED
  BY <1>1, <1>2, <1>3, <1>4 DEF Arrive

\* The handler steps that only read, wait or give up.
LEMMA ReadingWellFormed ==
  ASSUME WellFormed, NEW r \in Requests,
         ReadBase(r) \/ ReadHead(r) \/ PushRefused(r) \/ ClaimNumber(r) \/ Crash(r)
  PROVE  WellFormed'
<1> USE PullAssumption, GitAssumption
<1>a. req[r] \in Request
  BY DEF WellFormed, TypeOK
<1>b. /\ req[r].baseSha \in 0 .. nCommits /\ req[r].headSha \in 0 .. nCommits
      /\ nextNumber \in Nat \ {0}
  BY DEF WellFormed, ReqInv, HandlerOK, TypeOK
<1>1. CASE ReadBase(r)
  <2> DEFINE p == [req[r] EXCEPT !.seen = @ \cup {"base"}, !.baseSha = refs[req[r].base]]
  <2>1. /\ req[r].pc = "resolve" /\ req[r].kind \in {"create", "merge"}
        /\ req[r].base \in Branches /\ req[r].head \in Branches
        /\ req[r].kind = "merge" => req[r].pull \in Numbers /\ Exists(req[r].pull)
    BY <1>1 DEF ReadBase, At, WellFormed, ReqInv, HandlerOK
  <2>2. refs[req[r].base] \in 0 .. nCommits /\ refs[req[r].base] \in Tips
    BY <2>1 DEF WellFormed, GitInv, TypeOK, GitTypeOK
  <2>3. p \in Request /\ p.pc = "resolve"
    BY <1>a, <2>1, <2>2 DEF Request
  <2>4. /\ p.kind = req[r].kind /\ p.base = req[r].base /\ p.head = req[r].head
        /\ p.pull = req[r].pull
        /\ p.baseSha \in 0 .. nCommits /\ p.headSha \in 0 .. nCommits
    BY <1>a, <1>b, <2>2 DEF Request
  <2>5. req' = [req EXCEPT ![r] =
          IF "head" \in p.seen THEN [p EXCEPT !.pc = NextResolved(p)] ELSE p]
    BY <1>1 DEF ReadBase
  <2>6. UNCHANGED <<gitVars, d1Vars, landings>>
    BY <1>1 DEF ReadBase
  <2> HIDE DEF p
  <2>7. QED
    BY <2>1, <2>3, <2>4, <2>5, <2>6, ResolvedWellFormed
<1>2. CASE ReadHead(r)
  <2> DEFINE p == [req[r] EXCEPT !.seen = @ \cup {"head"}, !.headSha = refs[req[r].head]]
  <2>1. /\ req[r].pc = "resolve" /\ req[r].kind \in {"create", "merge"}
        /\ req[r].base \in Branches /\ req[r].head \in Branches
        /\ req[r].kind = "merge" => req[r].pull \in Numbers /\ Exists(req[r].pull)
    BY <1>2 DEF ReadHead, At, WellFormed, ReqInv, HandlerOK
  <2>2. refs[req[r].head] \in 0 .. nCommits /\ refs[req[r].head] \in Tips
    BY <2>1 DEF WellFormed, GitInv, TypeOK, GitTypeOK
  <2>3. p \in Request /\ p.pc = "resolve"
    BY <1>a, <2>1, <2>2 DEF Request
  <2>4. /\ p.kind = req[r].kind /\ p.base = req[r].base /\ p.head = req[r].head
        /\ p.pull = req[r].pull
        /\ p.baseSha \in 0 .. nCommits /\ p.headSha \in 0 .. nCommits
    BY <1>a, <1>b, <2>2 DEF Request
  <2>5. req' = [req EXCEPT ![r] =
          IF "base" \in p.seen THEN [p EXCEPT !.pc = NextResolved(p)] ELSE p]
    BY <1>2 DEF ReadHead
  <2>6. UNCHANGED <<gitVars, d1Vars, landings>>
    BY <1>2 DEF ReadHead
  <2> HIDE DEF p
  <2>7. QED
    BY <2>1, <2>3, <2>4, <2>5, <2>6, ResolvedWellFormed
<1>3. CASE PushRefused(r)
  <2>1. [req[r] EXCEPT !.pc = "failed"] \in Request
    BY <1>a DEF Request, PCs
  <2>2. req' = [req EXCEPT ![r] = [req[r] EXCEPT !.pc = "failed"]]
    BY <1>3 DEF PushRefused, Goto, AfterRefusal
  <2>3. QED
    BY <1>3, <1>a, <1>b, <2>1, <2>2, HandlerWellFormed DEF PushRefused, d1Vars, Request, HandlerOK
<1>4. CASE ClaimNumber(r)
  <2> DEFINE q == [req[r] EXCEPT !.pc = "insert", !.pull = nextNumber]
  <2>1. nextNumber \in Numbers /\ nextNumber' \in Nat \ {0}
    BY <1>4, <1>b DEF ClaimNumber, Claimed
  <2>2. /\ q \in Request
        /\ q.pc = "insert" /\ q.pull \in Numbers
        /\ q.base = req[r].base /\ q.head = req[r].head
        /\ q.baseSha = req[r].baseSha /\ q.headSha = req[r].headSha
    BY <1>a, <2>1 DEF Request, PCs
  <2>3. req' = [req EXCEPT ![r] = q]
    BY <1>4 DEF ClaimNumber
  <2>4. req[r].base \in Branches /\ req[r].head \in Branches
    BY <1>4 DEF ClaimNumber, At, WellFormed, ReqInv, HandlerOK
  <2> HIDE DEF q
  <2>5. QED
    BY <1>4, <1>b, <2>1, <2>2, <2>3, <2>4, HandlerWellFormed DEF ClaimNumber, HandlerOK
<1>5. CASE Crash(r)
  <2>1. [req[r] EXCEPT !.pc = "crashed"] \in Request
    BY <1>a DEF Request, PCs
  <2>2. req' = [req EXCEPT ![r] = [req[r] EXCEPT !.pc = "crashed"]]
    BY <1>5 DEF Crash, Goto
  <2>3. QED
    BY <1>5, <1>a, <1>b, <2>1, <2>2, HandlerWellFormed DEF Crash, d1Vars, Request, HandlerOK
<1>6. QED
  BY <1>1, <1>2, <1>3, <1>4, <1>5

\* What a push leaves behind, apart from the ancestry.
LEMMA PushFacts ==
  ASSUME WellFormed, NEW r \in Requests, PushAccepted(r)
  PROVE  LET q == req[r]
             new == IF IsFastForward(q) THEN q.headSha ELSE nCommits + 1
         IN  /\ q.pc = "push" /\ q.pull \in Numbers /\ q.base \in Branches
             /\ q.baseSha \in 1 .. nCommits /\ q.headSha \in 1 .. nCommits
             /\ refs[q.base] = q.baseSha
             /\ new \in 1 .. nCommits' /\ new \in CommitIds
             /\ nCommits <= nCommits' /\ nCommits \in CommitIds
             /\ refs' = [refs EXCEPT ![q.base] = new]
             /\ landings' = landings \cup
                  {[by |-> r, pull |-> q.pull, branch |-> q.base,
                    old |-> q.baseSha, new |-> new, head |-> q.headSha]}
             /\ req' = [req EXCEPT ![r].pc = "record", ![r].newSha = new]
             /\ GitTypeOK' /\ GitInv'
             /\ \A c \in 1 .. nCommits : anc'[c] = anc[c]
             /\ ~IsFastForward(q) =>
                  anc'[new] = {new} \cup anc[q.baseSha] \cup anc[q.headSha]
             /\ UNCHANGED <<pulls, nextNumber>>
<1> USE GitAssumption
<1> DEFINE q == req[r]
           ff == IsFastForward(q)
           new == IF ff THEN q.headSha ELSE nCommits + 1
<1>1. /\ q.pc = "push" /\ q.pull \in Numbers /\ q.base \in Branches
      /\ q.baseSha \in 1 .. nCommits /\ q.headSha \in 1 .. nCommits
      /\ nCommits \in 1 .. MaxCommits
  BY DEF PushAccepted, At, WellFormed, ReqInv, HandlerOK, TypeOK, GitTypeOK, CommitIds, NoCommit
<1>2. /\ refs[q.base] = q.baseSha
      /\ refs' = [refs EXCEPT ![q.base] = new]
      /\ req' = [req EXCEPT ![r].pc = "record", ![r].newSha = new]
      /\ UNCHANGED <<pulls, nextNumber>>
  BY DEF PushAccepted, Accepts, OldSha, d1Vars
<1>3. landings' = landings \cup
        {[by |-> r, pull |-> q.pull, branch |-> q.base,
          old |-> q.baseSha, new |-> new, head |-> q.headSha]}
  BY <1>2 DEF PushAccepted
<1>4. CASE ff
  <2>1. UNCHANGED <<nCommits, anc, tree>> /\ new = q.headSha
    BY <1>4 DEF PushAccepted
  <2>2. GitTypeOK' /\ GitInv'
    BY <1>1, <1>2, <2>1
       DEF WellFormed, TypeOK, GitTypeOK, GitInv, Tips, CommitIds, NoCommit
  <2>3. QED
    BY <1>1, <1>2, <1>3, <1>4, <2>1, <2>2 DEF CommitIds
<1>5. CASE ~ff
  <2>1. /\ nCommits < MaxCommits /\ new = nCommits + 1
        /\ NewCommit({q.baseSha, q.headSha}, tree[q.headSha])
    BY <1>5 DEF PushAccepted
  <2>2. {q.baseSha, q.headSha} \in SUBSET (1 .. nCommits)
    BY <1>1
  <2>3. tree[q.headSha] \in SUBSET CommitIds
    BY <1>1 DEF WellFormed, TypeOK, GitTypeOK, CommitIds
  <2>4. GitTypeOK' /\ GitInv'
    BY <1>1, <1>2, <2>1, <2>2, <2>3, NewCommitKeepsGit DEF WellFormed, TypeOK
  <2>5. /\ nCommits' = nCommits + 1
        /\ anc' = [anc EXCEPT ![new] = {new} \cup anc[q.baseSha] \cup anc[q.headSha]]
    BY <2>1 DEF NewCommit
  <2>6. \A c \in 1 .. nCommits : anc'[c] = anc[c]
    BY <1>1, <2>1, <2>5 DEF WellFormed, TypeOK, GitTypeOK, CommitIds
  <2>7. new \in CommitIds
    BY <1>1, <2>1 DEF CommitIds
  <2>8. anc'[new] = {new} \cup anc[q.baseSha] \cup anc[q.headSha]
    BY <2>5, <2>7 DEF WellFormed, TypeOK, GitTypeOK
  <2>9. new \in 1 .. nCommits' /\ nCommits <= nCommits' /\ nCommits \in CommitIds
    BY <1>1, <2>1, <2>5 DEF CommitIds
  <2> HIDE DEF ff, new
  <2>10. QED
    BY <1>1, <1>2, <1>3, <1>5, <2>4, <2>6, <2>7, <2>8, <2>9 DEF ff, new
<1>6. QED
  BY <1>4, <1>5

\* mergePull's push keeps the state well formed.
LEMMA PushWellFormed ==
  ASSUME WellFormed, NEW r \in Requests, PushAccepted(r)
  PROVE  WellFormed'
<1> USE GitAssumption
<1> DEFINE q == req[r]
           new == IF IsFastForward(q) THEN q.headSha ELSE nCommits + 1
           l == [by |-> r, pull |-> q.pull, branch |-> q.base,
                 old |-> q.baseSha, new |-> new, head |-> q.headSha]
<1>1. /\ q.pull \in Numbers /\ q.base \in Branches
      /\ q.baseSha \in 1 .. nCommits /\ q.headSha \in 1 .. nCommits
      /\ new \in CommitIds /\ nCommits <= nCommits' /\ nCommits \in CommitIds
      /\ landings' = landings \cup {l}
      /\ req' = [req EXCEPT ![r].pc = "record", ![r].newSha = new]
      /\ GitTypeOK' /\ GitInv'
      /\ UNCHANGED <<pulls, nextNumber>>
  BY PushFacts
<1>x. q.pc = "push" /\ Exists(q.pull)
  BY DEF PushAccepted, At, WellFormed, ReqInv, HandlerOK
<1> HIDE DEF new
<1>2. l \in Landing
  BY <1>1 DEF Landing, CommitIds
<1>3. q \in Request
  BY DEF WellFormed, TypeOK
<1>4. [q EXCEPT !.pc = "record", !.newSha = new] \in Request
  BY <1>1, <1>3 DEF Request, PCs, Tips
<1>5. req' = [req EXCEPT ![r] = [q EXCEPT !.pc = "record", !.newSha = new]]
  BY <1>1
<1>6. TypeOK'
  BY <1>1, <1>2, <1>4, <1>5 DEF WellFormed, TypeOK
<1>7. RowInv'
  BY <1>1 DEF WellFormed, RowInv, Exists
<1>8. nCommits \in Nat /\ nCommits' \in Nat
  BY <1>1 DEF GitTypeOK, CommitIds
<1>9. ASSUME NEW s \in Requests
      PROVE  HandlerOK(req[s])'
  <2>1. CASE s = r
    <3>1. /\ req'[r].pc = "record" /\ req'[r].pull = q.pull
          /\ req'[r].baseSha = q.baseSha /\ req'[r].headSha = q.headSha
      BY <1>3, <1>5 DEF WellFormed, TypeOK, Request
    <3>2. Exists(req[r].pull)'
      BY <1>1, <1>x, <3>1 DEF Exists
    <3>3. QED
      BY <1>1, <1>8, <2>1, <3>1, <3>2 DEF HandlerOK
  <2>2. CASE s # r
    <3>1. req'[s] = req[s]
      BY <1>5, <2>2 DEF WellFormed, TypeOK
    <3>2. HandlerOK(req[s]) /\ pulls' = pulls /\ nCommits <= nCommits'
      BY <1>1 DEF WellFormed, ReqInv
    <3>3. QED
      BY <1>8, <3>1, <3>2 DEF HandlerOK, Exists
  <2>3. QED
    BY <2>1, <2>2
<1>10. QED
  BY <1>1, <1>6, <1>7, <1>9 DEF WellFormed, ReqInv, HandlerOK

\* A step that writes one row and ends keeps the state well formed if the row is
\* in order and a row is never taken away.
LEMMA RowWrittenWellFormed ==
  ASSUME WellFormed, NEW r \in Requests, NEW n \in Numbers, NEW row \in Row,
         row.base \in Branches, row.head \in Branches, row.state # "none",
         pulls' = [pulls EXCEPT ![n] = row],
         Goto(r, "done"),
         UNCHANGED <<gitVars, nextNumber, landings>>
  PROVE  WellFormed'
<1> DEFINE q == [req[r] EXCEPT !.pc = "done"]
<1>1. req[r] \in Request /\ "done" \in PCs
  BY DEF WellFormed, TypeOK, PCs
<1>2. /\ q \in Request /\ q.pc = "done"
      /\ q.baseSha = req[r].baseSha /\ q.headSha = req[r].headSha
  BY <1>1, SetPC
<1>3. req' = [req EXCEPT ![r] = q]
  BY DEF Goto
<1> HIDE DEF q
<1>4. TypeOK'
  BY <1>2, <1>3 DEF gitVars, WellFormed, TypeOK, GitTypeOK
<1>5. GitInv'
  BY DEF gitVars, WellFormed, GitInv
<1>6. RowInv' /\ \A m \in Numbers : Exists(m) => Exists(m)'
  BY DEF WellFormed, TypeOK, RowInv, Exists
<1>7. ASSUME NEW s \in Requests
      PROVE  HandlerOK(req[s])'
  <2>1. CASE s = r
    BY <1>2, <1>3, <2>1 DEF gitVars, WellFormed, TypeOK, ReqInv, HandlerOK
  <2>2. CASE s # r
    <3>1. req'[s] = req[s]
      BY <1>3, <2>2 DEF WellFormed, TypeOK
    <3>2. QED
      BY <1>6, <3>1 DEF gitVars, WellFormed, ReqInv, HandlerOK
  <2>3. QED
    BY <2>1, <2>2
<1>8. QED
  BY <1>4, <1>5, <1>6, <1>7 DEF WellFormed, ReqInv

\* The three steps that write a row.
LEMMA WritingWellFormed ==
  ASSUME WellFormed, NEW r \in Requests,
         RecordMerge(r) \/ (\E d \in BOOLEAN : InsertPull(r, d)) \/ WriteFields(r)
  PROVE  WellFormed'
<1> USE PullAssumption, GitAssumption
<1> DEFINE q == req[r]
<1>a. q \in Request /\ HandlerOK(q)
  BY DEF WellFormed, TypeOK, ReqInv
<1>1. CASE RecordMerge(r)
  <2> DEFINE row == MergedRow(pulls[q.pull], q.newSha)
  <2>1. q.pull \in Numbers /\ Exists(q.pull)
    BY <1>1, <1>a DEF RecordMerge, At, HandlerOK
  <2>2. pulls[q.pull] \in Row /\ q.newSha \in Tips
    BY <1>a, <2>1 DEF WellFormed, TypeOK, Request
  <2>3. row \in Row /\ row.state # "none"
    BY <2>2 DEF MergedRow, Row
  <2>4. row.base = pulls[q.pull].base /\ row.head = pulls[q.pull].head
    BY <2>2 DEF MergedRow, Row
  <2>5. row.base \in Branches /\ row.head \in Branches
    BY <2>1, <2>4 DEF WellFormed, RowInv
  <2>6. pulls' = [pulls EXCEPT ![q.pull] = row]
    BY <1>1 DEF RecordMerge
  <2> HIDE DEF row
  <2>7. QED
    BY <1>1, <2>1, <2>3, <2>5, <2>6, RowWrittenWellFormed DEF RecordMerge
<1>2. ASSUME NEW d \in BOOLEAN, InsertPull(r, d)
      PROVE  WellFormed'
  <2> DEFINE row == [NoPull EXCEPT !.state = "open", !.draft = d,
                                   !.base = q.base, !.head = q.head]
  <2>1. q.pull \in Numbers /\ q.base \in Branches /\ q.head \in Branches
    BY <1>2, <1>a DEF InsertPull, At, HandlerOK
  <2>2. /\ row \in Row /\ row.state # "none"
        /\ row.base \in Branches /\ row.head \in Branches
    BY <2>1 DEF NoPull, Row, Tips, NoCommit
  <2>3. pulls' = [pulls EXCEPT ![q.pull] = row]
    BY <1>2 DEF InsertPull
  <2> HIDE DEF row
  <2>4. QED
    BY <1>2, <2>1, <2>2, <2>3, RowWrittenWellFormed DEF InsertPull
<1>3. CASE WriteFields(r)
  <2> DEFINE old == pulls[q.pull]
             row == PatchedRow(old, q)
  <2>1. q.pull \in Numbers /\ Exists(q.pull)
    BY <1>3, <1>a DEF WriteFields, At, HandlerOK
  <2>2. /\ old \in Row /\ old.state # "none"
        /\ old.base \in Branches /\ old.head \in Branches
    BY <2>1 DEF WellFormed, TypeOK, RowInv, Exists
  <2>3. /\ q.state \in PullStates \cup {Nil} /\ q.draft \in BOOLEAN \cup {Nil}
        /\ q.toBase \in Branches \cup {Nil}
    BY <1>a DEF Request
  <2>4. /\ Patch(old.state, q.state) \in {"open", "closed"}
        /\ Patch(old.base, q.toBase) \in Branches
    BY <2>2, <2>3 DEF Patch, PullStates, Row
  <2>5. Patch(old.draft, q.draft) \in BOOLEAN
    BY <2>2, <2>3, Zenon DEF Patch, Row
  <2>6. /\ row \in Row /\ row.state # "none"
        /\ row.base \in Branches /\ row.head \in Branches
    BY <2>2, <2>4, <2>5 DEF PatchedRow, Row
  <2>7. pulls' = [pulls EXCEPT ![q.pull] = row]
    BY <1>3 DEF WriteFields
  <2> HIDE DEF row
  <2>8. QED
    BY <1>3, <2>1, <2>6, <2>7, RowWrittenWellFormed DEF WriteFields
<1>4. QED
  BY <1>1, <1>2, <1>3

\* Every step keeps the state well formed.
LEMMA NextWellFormed ==
  ASSUME WellFormed, [Next]_vars
  PROVE  WellFormed'
<1>1. CASE People
  BY <1>1, PeopleWellFormed
<1>2. ASSUME NEW r \in Requests, Arrive(r) \/ Step(r) \/ Crash(r)
      PROVE  WellFormed'
  BY <1>2, ArriveWellFormed, ReadingWellFormed, PushWellFormed, WritingWellFormed DEF Step
<1>3. CASE UNCHANGED vars
  BY <1>3 DEF vars, gitVars, WellFormed, TypeOK, GitTypeOK, GitInv, RowInv, Exists,
              ReqInv, HandlerOK
<1>4. QED
  BY <1>1, <1>2, <1>3 DEF Next

\* Rows, counters, commits and what handlers carry between awaits always have
\* their types, and the state is well formed.
LEMMA AlwaysWellFormed == Spec => []WellFormed
BY InitWellFormed, NextWellFormed, PTL DEF Spec

\* Every reachable state of the pull request service has its type, for every
\* number of requests, branches, commits and pulls: no handler pushes or writes
\* with a commit, branch or number that was never there.
THEOREM TypeCorrect == Spec => []TypeOK
<1>1. WellFormed => TypeOK
  BY DEF WellFormed
<1>2. QED
  BY <1>1, AlwaysWellFormed, PTL

-----------------------------------------------------------------------------
(***************************************************************************)
(* Landings.                                                               *)
(***************************************************************************)

\* Existing commits keep their ancestry.
GitGrows ==
  /\ nCommits <= nCommits'
  /\ \A c \in 1 .. nCommits : anc'[c] = anc[c]

\* A new commit alters none of the others.
LEMMA NewCommitGrows ==
  ASSUME GitTypeOK, NEW parents, NEW changes, NewCommit(parents, changes),
         nCommits < MaxCommits
  PROVE  GitGrows
BY GitAssumption DEF NewCommit, GitGrows, GitTypeOK, CommitIds

\* No step alters a commit.
LEMMA NextGrows ==
  ASSUME WellFormed, [Next]_vars
  PROVE  GitGrows
<1> USE GitAssumption
<1>1. ASSUME UNCHANGED <<nCommits, anc>>
      PROVE  GitGrows
  BY <1>1 DEF GitGrows, WellFormed, TypeOK, GitTypeOK, CommitIds
<1>2. CASE People
  BY <1>1, <1>2, NewCommitGrows
     DEF People, PushCommit, PushMerge, Rewrite, WellFormed, TypeOK
<1>3. ASSUME NEW r \in Requests, PushAccepted(r)
      PROVE  GitGrows
  BY <1>3, PushFacts DEF GitGrows
<1>4. ASSUME NEW r \in Requests, Arrive(r) \/ Crash(r) \/ (Step(r) /\ ~PushAccepted(r))
      PROVE  UNCHANGED gitVars
  BY <1>4 DEF Arrive, StartCreate, StartMerge, StartUpdate, StartIssue, Crash, Step,
              ReadBase, ReadHead, PushRefused, RecordMerge, ClaimNumber, InsertPull,
              WriteFields
<1>5. QED
  BY <1>1, <1>2, <1>3, <1>4 DEF Next, vars, gitVars

\* A clean base is behind head, however short the walk: what it sees is history.
LEMMA CleanIsBehind ==
  ASSUME NEW base, NEW head, Mergeable(base, head) = "clean"
  PROVE  base \in anc[head]
BY DEF Mergeable, Log

\* What mergePull may conclude from a verdict it goes on with: head is news to
\* base.  Where the walk of head's history is cut off, clean is taken for
\* conflicted; but if it is clean, base is the older of the two, and if it is not,
\* it was looked for in base's history.
LEMMA VerdictIsRight ==
  ASSUME GitTypeOK, GitInv,
         NEW base \in 1 .. nCommits, NEW head \in 1 .. nCommits,
         Mergeable(base, head) \notin {"empty", "behind"}
  PROVE  head \notin Log(base)
<1>1. base # NoCommit /\ head # NoCommit
  BY DEF NoCommit
<1>2. CASE base \in Log(head)
  BY <1>1, <1>2, AncestryAntisymmetric DEF Mergeable, Log
<1>3. CASE base \notin Log(head)
  BY <1>1, <1>3 DEF Mergeable
<1>4. QED
  BY <1>2, <1>3

\* A request that arrives starts to resolve branches or to write.
LEMMA ArriveStarts ==
  ASSUME req \in [Requests -> Request], NEW r \in Requests, Arrive(r)
  PROVE  /\ req'[r].pc \in {"resolve", "write"}
         /\ \A s \in Requests \ {r} : req'[s] = req[s]
<1>1. ASSUME NEW q, q.pc \in {"resolve", "write"}, req' = [req EXCEPT ![r] = q]
      PROVE  /\ req'[r].pc \in {"resolve", "write"}
             /\ \A s \in Requests \ {r} : req'[s] = req[s]
  BY <1>1
<1>2. CASE \E b, h \in Branches : StartCreate(r, b, h)
  <2>1. PICK b \in Branches, h \in Branches : StartCreate(r, b, h)
    BY <1>2
  <2>2. [Idle EXCEPT !.kind = "create", !.pc = "resolve",
                     !.base = b, !.head = h].pc = "resolve"
    BY DEF Idle
  <2>3. QED
    BY <1>1, <2>1, <2>2 DEF StartCreate
<1>3. CASE \E n \in Numbers, m \in Methods : \E e \in PageHead(n) : StartMerge(r, n, m, e)
  <2>1. PICK n \in Numbers, m \in Methods : \E e \in PageHead(n) : StartMerge(r, n, m, e)
    BY <1>3
  <2>2. PICK e \in PageHead(n) : StartMerge(r, n, m, e)
    BY <2>1
  <2>3. [Idle EXCEPT !.kind = "merge", !.pc = "resolve", !.pull = n,
                     !.base = pulls[n].base, !.head = pulls[n].head,
                     !.method = m, !.expected = e].pc = "resolve"
    BY DEF Idle
  <2>4. QED
    BY <1>1, <2>2, <2>3 DEF StartMerge
<1>4. CASE \E n \in Numbers, s \in PullStates \cup {Nil}, d \in BOOLEAN \cup {Nil},
              b \in Branches \cup {Nil} : StartUpdate(r, n, s, d, b)
  <2>1. PICK n \in Numbers, s \in PullStates \cup {Nil}, d \in BOOLEAN \cup {Nil},
             b \in Branches \cup {Nil} : StartUpdate(r, n, s, d, b)
    BY <1>4
  <2>2. [Idle EXCEPT !.kind = "update", !.pc = "write", !.pull = n,
                     !.state = s, !.draft = d, !.toBase = b].pc = "write"
    BY DEF Idle
  <2>3. QED
    BY <1>1, <2>1, <2>2 DEF StartUpdate
<1>5. CASE \E n \in Numbers, s \in PullStates \cup {Nil} : StartIssue(r, n, s)
  <2>1. PICK n \in Numbers, s \in PullStates \cup {Nil} : StartIssue(r, n, s)
    BY <1>5
  <2>2. [Idle EXCEPT !.kind = "issue", !.pc = "write", !.pull = n,
                     !.state = s].pc = "write"
    BY DEF Idle
  <2>3. QED
    BY <1>1, <2>1, <2>2 DEF StartIssue
<1>6. QED
  BY <1>2, <1>3, <1>4, <1>5 DEF Arrive

\* A handler that was not allowed to push before this step and is now has just
\* resolved its second branch, and the verdict let it through.
LEMMA ReachesPush ==
  ASSUME WellFormed, [Next]_vars, NEW r \in Requests,
         req'[r].pc = "push", req'[r] # req[r]
  PROVE  /\ UNCHANGED gitVars
         /\ Mergeable(req'[r].baseSha, req'[r].headSha) \notin {"empty", "behind"}
<1>a. req \in [Requests -> Request]
  BY DEF WellFormed, TypeOK
<1>1. PICK s \in Requests : Arrive(s) \/ Step(s) \/ Crash(s)
  BY DEF Next, People, vars
<1>2. s = r
  <2>1. \A t \in Requests \ {s} : req'[t] = req[t]
    <3>1. CASE Arrive(s)
      BY <1>a, <3>1, ArriveStarts
    <3>2. CASE ReadBase(s) \/ ReadHead(s) \/ PushAccepted(s) \/ ClaimNumber(s)
      BY <1>a, <3>2 DEF ReadBase, ReadHead, PushAccepted, ClaimNumber
    <3>3. CASE \/ PushRefused(s) \/ RecordMerge(s) \/ WriteFields(s) \/ Crash(s)
               \/ \E d \in BOOLEAN : InsertPull(s, d)
      BY <1>a, <3>3
         DEF PushRefused, RecordMerge, WriteFields, Crash, InsertPull, Goto
    <3>4. QED
      BY <1>1, <3>1, <3>2, <3>3 DEF Step
  <2>2. QED
    BY <2>1
<1>3. ReadBase(r) \/ ReadHead(r)
  <2>1. ~Arrive(r)
    BY <1>a, ArriveStarts
  <2>2. ~(\/ PushRefused(r) \/ RecordMerge(r) \/ WriteFields(r) \/ Crash(r)
          \/ \E d \in BOOLEAN : InsertPull(r, d))
    <3>1. ASSUME NEW pc \in {"failed", "done", "crashed"}, Goto(r, pc)
          PROVE  FALSE
      BY <1>a, <3>1 DEF Goto, Request
    <3>2. QED
      BY <3>1 DEF PushRefused, AfterRefusal, RecordMerge, WriteFields, Crash, InsertPull
  <2>3. ~PushAccepted(r) /\ ~ClaimNumber(r)
    BY <1>a DEF PushAccepted, ClaimNumber, Request
  <2>4. QED
    BY <1>1, <1>2, <2>1, <2>2, <2>3 DEF Step
<1>4. ASSUME NEW p \in Request, NEW both \in BOOLEAN, p.pc = "resolve",
             req' = [req EXCEPT ![r] =
                       IF both THEN [p EXCEPT !.pc = NextResolved(p)] ELSE p]
      PROVE  Mergeable(req'[r].baseSha, req'[r].headSha) \notin {"empty", "behind"}
  <2>1. both /\ req'[r] = [p EXCEPT !.pc = NextResolved(p)]
    BY <1>4, <1>a
  <2>2. req'[r].baseSha = p.baseSha /\ req'[r].headSha = p.headSha
    BY <2>1 DEF Request
  <2>3. NextResolved(p) = "push"
    BY <2>1 DEF Request
  <2>4. QED
    BY <2>2, <2>3 DEF NextResolved
<1>5. req[r] \in Request /\ req[r].pc = "resolve"
  BY <1>a, <1>3 DEF ReadBase, ReadHead, At
<1>6. refs[req[r].base] \in Tips /\ refs[req[r].head] \in Tips
  BY <1>5 DEF WellFormed, ReqInv, HandlerOK, TypeOK, GitTypeOK
<1>7. CASE ReadBase(r)
  <2> DEFINE p == [req[r] EXCEPT !.seen = @ \cup {"base"}, !.baseSha = refs[req[r].base]]
  <2>1. p \in Request /\ p.pc = "resolve"
    BY <1>5, <1>6 DEF Request
  <2>2. req' = [req EXCEPT ![r] =
          IF "head" \in p.seen THEN [p EXCEPT !.pc = NextResolved(p)] ELSE p]
    BY <1>7 DEF ReadBase
  <2> HIDE DEF p
  <2>3. QED
    BY <1>4, <1>7, <2>1, <2>2 DEF ReadBase
<1>8. CASE ReadHead(r)
  <2> DEFINE p == [req[r] EXCEPT !.seen = @ \cup {"head"}, !.headSha = refs[req[r].head]]
  <2>1. p \in Request /\ p.pc = "resolve"
    BY <1>5, <1>6 DEF Request
  <2>2. req' = [req EXCEPT ![r] =
          IF "base" \in p.seen THEN [p EXCEPT !.pc = NextResolved(p)] ELSE p]
    BY <1>8 DEF ReadHead
  <2> HIDE DEF p
  <2>3. QED
    BY <1>4, <1>8, <2>1, <2>2 DEF ReadHead
<1>9. QED
  BY <1>3, <1>7, <1>8 DEF ReadBase, ReadHead

\* While a handler is on its way to push, head is not in what it saw of base's history.
LEMMA NextPushInv ==
  ASSUME WellFormed, PushInv, [Next]_vars
  PROVE  PushInv'
<1> SUFFICES ASSUME NEW r \in Requests, NEW q, q = req'[r], q.pc = "push",
                    q.baseSha # NoCommit, q.headSha # NoCommit
             PROVE  q.headSha \notin Log(q.baseSha)'
  BY DEF PushInv, Log
<1>a. WellFormed' /\ GitGrows /\ nCommits \in Nat /\ GitTypeOK /\ GitInv
  BY NextWellFormed, NextGrows, GitAssumption
     DEF WellFormed, TypeOK, GitTypeOK, CommitIds
<1>b. q.baseSha \in 0 .. nCommits' /\ q.headSha \in 0 .. nCommits'
  BY <1>a DEF WellFormed, ReqInv, HandlerOK
<1>1. CASE q = req[r]
  <2>1. q.headSha \notin Log(q.baseSha) /\ q.baseSha \in 1 .. nCommits
    BY <1>1 DEF PushInv, WellFormed, ReqInv, HandlerOK, NoCommit
  <2>2. anc'[q.baseSha] = anc[q.baseSha]
    BY <1>a, <2>1 DEF GitGrows
  <2>3. Log(q.baseSha)' = Log(q.baseSha)
    BY <2>2, LogStays
  <2>4. QED
    BY <2>1, <2>3
<1>2. CASE q # req[r]
  <2>1. UNCHANGED gitVars /\ Mergeable(q.baseSha, q.headSha) \notin {"empty", "behind"}
    BY <1>2, ReachesPush
  <2>2. q.baseSha \in 1 .. nCommits /\ q.headSha \in 1 .. nCommits
    BY <1>a, <1>b, <2>1 DEF gitVars, NoCommit
  <2>3. q.headSha \notin Log(q.baseSha)
    BY <1>a, <2>1, <2>2, VerdictIsRight
  <2>4. Log(q.baseSha)' = Log(q.baseSha)
    BY <2>1, LogStays DEF gitVars
  <2>5. QED
    BY <2>3, <2>4
<1>3. QED
  BY <1>1, <1>2

\* A push that is accepted lands the head it read on the tip it read.
LEMMA PushLands ==
  ASSUME WellFormed, NEW r \in Requests, PushAccepted(r)
  PROVE  \E l \in Landing :
           /\ landings' = landings \cup {l}
           /\ l.branch \in Branches /\ l.old = refs[l.branch]
           /\ refs' = [refs EXCEPT ![l.branch] = l.new]
           /\ l.old \in 1 .. nCommits /\ l.head \in 1 .. nCommits
           /\ l.new \in 1 .. nCommits'
           /\ l.old \in anc'[l.new] /\ l.head \in anc'[l.new]
           /\ PushInv => l.head \notin Log(l.old)
           /\ l.pull = req[r].pull
           /\ req' = [req EXCEPT ![r].pc = "record", ![r].newSha = l.new]
<1> DEFINE q == req[r]
           new == IF IsFastForward(q) THEN q.headSha ELSE nCommits + 1
           l == [by |-> r, pull |-> q.pull, branch |-> q.base,
                 old |-> q.baseSha, new |-> new, head |-> q.headSha]
<1>1. /\ q.pc = "push" /\ q.pull \in Numbers /\ q.base \in Branches
      /\ q.baseSha \in 1 .. nCommits /\ q.headSha \in 1 .. nCommits
      /\ refs[q.base] = q.baseSha
      /\ new \in 1 .. nCommits' /\ new \in CommitIds
      /\ nCommits \in CommitIds
      /\ refs' = [refs EXCEPT ![q.base] = new]
      /\ landings' = landings \cup {l}
      /\ req' = [req EXCEPT ![r].pc = "record", ![r].newSha = new]
      /\ \A c \in 1 .. nCommits : anc'[c] = anc[c]
      /\ ~IsFastForward(q) => anc'[new] = {new} \cup anc[q.baseSha] \cup anc[q.headSha]
  BY PushFacts
<1>2. GitTypeOK /\ GitInv
  BY DEF WellFormed, TypeOK
<1>3. PushInv => q.headSha \notin Log(q.baseSha)
  BY <1>1 DEF PushInv, NoCommit
<1>4. q.baseSha \in anc[q.baseSha] /\ q.headSha \in anc[q.headSha]
  BY <1>1, <1>2 DEF GitInv
<1>5. q.baseSha \in anc'[new] /\ q.headSha \in anc'[new]
  <2>1. CASE IsFastForward(q)
    <3>1. q.baseSha \in anc[q.headSha]
      BY <2>1, CleanIsBehind DEF IsFastForward
    <3>2. QED
      BY <1>1, <1>4, <2>1, <3>1
  <2>2. CASE ~IsFastForward(q)
    BY <1>1, <1>4, <2>2
  <2>3. QED
    BY <2>1, <2>2
<1>6. l \in Landing
  BY <1>1, GitAssumption DEF Landing, CommitIds
<1> HIDE DEF new
<1>7. QED
  BY <1>1, <1>3, <1>5, <1>6

\* Only an accepted push lands anything.
LEMMA OthersDoNotLand ==
  ASSUME WellFormed, [Next]_vars, \A r \in Requests : ~PushAccepted(r)
  PROVE  /\ landings' = landings
         /\ \A r \in Requests : req'[r].pc = "record" => req'[r] = req[r]
<1>a. req \in [Requests -> Request]
  BY DEF WellFormed, TypeOK
<1>1. CASE People \/ UNCHANGED vars
  BY <1>1 DEF People, vars
<1>2. ASSUME NEW s \in Requests, Arrive(s) \/ Step(s) \/ Crash(s)
      PROVE  /\ landings' = landings
             /\ \A r \in Requests : req'[r].pc = "record" => req'[r] = req[r]
  <2>1. landings' = landings
    BY <1>2 DEF Arrive, StartCreate, StartMerge, StartUpdate, StartIssue, Crash, Step,
                ReadBase, ReadHead, PushRefused, RecordMerge, ClaimNumber, InsertPull,
                WriteFields
  <2>2. ASSUME NEW q \in Request, q.pc # "record", req' = [req EXCEPT ![s] = q],
               NEW r \in Requests, req'[r].pc = "record"
        PROVE  req'[r] = req[r]
    BY <1>a, <2>2
  <2>3. ASSUME NEW pc \in {"failed", "done", "crashed"}, Goto(s, pc),
               NEW r \in Requests, req'[r].pc = "record"
        PROVE  req'[r] = req[r]
    <3>0. req[s] \in Request /\ pc \in PCs
      BY <1>a DEF PCs
    <3>1. [req[s] EXCEPT !.pc = pc] \in Request /\ [req[s] EXCEPT !.pc = pc].pc = pc
      BY <3>0, SetPC
    <3>2. QED
      BY <2>2, <2>3, <3>1 DEF Goto
  <2>4. CASE Arrive(s)
    BY <1>a, <2>1, <2>4, ArriveStarts
  <2>5. CASE \/ PushRefused(s) \/ RecordMerge(s) \/ WriteFields(s) \/ Crash(s)
             \/ \E d \in BOOLEAN : InsertPull(s, d)
    BY <2>3, <2>5 DEF PushRefused, AfterRefusal, RecordMerge, WriteFields, Crash, InsertPull
  <2>6. CASE ClaimNumber(s)
    BY <1>a, <2>6 DEF ClaimNumber, Request
  <2>7. CASE ReadBase(s) \/ ReadHead(s)
    <3> SUFFICES ASSUME NEW r \in Requests, req'[r].pc = "record"
                 PROVE  req'[r] = req[r]
      BY <2>1
    <3>1. \A q : NextResolved(q) \in {"failed", "claim", "push"}
      BY DEF NextResolved
    <3>2. ASSUME NEW p \in Request, NEW both \in BOOLEAN, p.pc = "resolve",
                 req' = [req EXCEPT ![s] =
                           IF both THEN [p EXCEPT !.pc = NextResolved(p)] ELSE p]
          PROVE  req'[r] = req[r]
      <4>1. [p EXCEPT !.pc = NextResolved(p)].pc = NextResolved(p)
        BY DEF Request
      <4>2. QED
        BY <1>a, <3>1, <3>2, <4>1
    <3>3. /\ req[s] \in Request /\ req[s].pc = "resolve"
          /\ refs[req[s].base] \in Tips /\ refs[req[s].head] \in Tips
      BY <1>a, <2>7
         DEF ReadBase, ReadHead, At, WellFormed, ReqInv, HandlerOK, TypeOK, GitTypeOK
    <3>4. CASE ReadBase(s)
      <4> DEFINE p == [req[s] EXCEPT !.seen = @ \cup {"base"}, !.baseSha = refs[req[s].base]]
      <4>1. p \in Request /\ p.pc = "resolve"
        BY <3>3 DEF Request
      <4>2. req' = [req EXCEPT ![s] =
              IF "head" \in p.seen THEN [p EXCEPT !.pc = NextResolved(p)] ELSE p]
        BY <3>4 DEF ReadBase
      <4> HIDE DEF p
      <4>3. QED
        BY <3>2, <4>1, <4>2
    <3>5. CASE ReadHead(s)
      <4> DEFINE p == [req[s] EXCEPT !.seen = @ \cup {"head"}, !.headSha = refs[req[s].head]]
      <4>1. p \in Request /\ p.pc = "resolve"
        BY <3>3 DEF Request
      <4>2. req' = [req EXCEPT ![s] =
              IF "base" \in p.seen THEN [p EXCEPT !.pc = NextResolved(p)] ELSE p]
        BY <3>5 DEF ReadHead
      <4> HIDE DEF p
      <4>3. QED
        BY <3>2, <4>1, <4>2
    <3>6. QED
      BY <2>7, <3>4, <3>5
  <2>8. QED
    BY <1>2, <2>1, <2>4, <2>5, <2>6, <2>7 DEF Step
<1>3. QED
  BY <1>1, <1>2 DEF Next

\* Landings stay what they were.
LEMMA NextLandInv ==
  ASSUME WellFormed, LandInv, [Next]_vars
  PROVE  LandInv' /\ (PushInv /\ NewsInv => NewsInv')
<1>a. GitGrows /\ nCommits \in Nat /\ nCommits' \in Nat /\ landings \subseteq Landing
  BY NextGrows, NextWellFormed, GitAssumption DEF WellFormed, TypeOK, GitTypeOK, CommitIds
<1>1. ASSUME NEW l \in landings
      PROVE  /\ l.old <= nCommits' /\ l.new <= nCommits' /\ l.head <= nCommits'
             /\ l.old \in anc'[l.new] /\ l.head \in anc'[l.new]
             /\ NewsInv => l.head \notin Log(l.old)'
  <2>1. l.old \in 1 .. nCommits /\ l.new \in 1 .. nCommits /\ l.head \in 1 .. nCommits
    BY <1>a DEF LandInv, Landing, CommitIds
  <2>2. anc'[l.old] = anc[l.old] /\ anc'[l.new] = anc[l.new]
    BY <1>a, <2>1 DEF GitGrows
  <2>3. NewsInv => l.head \notin Log(l.old)'
    BY <2>2, LogStays DEF NewsInv
  <2>4. l.old \in anc[l.new] /\ l.head \in anc[l.new]
    BY DEF LandInv, NothingRewound
  <2>5. QED
    BY <1>a, <2>1, <2>2, <2>3, <2>4 DEF GitGrows
<1>2. CASE \A r \in Requests : ~PushAccepted(r)
  <2>1. landings' = landings
    BY <1>2, OthersDoNotLand
  <2>2. QED
    BY <1>1, <2>1 DEF LandInv, NothingRewound, NewsInv
<1>3. ASSUME NEW r \in Requests, PushAccepted(r)
      PROVE  LandInv' /\ (PushInv /\ NewsInv => NewsInv')
  <2>1. PICK l \in Landing :
           /\ landings' = landings \cup {l}
           /\ l.old \in 1 .. nCommits /\ l.head \in 1 .. nCommits
           /\ l.new \in 1 .. nCommits'
           /\ l.old \in anc'[l.new] /\ l.head \in anc'[l.new]
           /\ PushInv => l.head \notin Log(l.old)
    BY <1>3, PushLands
  <2>2. /\ anc'[l.old] = anc[l.old]
        /\ l.old <= nCommits' /\ l.head <= nCommits'
    BY <1>a, <2>1 DEF GitGrows
  <2>3. ASSUME NEW m \in landings'
        PROVE  /\ m.old <= nCommits' /\ m.new <= nCommits' /\ m.head <= nCommits'
               /\ m.old \in anc'[m.new] /\ m.head \in anc'[m.new]
               /\ PushInv /\ NewsInv => m.head \notin Log(m.old)'
    BY <1>1, <1>a, <2>1, <2>2, LogStays
  <2>4. QED
    BY <2>3 DEF LandInv, NothingRewound, NewsInv
<1>4. QED
  BY <1>2, <1>3

\* However far the history walks behind the verdicts go - and they are cut off at
\* ANCESTRY_LIMIT, where a long history leads to the wrong verdict - a merge never
\* takes a commit out of a branch's history: a wrong verdict may cost a merge commit
\* too many, and that is all it costs there.
THEOREM MergesNeverRewind == Spec => []NothingRewound
<1>1. Init => WellFormed /\ LandInv
  BY InitWellFormed DEF Init, LandInv, NothingRewound
<1>2. WellFormed /\ LandInv /\ [Next]_vars => WellFormed' /\ LandInv'
  BY NextWellFormed, NextLandInv
<1>3. LandInv => NothingRewound
  BY DEF LandInv
<1>4. QED
  BY <1>1, <1>2, <1>3, PTL DEF Spec

\* The inductive invariant of what merges do to the repository.
Landed == WellFormed /\ PushInv /\ LandInv /\ NewsInv

LEMMA AlwaysLanded == Spec => []Landed
<1>1. Init => Landed
  BY InitWellFormed
     DEF Landed, Init, PushInv, LandInv, NothingRewound, NewsInv, Idle
<1>2. Landed /\ [Next]_vars => Landed'
  BY NextWellFormed, NextPushInv, NextLandInv DEF Landed
<1>3. QED
  BY <1>1, <1>2, PTL DEF Spec

\* A merge never rewinds a branch, and lands what the branch already has only where
\* that is further back than the walk that looks for it, whatever pushes and requests
\* interleave with it.
THEOREM LandingsAddWork == Spec => []LandingAddsWork
<1>1. Landed => LandingAddsWork
  BY DEF Landed, LandInv, NothingRewound, NewsInv, LandingAddsWork, BeyondWalk
<1>2. QED
  BY <1>1, AlwaysLanded, PTL

\* A merge brings in a commit its branch did not have, where the history of the
\* branch is not longer than the walk.
AddsToShortHistories ==
  \A l \in landings :
    Cardinality(anc[l.old]) <= AncestryLimit => l.head \notin anc[l.old]

\* With less than ANCESTRY_LIMIT commits behind it a branch gains by every merge: the
\* exception of LandingsAddWork is only for longer histories.
THEOREM ShortHistoriesGrow == Spec => []AddsToShortHistories
<1>1. Landed => AddsToShortHistories
  <2> SUFFICES ASSUME Landed, NEW l \in landings, Cardinality(anc[l.old]) <= AncestryLimit
               PROVE  l.head \notin anc[l.old]
    BY DEF AddsToShortHistories
  <2>1. l.old \in 1 .. nCommits
    BY GitAssumption
       DEF Landed, LandInv, WellFormed, TypeOK, GitTypeOK, Landing, CommitIds
  <2>2. Log(l.old) = anc[l.old]
    BY <2>1, WalkSeesAll DEF Landed, WellFormed, TypeOK
  <2>3. QED
    BY <2>2 DEF Landed, NewsInv
<1>2. QED
  BY <1>1, AlwaysLanded, PTL

\* A walk sees the newest commits of a history.
LEMMA LogIsNewest ==
  ASSUME NEW c
  PROVE  Log0!Newest(anc[c]) = Log(c)
BY DEF Log, Log0!Newest, Cardinality, Log0!Cardinality

\* The service is an implementation of the abstract log of merges: each of its steps
\* is a step of the log or changes nothing.
THEOREM ServiceImplementsMergeLog == Spec => MergeLogSpec
<1>1. Init => Log0!Init
  BY DEF Init, Log0!Init
<1>2. Landed /\ [Next]_vars => [Log0!Next]_Log0!vars
  <2> SUFFICES ASSUME Landed, [Next]_vars PROVE Log0!Next
    OBVIOUS
  <2>a. WellFormed /\ WellFormed' /\ GitGrows /\ nCommits \in Nat
    BY NextGrows, NextWellFormed, GitAssumption
       DEF Landed, WellFormed, TypeOK, GitTypeOK, CommitIds
  <2>1. Log0!CommitsKept
    <3>1. DOMAIN anc = CommitIds /\ DOMAIN anc' = CommitIds
      BY <2>a DEF WellFormed, TypeOK, GitTypeOK
    <3>2. ASSUME NEW c \in CommitIds, anc[c] # {}
          PROVE  anc'[c] = anc[c]
      BY <2>a, <3>2, GitAssumption DEF GitGrows, WellFormed, GitInv, CommitIds
    <3>3. QED
      BY <3>1, <3>2 DEF Log0!CommitsKept
  <2>2. CASE \A r \in Requests : ~PushAccepted(r)
    BY <2>1, <2>2, <2>a, OthersDoNotLand DEF Log0!Next, Log0!Push
  <2>3. ASSUME NEW r \in Requests, PushAccepted(r)
        PROVE  Log0!Land
    <3>1. PICK l \in Landing :
           /\ landings' = landings \cup {l}
           /\ l.branch \in Branches /\ l.old = refs[l.branch]
           /\ refs' = [refs EXCEPT ![l.branch] = l.new]
           /\ l.old \in 1 .. nCommits
           /\ l.old \in anc'[l.new] /\ l.head \in anc'[l.new]
           /\ l.head \notin Log(l.old)
      BY <2>3, PushLands DEF Landed
    <3>2. anc'[l.old] = anc[l.old] /\ Log0!Newest(anc[l.old]) = Log(l.old)
      BY <2>a, <3>1, LogIsNewest DEF GitGrows
    <3>3. l.branch \in DOMAIN refs
      BY <2>a, <3>1 DEF WellFormed, TypeOK, GitTypeOK
    <3>4. QED
      BY <2>1, <3>1, <3>2, <3>3 DEF Log0!Land
  <2>4. QED
    BY <2>2, <2>3 DEF Log0!Next
<1>3. QED
  BY <1>1, <1>2, AlwaysLanded, PTL DEF Spec, MergeLogSpec, Log0!Spec

\* A merged row has a landing behind it, and so has a handler that will mark one.
LEMMA NextRecorded ==
  ASSUME WellFormed, RecordInv, MergedIsLanded, [Next]_vars
  PROVE  RecordInv' /\ MergedIsLanded'
<1>a. req \in [Requests -> Request] /\ pulls \in [Numbers -> Row]
  BY DEF WellFormed, TypeOK
<1>1. ASSUME NEW r \in Requests, PushAccepted(r)
      PROVE  RecordInv' /\ MergedIsLanded'
  <2> DEFINE new == IF IsFastForward(req[r]) THEN req[r].headSha ELSE nCommits + 1
             l == [by |-> r, pull |-> req[r].pull, branch |-> req[r].base,
                   old |-> req[r].baseSha, new |-> new, head |-> req[r].headSha]
  <2>1. /\ landings' = landings \cup {l}
        /\ req' = [req EXCEPT ![r].pc = "record", ![r].newSha = new]
        /\ UNCHANGED pulls
    BY <1>1, PushFacts
  <2> HIDE DEF new
  <2>2. ASSUME NEW s \in Requests, req'[s].pc = "record"
        PROVE  \E m \in landings' : m.pull = req'[s].pull /\ m.new = req'[s].newSha
    <3>1. CASE s = r
      <4>1. req'[r].pull = req[r].pull /\ req'[r].newSha = new
        BY <1>a, <2>1 DEF Request
      <4>2. l \in landings' /\ l.pull = req[r].pull /\ l.new = new
        BY <2>1
      <4>3. QED
        BY <3>1, <4>1, <4>2
    <3>2. CASE s # r
      BY <1>a, <2>1, <2>2, <3>2 DEF RecordInv
    <3>3. QED
      BY <3>1, <3>2
  <2>3. QED
    BY <2>1, <2>2 DEF RecordInv, MergedIsLanded
<1>2. CASE \A r \in Requests : ~PushAccepted(r)
  <2>1. /\ landings' = landings
        /\ \A r \in Requests : req'[r].pc = "record" => req'[r] = req[r]
    BY <1>2, OthersDoNotLand
  <2>2. RecordInv'
    BY <2>1 DEF RecordInv
  <2>3. ASSUME NEW n \in Numbers, pulls'[n].merged
        PROVE  \/ pulls[n].merged /\ pulls'[n].mergeSha = pulls[n].mergeSha
               \/ \E r \in Requests : /\ req[r].pc = "record" /\ req[r].pull = n
                                      /\ pulls'[n].mergeSha = req[r].newSha
    <3>1. CASE UNCHANGED pulls
      BY <2>3, <3>1
    <3>2. ASSUME NEW r \in Requests, RecordMerge(r)
          PROVE  \/ pulls[n].merged /\ pulls'[n].mergeSha = pulls[n].mergeSha
                 \/ \E s \in Requests : /\ req[s].pc = "record" /\ req[s].pull = n
                                        /\ pulls'[n].mergeSha = req[s].newSha
      <4>1. MergedRow(pulls[n], req[r].newSha).mergeSha = req[r].newSha
        BY <1>a DEF MergedRow, Row
      <4>2. QED
        BY <1>a, <2>3, <3>2, <4>1 DEF RecordMerge, At
    <3>3. ASSUME NEW r \in Requests, NEW d \in BOOLEAN, InsertPull(r, d)
          PROVE  pulls[n].merged /\ pulls'[n].mergeSha = pulls[n].mergeSha
      BY <1>a, <2>3, <3>3 DEF InsertPull, NoPull
    <3>4. ASSUME NEW r \in Requests, WriteFields(r)
          PROVE  pulls[n].merged /\ pulls'[n].mergeSha = pulls[n].mergeSha
      <4>1. /\ PatchedRow(pulls[n], req[r]).merged = pulls[n].merged
            /\ PatchedRow(pulls[n], req[r]).mergeSha = pulls[n].mergeSha
        BY <1>a DEF PatchedRow, Row
      <4>2. QED
        BY <1>a, <2>3, <3>4, <4>1 DEF WriteFields
    <3>5. QED
      BY <1>2, <3>1, <3>2, <3>3, <3>4, ZenonT(30)
         DEF Next, vars, d1Vars, People, Arrive, StartCreate, StartMerge, StartUpdate,
             StartIssue, Crash, Step, ReadBase, ReadHead, PushRefused, ClaimNumber
  <2>4. MergedIsLanded'
    BY <2>1, <2>3 DEF MergedIsLanded, RecordInv
  <2>5. QED
    BY <2>2, <2>4
<1>3. QED
  BY <1>1, <1>2

\* However requests race, crash or lose their answers, a pull is marked merged
\* only with a commit that really became the tip of a branch.
THEOREM MergedHasLanded == Spec => []MergedIsLanded
<1> DEFINE Inv == WellFormed /\ RecordInv /\ MergedIsLanded
<1>1. Init => Inv
  BY InitWellFormed DEF Init, RecordInv, MergedIsLanded, Idle, NoPull
<1>2. Inv /\ [Next]_vars => Inv'
  BY NextWellFormed, NextRecorded
<1>3. Inv => MergedIsLanded
  OBVIOUS
<1>4. QED
  BY <1>1, <1>2, <1>3, PTL DEF Spec

\* What people do with git, without rewriting, keeps every branch's history.
LEMMA PeopleKeepHistory ==
  ASSUME WellFormed, People, ~AllowRewrites, NEW b \in Branches, refs[b] # NoCommit
  PROVE  refs'[b] # NoCommit /\ anc[refs[b]] \subseteq anc'[refs'[b]]
<1> USE GitAssumption DEF WellFormed, TypeOK, GitTypeOK, CommitIds, NoCommit
<1>1. GitGrows /\ refs[b] \in 1 .. nCommits
  BY NextGrows DEF Next, GitInv
<1>2. ASSUME NEW c \in Branches, anc[refs[c]] \subseteq anc'[nCommits + 1],
             refs' = [refs EXCEPT ![c] = nCommits + 1]
      PROVE  refs'[b] # NoCommit /\ anc[refs[b]] \subseteq anc'[refs'[b]]
  <2>1. CASE b = c
    BY <1>2, <2>1
  <2>2. CASE b # c
    BY <1>1, <1>2, <2>2 DEF GitGrows
  <2>3. QED
    BY <2>1, <2>2
<1>3. ASSUME NEW c \in Branches, PushCommit(c)
      PROVE  refs'[b] # NoCommit /\ anc[refs[b]] \subseteq anc'[refs'[b]]
  <2>1. anc[refs[c]] \subseteq anc'[nCommits + 1]
    BY <1>3 DEF PushCommit, NewCommit
  <2>2. QED
    BY <1>2, <1>3, <2>1 DEF PushCommit
<1>4. ASSUME NEW c \in Branches, NEW d \in Branches, PushMerge(c, d)
      PROVE  refs'[b] # NoCommit /\ anc[refs[b]] \subseteq anc'[refs'[b]]
  <2>1. anc[refs[c]] \subseteq anc'[nCommits + 1]
    BY <1>4 DEF PushMerge, NewCommit
  <2>2. QED
    BY <1>2, <1>4, <2>1 DEF PushMerge
<1>5. QED
  BY <1>3, <1>4 DEF People

\* Only people and accepted pushes touch the repository.
LEMMA OthersKeepGit ==
  ASSUME WellFormed, [Next]_vars, ~People, \A r \in Requests : ~PushAccepted(r)
  PROVE  UNCHANGED gitVars
BY ZenonT(30) DEF Next, vars, Arrive, StartCreate, StartMerge, StartUpdate, StartIssue, Crash, Step,
       ReadBase, ReadHead, PushRefused, RecordMerge, ClaimNumber, InsertPull, WriteFields

\* What landed on a branch stays in it, and what is seen in it does not land again.
LEMMA NextKept ==
  ASSUME Landed, KeptInv, NoDoubleLanding, [Next]_vars
  PROVE  KeptInv' /\ NoDoubleLanding'
<1> SUFFICES ASSUME ~AllowRewrites PROVE KeptInv' /\ NoDoubleLanding'
  BY DEF KeptInv, NoDoubleLanding
<1>a. WellFormed /\ WellFormed' /\ Landed' /\ GitGrows
  BY NextWellFormed, NextPushInv, NextLandInv, NextGrows DEF Landed
<1>b. ASSUME NEW l \in landings
      PROVE  l.branch \in Branches /\ refs[l.branch] # NoCommit /\ l.head \in anc[refs[l.branch]]
  BY <1>a DEF KeptInv, WellFormed, TypeOK, Landing
<1>c. ASSUME NEW l \in landings
      PROVE  BeyondWalk(l.old, l.head)' <=> BeyondWalk(l.old, l.head)
  <2>1. l.old \in 1 .. nCommits
    BY <1>a, GitAssumption
       DEF Landed, LandInv, WellFormed, TypeOK, GitTypeOK, Landing, CommitIds
  <2>2. anc'[l.old] = anc[l.old]
    BY <1>a, <2>1 DEF GitGrows
  <2>3. QED
    BY <2>2, LogStays DEF BeyondWalk
<1>1. CASE \A r \in Requests : ~PushAccepted(r)
  <2>1. landings' = landings
    BY <1>1, <1>a, OthersDoNotLand
  <2>2. KeptInv'
    <3>1. CASE People
      BY <1>a, <1>b, <2>1, <3>1, PeopleKeepHistory DEF KeptInv
    <3>2. CASE ~People
      BY <1>1, <1>a, <1>b, <2>1, <3>2, OthersKeepGit DEF KeptInv, gitVars
    <3>3. QED
      BY <3>1, <3>2
  <2>3. QED
    BY <1>c, <2>1, <2>2 DEF NoDoubleLanding
<1>2. ASSUME NEW r \in Requests, PushAccepted(r)
      PROVE  KeptInv' /\ NoDoubleLanding'
  <2>1. PICK l \in Landing :
         /\ landings' = landings \cup {l}
         /\ l.branch \in Branches /\ l.old = refs[l.branch]
         /\ refs' = [refs EXCEPT ![l.branch] = l.new]
         /\ l.old \in 1 .. nCommits
         /\ l.new \in 1 .. nCommits'
         /\ l.old \in anc'[l.new] /\ l.head \in anc'[l.new]
         /\ l.head \notin Log(l.old)
    BY <1>2, PushLands DEF Landed
  <2>2. refs \in [Branches -> Tips]
    BY <1>a DEF WellFormed, TypeOK, GitTypeOK
  <2>3. anc[l.old] \subseteq anc'[l.new]
    BY <1>a, <2>1 DEF GitGrows, WellFormed, GitInv
  <2>4. ASSUME NEW m \in landings'
        PROVE  refs'[m.branch] # NoCommit /\ m.head \in anc'[refs'[m.branch]]
    <3>1. CASE m = l
      BY <2>1, <2>2, <3>1 DEF NoCommit
    <3>2. CASE m \in landings /\ m.branch = l.branch
      BY <1>b, <2>1, <2>2, <2>3, <3>2 DEF NoCommit
    <3>3. CASE m \in landings /\ m.branch # l.branch
      <4>1. refs'[m.branch] = refs[m.branch] /\ refs[m.branch] \in 1 .. nCommits
        BY <1>a, <1>b, <2>1, <2>2, <3>3, GitAssumption
           DEF WellFormed, TypeOK, GitTypeOK, GitInv, CommitIds, NoCommit
      <4>2. QED
        BY <1>a, <1>b, <3>3, <4>1 DEF GitGrows, NoCommit
    <3>4. QED
      BY <2>1, <3>1, <3>2, <3>3
  <2>5. ASSUME NEW m \in landings, m.branch = l.branch, m.head = l.head
        PROVE  BeyondWalk(l.old, l.head)'
    <3>1. l.head \in anc[l.old]
      BY <1>b, <2>1, <2>5
    <3>2. anc'[l.old] = anc[l.old]
      BY <1>a, <2>1 DEF GitGrows
    <3>3. QED
      BY <2>1, <3>1, <3>2, LogStays DEF BeyondWalk
  <2>6. NoDoubleLanding'
    <3>1. ASSUME NEW l1 \in landings', NEW l2 \in landings',
                 l1.branch = l2.branch, l1.head = l2.head, l1 # l2
          PROVE  BeyondWalk(l1.old, l1.head)' \/ BeyondWalk(l2.old, l2.head)'
      <4>1. CASE l1 \in landings /\ l2 \in landings
        BY <1>a, <1>c, <3>1, <4>1 DEF NoDoubleLanding
      <4>2. CASE l1 = l \/ l2 = l
        BY <2>1, <2>5, <3>1, <4>2
      <4>3. QED
        BY <2>1, <4>1, <4>2
    <3>2. QED
      BY <3>1 DEF NoDoubleLanding
  <2>7. QED
    BY <2>4, <2>6 DEF KeptInv
<1>3. QED
  BY <1>1, <1>2

\* Where nobody rewrites branches, one head never lands twice on a branch:
\* not when two merges race, nor when a merge is retried after its first
\* attempt landed and was cut off before it could record that - unless by then it
\* lies beyond the walk.
THEOREM HeadsLandOnce == Spec => []NoDoubleLanding
<1> DEFINE Inv == Landed /\ KeptInv /\ NoDoubleLanding
<1>1. Init => Inv
  BY InitWellFormed
     DEF Landed, Init, PushInv, LandInv, NothingRewound, NewsInv, Idle, KeptInv,
         NoDoubleLanding
<1>2. Inv /\ [Next]_vars => Inv'
  BY NextWellFormed, NextPushInv, NextLandInv, NextKept DEF Landed
<1>3. Inv => NoDoubleLanding
  OBVIOUS
<1>4. QED
  BY <1>1, <1>2, <1>3, PTL DEF Spec

-----------------------------------------------------------------------------
(***************************************************************************)
(* Numbers, and what a reviewer expected.                                  *)
(***************************************************************************)

\* What a step of a handler does to its own state: others are left alone, a merge
\* that has landed stays past its push, and the head it was told to expect is the
\* one it read when it goes on to push.
LEMMA HandlerMoves ==
  ASSUME WellFormed, NEW r \in Requests, Arrive(r) \/ Step(r) \/ Crash(r)
  PROVE  /\ \A s \in Requests \ {r} : req'[s] = req[s]
         /\ \/ /\ req[r].pc = "idle" /\ req'[r].pc \in {"resolve", "write"}
               /\ req'[r].expected \in 0 .. nCommits
            \/ /\ req[r].pc # "idle" /\ req'[r].expected = req[r].expected
               /\ req[r].pc \in {"record", "done", "crashed"} => req'[r].pc \in {"done", "crashed"}
               /\ req'[r].pc = "push" => req'[r].expected \in {NoCommit, req'[r].headSha}
               /\ req'[r].pc = "insert" => ClaimNumber(r)
<1> DEFINE Moves ==
      /\ req[r].pc # "idle" /\ req'[r].expected = req[r].expected
      /\ req[r].pc \in {"record", "done", "crashed"} => req'[r].pc \in {"done", "crashed"}
      /\ req'[r].pc = "push" => req'[r].expected \in {NoCommit, req'[r].headSha}
      /\ req'[r].pc = "insert" => ClaimNumber(r)
    Others == \A s \in Requests \ {r} : req'[s] = req[s]
<1>a. req \in [Requests -> Request] /\ req[r] \in Request
  BY DEF WellFormed, TypeOK
<1>1. CASE Arrive(r)
  <2>1. Others /\ req'[r].pc \in {"resolve", "write"}
    BY <1>1, <1>a, ArriveStarts
  <2>2. req[r].pc = "idle"
    BY <1>1 DEF Arrive, StartCreate, StartMerge, StartUpdate, StartIssue, At
  <2>3. Idle.expected \in 0 .. nCommits
    BY DEF Idle, NoCommit, WellFormed, TypeOK, GitTypeOK, CommitIds
  <2>4. ASSUME NEW q, q.expected \in 0 .. nCommits, req' = [req EXCEPT ![r] = q]
        PROVE  req'[r].expected \in 0 .. nCommits
    BY <1>a, <2>4
  <2>5. CASE \E b, h \in Branches : StartCreate(r, b, h)
    <3>1. PICK b \in Branches, h \in Branches : StartCreate(r, b, h)
      BY <2>5
    <3>2. [Idle EXCEPT !.kind = "create", !.pc = "resolve",
                       !.base = b, !.head = h].expected = Idle.expected
      BY DEF Idle
    <3> QED BY <2>1, <2>2, <2>3, <2>4, <3>1, <3>2 DEF StartCreate
  <2>6. CASE \E n \in Numbers, m \in Methods : \E e \in PageHead(n) : StartMerge(r, n, m, e)
    <3>1. PICK n \in Numbers, m \in Methods : \E e \in PageHead(n) : StartMerge(r, n, m, e)
      BY <2>6
    <3>2. PICK e \in PageHead(n) : StartMerge(r, n, m, e)
      BY <3>1
    <3>3. [Idle EXCEPT !.kind = "merge", !.pc = "resolve", !.pull = n,
                       !.base = pulls[n].base, !.head = pulls[n].head,
                       !.method = m, !.expected = e].expected = e
      BY DEF Idle
    <3>4. e \in 0 .. nCommits
      BY <2>3 DEF PageHead, WellFormed, RowInv, GitInv, Idle
    <3> QED BY <2>1, <2>2, <2>4, <3>2, <3>3, <3>4 DEF StartMerge
  <2>7. CASE \E n \in Numbers, s \in PullStates \cup {Nil}, d \in BOOLEAN \cup {Nil},
                b \in Branches \cup {Nil} : StartUpdate(r, n, s, d, b)
    <3>1. PICK n \in Numbers, s \in PullStates \cup {Nil}, d \in BOOLEAN \cup {Nil},
               b \in Branches \cup {Nil} : StartUpdate(r, n, s, d, b)
      BY <2>7
    <3>2. [Idle EXCEPT !.kind = "update", !.pc = "write", !.pull = n,
                       !.state = s, !.draft = d, !.toBase = b].expected = Idle.expected
      BY DEF Idle
    <3> QED BY <2>1, <2>2, <2>3, <2>4, <3>1, <3>2 DEF StartUpdate
  <2>8. CASE \E n \in Numbers, s \in PullStates \cup {Nil} : StartIssue(r, n, s)
    <3>1. PICK n \in Numbers, s \in PullStates \cup {Nil} : StartIssue(r, n, s)
      BY <2>8
    <3>2. [Idle EXCEPT !.kind = "issue", !.pc = "write", !.pull = n,
                       !.state = s].expected = Idle.expected
      BY DEF Idle
    <3> QED BY <2>1, <2>2, <2>3, <2>4, <3>1, <3>2 DEF StartIssue
  <2> QED BY <1>1, <2>5, <2>6, <2>7, <2>8 DEF Arrive
<1>2. ASSUME NEW pc \in {"failed", "done", "crashed"}, Goto(r, pc), req[r].pc # "idle",
             req[r].pc \in {"record", "done", "crashed"} => pc # "failed"
      PROVE  Others /\ Moves
  BY <1>a, <1>2 DEF Goto, Request
<1>3. CASE \/ PushRefused(r) \/ RecordMerge(r) \/ WriteFields(r) \/ Crash(r)
           \/ \E d \in BOOLEAN : InsertPull(r, d)
  BY <1>2, <1>3 DEF PushRefused, AfterRefusal, RecordMerge, WriteFields, Crash, InsertPull, At
<1>4. CASE PushAccepted(r)
  <2>1. req[r].pc = "push"
    BY <1>4 DEF PushAccepted, At
  <2>2. PICK new : req' = [req EXCEPT ![r].pc = "record", ![r].newSha = new]
    BY <1>4 DEF PushAccepted
  <2> QED BY <1>a, <2>1, <2>2 DEF Request
<1>5. CASE ClaimNumber(r)
  BY <1>a, <1>5 DEF ClaimNumber, At, Request
<1>6. ASSUME NEW p \in Request, NEW both \in BOOLEAN, p.pc = "resolve", req[r].pc = "resolve",
             p.expected = req[r].expected,
             req' = [req EXCEPT ![r] =
                       IF both THEN [p EXCEPT !.pc = NextResolved(p)] ELSE p]
      PROVE  Others /\ Moves
  <2>1. CASE ~both
    BY <1>a, <1>6, <2>1
  <2>2. CASE both
    <3>1. req' = [req EXCEPT ![r] = [p EXCEPT !.pc = NextResolved(p)]]
      BY <1>6, <2>2
    <3>2. /\ req'[r].pc = NextResolved(p) /\ req'[r].expected = p.expected
          /\ req'[r].headSha = p.headSha
      BY <1>a, <3>1 DEF Request
    <3>3. /\ NextResolved(p) \in {"failed", "claim", "push"}
          /\ NextResolved(p) = "push" => p.expected \in {NoCommit, p.headSha}
      BY DEF NextResolved
    <3> QED BY <1>a, <1>6, <3>1, <3>2, <3>3
  <2> QED BY <2>1, <2>2
<1>7. ASSUME req[r].pc = "resolve"
      PROVE  refs[req[r].base] \in Tips /\ refs[req[r].head] \in Tips
  BY <1>7 DEF WellFormed, ReqInv, HandlerOK, TypeOK, GitTypeOK
<1>8. CASE ReadBase(r)
  <2> DEFINE p == [req[r] EXCEPT !.seen = @ \cup {"base"}, !.baseSha = refs[req[r].base]]
  <2>0. req[r].pc = "resolve"
    BY <1>8 DEF ReadBase, At
  <2>1. p \in Request /\ p.pc = "resolve" /\ p.expected = req[r].expected
    BY <1>a, <1>7, <2>0 DEF Request
  <2>2. req' = [req EXCEPT ![r] =
          IF "head" \in p.seen THEN [p EXCEPT !.pc = NextResolved(p)] ELSE p]
    BY <1>8 DEF ReadBase
  <2> HIDE DEF p
  <2> QED BY <1>6, <2>0, <2>1, <2>2
<1>9. CASE ReadHead(r)
  <2> DEFINE p == [req[r] EXCEPT !.seen = @ \cup {"head"}, !.headSha = refs[req[r].head]]
  <2>0. req[r].pc = "resolve"
    BY <1>9 DEF ReadHead, At
  <2>1. p \in Request /\ p.pc = "resolve" /\ p.expected = req[r].expected
    BY <1>a, <1>7, <2>0 DEF Request
  <2>2. req' = [req EXCEPT ![r] =
          IF "base" \in p.seen THEN [p EXCEPT !.pc = NextResolved(p)] ELSE p]
    BY <1>9 DEF ReadHead
  <2> HIDE DEF p
  <2> QED BY <1>6, <2>0, <2>1, <2>2
<1> QED BY <1>1, <1>3, <1>4, <1>5, <1>8, <1>9 DEF Step

\* Numbers are handed out upwards: those in use, or claimed, are behind the counter.
FreshInv ==
  /\ \A n \in Numbers : Exists(n) => n < nextNumber
  /\ \A r \in Requests : At(r, "insert") => req[r].pull < nextNumber
  /\ NumbersAreFresh

LEMMA NextFresh ==
  ASSUME WellFormed, FreshInv, [Next]_vars
  PROVE  FreshInv'
<1>a. /\ req \in [Requests -> Request] /\ nextNumber \in Nat
      /\ pulls \in [Numbers -> Row]
      /\ \A n \in Numbers : n \in Nat
  BY DEF WellFormed, TypeOK, Numbers
<1>1. ASSUME nextNumber' = nextNumber,
             \A n \in Numbers : Exists(n)' => Exists(n),
             \A s \in Requests : req'[s].pc = "insert" => req'[s] = req[s]
      PROVE  FreshInv'
  <2>1. \A s \in Requests : req'[s].pc = "insert" => At(s, "insert") /\ req'[s].pull \in Numbers
    BY <1>1 DEF At, WellFormed, ReqInv, HandlerOK
  <2> QED BY <1>1, <2>1 DEF FreshInv, NumbersAreFresh, At
<1>2. ASSUME NEW r \in Requests, Arrive(r) \/ Step(r) \/ Crash(r), ~ClaimNumber(r)
      PROVE  \A s \in Requests : req'[s].pc = "insert" => req'[s] = req[s]
  BY <1>2, HandlerMoves
<1>3. CASE UNCHANGED vars \/ People
  BY <1>1, <1>3 DEF vars, d1Vars, People, Exists
<1>4. ASSUME NEW r \in Requests, ClaimNumber(r)
      PROVE  FreshInv'
  <2>1. /\ nextNumber \in Numbers /\ nextNumber' = nextNumber + 1 /\ pulls' = pulls
        /\ req' = [req EXCEPT ![r].pc = "insert", ![r].pull = nextNumber]
    BY <1>4 DEF ClaimNumber, Claimed
  <2>2. req'[r].pull = nextNumber /\ \A s \in Requests \ {r} : req'[s] = req[s]
    BY <1>a, <2>1 DEF Request
  <2>3. \A s \in Requests \ {r} : req'[s].pc = "insert" =>
          req[s].pc = "insert" /\ req[s].pull \in Numbers /\ req[s].pull < nextNumber
    BY <2>2 DEF FreshInv, At, WellFormed, ReqInv, HandlerOK
  <2>4. ~Exists(nextNumber)
    BY <1>a, <2>1 DEF FreshInv
  <2>5. \A n \in Numbers : Exists(n)' <=> Exists(n)
    BY <2>1 DEF Exists
  <2>6. \A n \in Numbers : Exists(n)' => n < nextNumber'
    BY <1>a, <2>1, <2>5 DEF FreshInv
  <2>7. \A s \in Requests : req'[s].pc = "insert" => req'[s].pull < nextNumber'
    BY <1>a, <2>1, <2>2, <2>3
  <2>8. \A s \in Requests : req'[s].pc = "insert" => pulls'[req'[s].pull].state = "none"
    BY <2>1, <2>2, <2>3, <2>4 DEF FreshInv, NumbersAreFresh, At, Exists
  <2>9. \A s \in Requests : \A t \in Requests \ {s} :
          req'[s].pc = "insert" /\ req'[t].pc = "insert" => req'[t].pull # req'[s].pull
    <3>1. \A s \in Requests \ {r} : req'[s].pc = "insert" => req'[s].pull # nextNumber
      BY <1>a, <2>2, <2>3
    <3> QED BY <2>2, <2>3, <3>1 DEF FreshInv, NumbersAreFresh, At
  <2> QED BY <2>6, <2>7, <2>8, <2>9 DEF FreshInv, NumbersAreFresh, At, Exists
<1>5. ASSUME NEW r \in Requests, NEW d \in BOOLEAN, InsertPull(r, d)
      PROVE  FreshInv'
  <2>1. PICK n : n = req[r].pull
    OBVIOUS
  <2>2. /\ n \in Numbers /\ req[r].pc = "insert" /\ nextNumber' = nextNumber
        /\ \A m \in Numbers \ {n} : pulls'[m] = pulls[m]
    BY <1>5, <1>a, <2>1 DEF InsertPull, At, WellFormed, ReqInv, HandlerOK
  <2>3. req' = [req EXCEPT ![r].pc = "done"]
    BY <1>5 DEF InsertPull, Goto
  <2>4. req'[r].pc = "done" /\ \A s \in Requests \ {r} : req'[s] = req[s]
    BY <1>a, <2>3 DEF Request
  <2>5. \A s \in Requests : req'[s].pc = "insert" =>
          s # r /\ req'[s] = req[s] /\ req[s].pull \in Numbers \ {n}
    BY <2>1, <2>2, <2>4 DEF FreshInv, NumbersAreFresh, At, WellFormed, ReqInv, HandlerOK
  <2>6. \A m \in Numbers : Exists(m)' => m < nextNumber'
    BY <2>1, <2>2 DEF FreshInv, Exists, At
  <2> QED BY <2>2, <2>5, <2>6 DEF FreshInv, NumbersAreFresh, At, Exists
<1>6. ASSUME NEW r \in Requests, RecordMerge(r) \/ WriteFields(r)
      PROVE  FreshInv'
  <2>1. /\ req[r].pull \in Numbers /\ Exists(req[r].pull) /\ nextNumber' = nextNumber
        /\ \A m \in Numbers \ {req[r].pull} : pulls'[m] = pulls[m]
        /\ ~ClaimNumber(r)
    BY <1>6, <1>a DEF RecordMerge, WriteFields, ClaimNumber, At, WellFormed, ReqInv, HandlerOK
  <2>2. \A n \in Numbers : Exists(n)' => Exists(n)
    BY <2>1 DEF Exists
  <2> QED BY <1>1, <1>2, <1>6, <2>1, <2>2 DEF Step
<1>7. ASSUME NEW r \in Requests,
             \/ Arrive(r) \/ Crash(r)
             \/ ReadBase(r) \/ ReadHead(r) \/ PushAccepted(r) \/ PushRefused(r)
      PROVE  FreshInv'
  <2>1. UNCHANGED <<pulls, nextNumber>>
    BY <1>7 DEF Arrive, StartCreate, StartMerge, StartUpdate, StartIssue, Crash,
                ReadBase, ReadHead, PushAccepted, PushRefused, d1Vars
  <2>2. ClaimNumber(r) => nextNumber' # nextNumber
    BY <1>a DEF ClaimNumber, Claimed
  <2> QED BY <1>1, <1>2, <1>7, <2>1, <2>2 DEF Step, Exists
<1> QED BY <1>3, <1>4, <1>5, <1>6, <1>7 DEF Next, Step

\* nextIssueNumber hands out each number once: no insertion of createPull meets a row,
\* or another creation under way, with its number.
THEOREM FreshNumbers == Spec => []NumbersAreFresh
<1> DEFINE Inv == WellFormed /\ FreshInv
<1>1. Init => Inv
  BY InitWellFormed DEF Init, FreshInv, NumbersAreFresh, Exists, NoPull, At, Idle
<1>2. Inv /\ [Next]_vars => Inv'
  BY NextWellFormed, NextFresh
<1>3. Inv => NumbersAreFresh
  BY DEF FreshInv
<1> QED BY <1>1, <1>2, <1>3, PTL DEF Spec

\* A merge pushes only what its caller expected, and what has landed stays as it was.
ReviewInv ==
  /\ \A r \in Requests :
       /\ req[r].expected \in 0 .. nCommits
       /\ At(r, "push") => req[r].expected \in {NoCommit, req[r].headSha}
  /\ \A l \in landings : req[l.by].pc \in {"record", "done", "crashed"} /\ l.new \in 1 .. nCommits
  /\ ReviewedHeadLands

\* No step alters what a commit holds.
LEMMA TreesStay ==
  ASSUME WellFormed, [Next]_vars
  PROVE  \A c \in 1 .. nCommits : tree'[c] = tree[c]
<1> USE GitAssumption
<1>a. GitTypeOK
  BY DEF WellFormed, TypeOK
<1>1. ASSUME NEW parents, NEW changes, NewCommit(parents, changes), nCommits < MaxCommits
      PROVE  \A c \in 1 .. nCommits : tree'[c] = tree[c]
  BY <1>a, <1>1 DEF NewCommit, GitTypeOK, CommitIds
<1>2. CASE People
  BY <1>1, <1>2 DEF People, PushCommit, PushMerge, Rewrite
<1>3. ASSUME NEW r \in Requests, PushAccepted(r)
      PROVE  \A c \in 1 .. nCommits : tree'[c] = tree[c]
  BY <1>1, <1>3 DEF PushAccepted
<1>4. ASSUME NEW r \in Requests, Arrive(r) \/ Crash(r) \/ (Step(r) /\ ~PushAccepted(r))
      PROVE  UNCHANGED gitVars
  BY <1>4 DEF Arrive, StartCreate, StartMerge, StartUpdate, StartIssue, Crash, Step,
              ReadBase, ReadHead, PushRefused, RecordMerge, ClaimNumber, InsertPull,
              WriteFields
<1> QED BY <1>2, <1>3, <1>4 DEF Next, vars, gitVars

LEMMA NextReview ==
  ASSUME WellFormed, ReviewInv, [Next]_vars
  PROVE  ReviewInv'
<1>a. /\ req \in [Requests -> Request] /\ landings \subseteq Landing
      /\ nCommits \in Nat /\ nCommits' \in Nat /\ nCommits <= nCommits'
  BY NextWellFormed, NextGrows, GitAssumption
     DEF WellFormed, TypeOK, GitTypeOK, CommitIds, GitGrows
<1>b. \A c \in 1 .. nCommits : tree'[c] = tree[c]
  BY TreesStay
<1> DEFINE Kept ==
      /\ \A r \in Requests : req[r].pc = "idle" \/ req'[r].expected = req[r].expected
      /\ \A r \in Requests : req'[r].expected \in 0 .. nCommits
      /\ \A r \in Requests : req'[r].pc = "push" => req'[r].expected \in {NoCommit, req'[r].headSha}
      /\ \A r \in Requests : req[r].pc \in {"record", "done", "crashed"} =>
           req'[r].pc \in {"record", "done", "crashed"}
<1>1. Kept
  <2>1. CASE req' = req
    BY <2>1 DEF ReviewInv, At
  <2>2. ASSUME NEW r \in Requests, Arrive(r) \/ Step(r) \/ Crash(r)
        PROVE  Kept
    BY <2>2, HandlerMoves DEF ReviewInv, At
  <2> QED BY <2>1, <2>2 DEF Next, People, vars
<1>2. ASSUME NEW l \in landings
      PROVE  /\ req'[l.by].pc \in {"record", "done", "crashed"} /\ l.new \in 1 .. nCommits'
             /\ req'[l.by].expected # NoCommit => tree'[l.new] = tree'[req'[l.by].expected]
  <2>1. /\ l.by \in Requests /\ req[l.by].pc \in {"record", "done", "crashed"}
        /\ l.new \in 1 .. nCommits
    BY <1>a DEF ReviewInv, Landing
  <2>2. req'[l.by].expected = req[l.by].expected
    BY <1>1, <2>1
  <2>3. req[l.by].expected # NoCommit =>
          /\ req[l.by].expected \in 1 .. nCommits
          /\ tree[l.new] = tree[req[l.by].expected]
    BY <1>a, <2>1 DEF ReviewInv, ReviewedHeadLands, NoCommit
  <2> QED BY <1>1, <1>a, <1>b, <2>1, <2>2, <2>3
<1>3. CASE landings' = landings
  BY <1>1, <1>2, <1>3, <1>a DEF ReviewInv, ReviewedHeadLands, At
<1>4. ASSUME NEW r \in Requests, PushAccepted(r)
      PROVE  ReviewInv'
  <2>1. PICK q : q = req[r]
    OBVIOUS
  <2>2. PICK new : new = IF IsFastForward(q) THEN q.headSha ELSE nCommits + 1
    OBVIOUS
  <2>3. PICK l : l = [by |-> r, pull |-> q.pull, branch |-> q.base,
                      old |-> q.baseSha, new |-> new, head |-> q.headSha]
    OBVIOUS
  <2>4. /\ q.headSha \in 1 .. nCommits /\ new \in 1 .. nCommits' /\ new \in CommitIds
        /\ landings' = landings \cup {l}
        /\ req' = [req EXCEPT ![r].pc = "record", ![r].newSha = new]
    BY <1>4, <2>1, <2>2, <2>3, PushFacts
  <2>5. l.by = r /\ l.new = new
    BY <2>3
  <2>6. req'[r].pc = "record" /\ req'[r].expected = q.expected
    BY <1>a, <2>1, <2>4 DEF Request
  <2>7. q.expected \in {NoCommit, q.headSha}
    BY <1>4, <2>1 DEF ReviewInv, PushAccepted, At
  <2>8. tree'[new] = tree[q.headSha]
    <3>1. CASE IsFastForward(q)
      BY <1>4, <2>1, <2>2, <3>1 DEF PushAccepted
    <3>2. CASE ~IsFastForward(q)
      BY <1>4, <2>1, <2>2, <2>4, <3>2 DEF PushAccepted, NewCommit, WellFormed, TypeOK, GitTypeOK
    <3> QED BY <3>1, <3>2
  <2>9. req'[r].expected # NoCommit => tree'[new] = tree'[req'[r].expected]
    BY <1>b, <2>4, <2>6, <2>7, <2>8
  <2>10. \A m \in landings' :
           /\ req'[m.by].pc \in {"record", "done", "crashed"} /\ m.new \in 1 .. nCommits'
           /\ req'[m.by].expected # NoCommit => tree'[m.new] = tree'[req'[m.by].expected]
    BY <1>2, <2>4, <2>5, <2>6, <2>9
  <2>11. nCommits <= nCommits' /\ \A s \in Requests : req'[s].expected \in 0 .. nCommits'
    BY <1>1, <1>a
  <2> QED BY <1>1, <2>10, <2>11 DEF ReviewInv, ReviewedHeadLands, At
<1>5. (\A r \in Requests : ~PushAccepted(r)) => landings' = landings
  BY OthersDoNotLand
<1> QED BY <1>3, <1>4, <1>5

\* A caller of mergePull who names the head it looked at gets exactly that content on
\* the branch, whatever moves in between.
THEOREM ReviewedContentLands == Spec => []ReviewedHeadLands
<1> DEFINE Inv == WellFormed /\ ReviewInv
<1>1. Init => Inv
  <2>1. Init => ReviewInv
    BY GitAssumption DEF Init, GitInit, ReviewInv, ReviewedHeadLands, At, Idle, NoCommit
  <2> QED BY <2>1, InitWellFormed
<1>2. Inv /\ [Next]_vars => Inv'
  BY NextWellFormed, NextReview
<1>3. Inv => ReviewedHeadLands
  BY DEF ReviewInv
<1> QED BY <1>1, <1>2, <1>3, PTL DEF Spec
=============================================================================
