---------------------------- MODULE PullRequests ----------------------------
(***************************************************************************)
(* The life of a repository's pull requests: createPull, updatePull,       *)
(* mergePull and IssueService.updateIssue running as concurrent requests   *)
(* over the D1 rows and the git remote, while people push to the branches. *)
(*                                                                         *)
(* A handler is a sequence of awaited calls.  Each await that touches      *)
(* shared state is a step of its own, so that everything another request   *)
(* or a push can do between two awaits can happen here; an isolate may be  *)
(* evicted at any of them (Crash), which also stands for an answer of the  *)
(* remote or of D1 that is lost on its way back.                           *)
(*                                                                         *)
(* Requests modelled are those that passed authorisation: the permission   *)
(* checks are the subject of another part of the development.              *)
(***************************************************************************)
EXTENDS GitRemote

CONSTANTS
  Requests,       \* requests that may run, concurrently or not
  MaxPulls,       \* bound: pull requests ever created
  MaxEdits,       \* bound: update requests ever received
  MaxUserCommits, \* bound: commits reached by people pushing
  AllowRewrites,  \* whether people force-push and delete branches
  Nil             \* an absent optional field

ASSUME PullAssumption ==
  /\ MaxPulls \in Nat \ {0}
  /\ MaxUserCommits \in Nat
  /\ MaxEdits \in Nat
  /\ AllowRewrites \in BOOLEAN
  /\ Nil \notin Branches \cup BOOLEAN

VARIABLES
  pulls,        \* number -> the joined issues / pull_requests row
  nextNumber,   \* the repository's counter for issue and pull numbers
  req,          \* request -> what the handler has read and where it stands
  landings      \* history: every move of a branch made by a merge

vars == <<gitVars, pulls, nextNumber, req, landings>>
d1Vars == <<pulls, nextNumber>>

Numbers == 1 .. MaxPulls

Row == [state : {"none", "open", "closed"}, merged : BOOLEAN, draft : BOOLEAN,
        base : Branches \cup {Nil}, head : Branches \cup {Nil}, mergeSha : Tips]

NoPull == [state |-> "none", merged |-> FALSE, draft |-> FALSE,
           base |-> Nil, head |-> Nil, mergeSha |-> NoCommit]

Exists(n) == pulls[n].state # "none"

\* MergeMethod: "merge" asks for a commit, the others are treated alike.
Methods == {"merge", "rebase"}
PullStates == {"open", "closed"}

PCs == {"idle", "resolve", "push", "record", "claim", "insert", "write",
        "done", "failed", "crashed"}
Ended == {"done", "failed", "crashed"}

Request ==
  [kind : {"none", "create", "merge", "update", "issue"}, pc : PCs,
   pull : Numbers \cup {0},                 \* the pull request it is about
   base : Branches \cup {Nil},              \* branches of the row it read
   head : Branches \cup {Nil},
   seen : SUBSET {"base", "head"},          \* which branches are resolved
   baseSha : Tips, headSha : Tips,          \* where they were
   method : Methods \cup {Nil},
   expected : Tips,                         \* expectedHeadSha, if any
   newSha : Tips,                           \* where the merge moved the base
   state : PullStates \cup {Nil},           \* fields of an update
   draft : BOOLEAN \cup {Nil},
   toBase : Branches \cup {Nil}]

Idle == [kind |-> "none", pc |-> "idle", pull |-> 0, base |-> Nil, head |-> Nil,
         seen |-> {}, baseSha |-> NoCommit, headSha |-> NoCommit,
         method |-> Nil, expected |-> NoCommit, newSha |-> NoCommit,
         state |-> Nil, draft |-> Nil, toBase |-> Nil]

Landing == [by : Requests, pull : Numbers, branch : Branches,
            old : CommitIds, new : CommitIds, head : CommitIds]

TypeOK ==
  /\ GitTypeOK
  /\ pulls \in [Numbers -> Row]
  /\ nextNumber \in Nat \ {0}
  /\ req \in [Requests -> Request]
  /\ landings \subseteq Landing

Init ==
  /\ GitInit
  /\ pulls = [n \in Numbers |-> NoPull]
  /\ nextNumber = 1
  /\ req = [r \in Requests |-> Idle]
  /\ landings = {}

At(r, pc) == req[r].pc = pc
Count(kinds) == Cardinality({r \in Requests : req[r].kind \in kinds})
Goto(r, pc) == req' = [req EXCEPT ![r].pc = pc]

-----------------------------------------------------------------------------
(***************************************************************************)
(* Receiving a request.  A request whose first checks fail answers an      *)
(* error and changes nothing, so only those that pass are started.         *)
(***************************************************************************)

\* createPull up to its branch lookup: a branch is not merged into itself.
StartCreate(r, base, head) ==
  /\ At(r, "idle")
  /\ head # base
  /\ Count({"create"}) < MaxPulls
  /\ req' = [req EXCEPT ![r] =
       [Idle EXCEPT !.kind = "create", !.pc = "resolve",
                    !.base = base, !.head = head]]
  /\ UNCHANGED <<gitVars, d1Vars, landings>>

\* mergePull's checks on the row it read.
MayMerge(row) == row.state = "open" /\ ~row.merged /\ ~row.draft

\* mergePull up to resolveBranches; expected is what the caller saw on the page.
StartMerge(r, n, method, expected) ==
  /\ At(r, "idle")
  /\ MayMerge(pulls[n])
  /\ req' = [req EXCEPT ![r] =
       [Idle EXCEPT !.kind = "merge", !.pc = "resolve", !.pull = n,
                    !.base = pulls[n].base, !.head = pulls[n].head,
                    !.method = method, !.expected = expected]]
  /\ UNCHANGED <<gitVars, d1Vars, landings>>

\* updatePull up to its batch: state cannot be asked of a merged pull.
StartUpdate(r, n, state, draft, toBase) ==
  /\ At(r, "idle")
  /\ Count({"update", "issue"}) < MaxEdits
  /\ Exists(n)
  /\ pulls[n].merged => state = Nil
  /\ req' = [req EXCEPT ![r] =
       [Idle EXCEPT !.kind = "update", !.pc = "write", !.pull = n,
                    !.state = state, !.draft = draft, !.toBase = toBase]]
  /\ UNCHANGED <<gitVars, d1Vars, landings>>

\* updateIssue up to its write: issues and pulls share their numbers, and
\* findIssue does not tell them apart.
StartIssue(r, n, state) ==
  /\ At(r, "idle")
  /\ Count({"update", "issue"}) < MaxEdits
  /\ Exists(n)
  /\ req' = [req EXCEPT ![r] =
       [Idle EXCEPT !.kind = "issue", !.pc = "write", !.pull = n,
                    !.state = state]]
  /\ UNCHANGED <<gitVars, d1Vars, landings>>

-----------------------------------------------------------------------------
(***************************************************************************)
(* resolveBranches: two ref listings under one Promise.all, answered in    *)
(* either order.  What is computed from them afterwards reads only commits,*)
(* which never change, so it belongs to the second answer.                 *)
(***************************************************************************)

MutantNextResolved(q) ==
  IF q.kind = "create"
  THEN IF q.headSha = NoCommit THEN "failed" ELSE "claim"
  ELSE IF Mergeable(q.baseSha, q.headSha) \in {"empty", "behind"} THEN "failed"
  ELSE "push"

MutantBehindMerges(q) ==
  IF q.kind = "create"
  THEN IF q.headSha = NoCommit THEN "failed" ELSE "claim"
  ELSE IF \/ q.expected \notin {NoCommit, q.headSha}
          \/ Mergeable(q.baseSha, q.headSha) = "empty"
  THEN "failed" ELSE "push"

\* Where a handler goes once both branches are resolved.
NextResolved(q) ==
  IF q.kind = "create"
  THEN IF q.headSha = NoCommit THEN "failed" ELSE "claim"
  ELSE IF \/ q.expected \notin {NoCommit, q.headSha}
          \/ Mergeable(q.baseSha, q.headSha) \in {"empty", "behind"}
  THEN "failed" ELSE "push"

ReadBase(r) ==
  /\ At(r, "resolve") /\ "base" \notin req[r].seen
  /\ LET q == [req[r] EXCEPT !.seen = @ \cup {"base"}, !.baseSha = refs[req[r].base]]
     IN  req' = [req EXCEPT ![r] =
           IF "head" \in q.seen THEN [q EXCEPT !.pc = NextResolved(q)] ELSE q]
  /\ UNCHANGED <<gitVars, d1Vars, landings>>

ReadHead(r) ==
  /\ At(r, "resolve") /\ "head" \notin req[r].seen
  /\ LET q == [req[r] EXCEPT !.seen = @ \cup {"head"}, !.headSha = refs[req[r].head]]
     IN  req' = [req EXCEPT ![r] =
           IF "base" \in q.seen THEN [q EXCEPT !.pc = NextResolved(q)] ELSE q]
  /\ UNCHANGED <<gitVars, d1Vars, landings>>

-----------------------------------------------------------------------------
(***************************************************************************)
(* mergePull, after the verdict.                                           *)
(***************************************************************************)

\* Whether the merge only moves the pointer.  Squash and rebase are accepted
\* and treated alike.
IsFastForward(q) ==
  Mergeable(q.baseSha, q.headSha) = "clean" /\ q.method # "merge"

MutantOldSha(q) == refs[q.base]

\* The position of the base branch the push command claims.
OldSha(q) == q.baseSha

\* fastForward, or mergeCommit: one commit with parents base and head and the
\* tree of head, in one receive-pack.  An absent head is not found; an absent
\* base makes a malformed command, which the remote refuses.
PushAccepted(r) ==
  LET q == req[r]
      new == IF IsFastForward(q) THEN q.headSha ELSE nCommits + 1
  IN
  /\ At(r, "push")
  /\ q.headSha # NoCommit /\ q.baseSha # NoCommit
  /\ Accepts(q.base, OldSha(q))
  /\ IF IsFastForward(q)
     THEN UNCHANGED <<nCommits, anc, tree>>
     ELSE /\ nCommits < MaxCommits
          /\ NewCommit({q.baseSha, q.headSha}, tree[q.headSha])
  /\ refs' = [refs EXCEPT ![q.base] = new]
  /\ landings' = landings \cup
       {[by |-> r, pull |-> q.pull, branch |-> q.base,
         old |-> refs[q.base], new |-> new, head |-> q.headSha]}
  /\ req' = [req EXCEPT ![r].pc = "record", ![r].newSha = new]
  /\ UNCHANGED d1Vars

MutantTrusting == "record"
MutantRetrying == "push"

\* parseReceivePackResponse: a 200 that carries "ng" is a conflict.
AfterRefusal == "failed"

PushRefused(r) ==
  LET q == req[r] IN
  /\ At(r, "push")
  /\ \/ q.headSha = NoCommit
     \/ q.baseSha = NoCommit
     \/ ~Accepts(q.base, OldSha(q))
  /\ Goto(r, AfterRefusal)
  /\ UNCHANGED <<gitVars, d1Vars, landings>>

MutantMergedRow(row, sha) == [row EXCEPT !.state = "closed", !.mergeSha = sha]

\* The row after mergePull's batch.
MergedRow(row, sha) ==
  [row EXCEPT !.merged = TRUE, !.state = "closed", !.mergeSha = sha]

\* The batch that records the merge: unconditional, whatever the row is now.
RecordMerge(r) ==
  LET q == req[r] IN
  /\ At(r, "record")
  /\ pulls' = [pulls EXCEPT ![q.pull] = MergedRow(@, q.newSha)]
  /\ Goto(r, "done")
  /\ UNCHANGED <<gitVars, nextNumber, landings>>

-----------------------------------------------------------------------------
(***************************************************************************)
(* createPull, after both branches are resolved, and the two updates.      *)
(***************************************************************************)

MutantClaimed(n) == n

\* nextIssueNumber: UPDATE ... SET next = next + 1 RETURNING, one statement.
Claimed(n) == n + 1

ClaimNumber(r) ==
  /\ At(r, "claim")
  /\ nextNumber \in Numbers
  /\ req' = [req EXCEPT ![r].pc = "insert", ![r].pull = nextNumber]
  /\ nextNumber' = Claimed(nextNumber)
  /\ UNCHANGED <<gitVars, pulls, landings>>

InsertPull(r, draft) ==
  LET q == req[r] IN
  /\ At(r, "insert")
  /\ pulls' = [pulls EXCEPT ![q.pull] =
       [NoPull EXCEPT !.state = "open", !.draft = draft,
                      !.base = q.base, !.head = q.head]]
  /\ Goto(r, "done")
  /\ UNCHANGED <<gitVars, nextNumber, landings>>

MutantPatch(old, new) == new

\* Sets the given column unless the request left it out.
Patch(old, new) == IF new = Nil THEN old ELSE new

PatchedRow(row, q) ==
  [row EXCEPT !.state = Patch(@, q.state), !.draft = Patch(@, q.draft),
              !.base = Patch(@, q.toBase)]

\* The batch of updatePull and the statement of updateIssue: both write the
\* fields they were given to whatever the row is now.
WriteFields(r) ==
  LET q == req[r] IN
  /\ At(r, "write")
  /\ pulls' = [pulls EXCEPT ![q.pull] = PatchedRow(@, q)]
  /\ Goto(r, "done")
  /\ UNCHANGED <<gitVars, nextNumber, landings>>

-----------------------------------------------------------------------------
\* The isolate is gone, or an answer is: whatever was done stays done.
Crash(r) ==
  /\ req[r].pc \notin Ended \cup {"idle"}
  /\ Goto(r, "crashed")
  /\ UNCHANGED <<gitVars, d1Vars, landings>>

People ==
  /\ \/ /\ nCommits < MaxUserCommits
        /\ \/ \E b \in Branches : PushCommit(b)
           \/ \E b, c \in Branches : PushMerge(b, c)
     \/ /\ AllowRewrites
        /\ \E b \in Branches, t \in Created \cup {NoCommit} : Rewrite(b, t)
  /\ UNCHANGED <<d1Vars, req, landings>>

\* A page shows the head branch where it is, or the caller sends nothing.
PageHead(n) == {NoCommit} \cup IF Exists(n) THEN {refs[pulls[n].head]} ELSE {}

Arrive(r) ==
  \/ \E b, h \in Branches : StartCreate(r, b, h)
  \/ \E n \in Numbers, m \in Methods : \E e \in PageHead(n) : StartMerge(r, n, m, e)
  \/ \E n \in Numbers, s \in PullStates \cup {Nil},
        d \in BOOLEAN \cup {Nil}, b \in Branches \cup {Nil} : StartUpdate(r, n, s, d, b)
  \/ \E n \in Numbers, s \in PullStates \cup {Nil} : StartIssue(r, n, s)

Step(r) ==
  \/ ReadBase(r) \/ ReadHead(r)
  \/ PushAccepted(r) \/ PushRefused(r) \/ RecordMerge(r)
  \/ ClaimNumber(r) \/ \E d \in BOOLEAN : InsertPull(r, d)
  \/ WriteFields(r)

Next == People \/ \E r \in Requests : Arrive(r) \/ Step(r) \/ Crash(r)

Spec == Init /\ [][Next]_vars

\* The runtime resumes every handler whose call was answered; nothing makes a
\* person push or a request arrive.
FairSpec == Spec /\ \A r \in Requests : WF_vars(Step(r))

-----------------------------------------------------------------------------
(***************************************************************************)
(* What a repository relies on.                                            *)
(***************************************************************************)

\* The walk of c's history stops before it reaches its ancestor a.
BeyondWalk(c, a) == a \in anc[c] \ Log(c)

\* A merge never rewinds or forks a branch: the tip it replaced stays in the
\* branch's history, and the pull's head is in it from then on and was not before,
\* unless it was further back than a walk of ANCESTRY_LIMIT commits.  This is what
\* the old id in the push command and the EMPTY and BEHIND refusals of mergePull
\* are for.
LandingAddsWork ==
  \A l \in landings :
    /\ l.old \in anc[l.new] /\ l.head \in anc[l.new]
    /\ l.head \in anc[l.old] => BeyondWalk(l.old, l.head)

\* The same head lands on a branch once, whatever requests race, are retried
\* after a crash or come from two pulls of one branch; only a rewritten branch,
\* or one on which it lies beyond the walk by now, can receive it again.
NoDoubleLanding ==
  ~AllowRewrites =>
    \A l1, l2 \in landings :
      l1.branch = l2.branch /\ l1.head = l2.head =>
        \/ l1 = l2
        \/ BeyondWalk(l1.old, l1.head) \/ BeyondWalk(l2.old, l2.head)

\* A row says merged only of a pull whose recorded merge commit really became
\* the tip of a branch: an answer of the remote is not taken for success
\* unless the ref moved.
MergedIsLanded ==
  \A n \in Numbers : pulls[n].merged =>
    \E l \in landings : l.pull = n /\ l.new = pulls[n].mergeSha

\* A caller who names the head it looked at gets exactly that content on the
\* branch, however often the head moves in the meantime.
ReviewedHeadLands ==
  \A l \in landings :
    req[l.by].expected # NoCommit => tree[l.new] = tree[req[l.by].expected]

\* The numbers claimed by creations under way are distinct and unused, so no
\* insert ever meets the UNIQUE index, whichever creations fail in between.
NumbersAreFresh ==
  \A r \in Requests : At(r, "insert") =>
    /\ ~Exists(req[r].pull)
    /\ \A s \in Requests \ {r} : At(s, "insert") => req[s].pull # req[r].pull

\* A merge that moved a branch marks its pull merged, unless it is cut off
\* before it can.
LandedIsRecorded ==
  \A r \in Requests : At(r, "record") ~>
    \/ \E n \in Numbers : n = req[r].pull /\ pulls[n].merged
    \/ At(r, "crashed")

\* Every request is answered or cut off: a refused push is not tried for ever.
RequestsEnd ==
  \A r \in Requests : ~At(r, "idle") ~> req[r].pc \in Ended

\* The service implements the abstract log of merges: commits are never altered
\* and a landing is the only thing a merge does to a repository.
Log0 == INSTANCE MergeLog WITH WalkLimit <- AncestryLimit
MergeLogSpec == Log0!Spec

(***************************************************************************)
(* What the repository's comments say of it and the code does not keep.    *)
(***************************************************************************)

\* pull.ts on listPulls: merged "is a closed issue whose PR row is marked
\* merged".
MergedIsClosed ==
  \A n \in Numbers : pulls[n].merged => pulls[n].state = "closed"
=============================================================================
