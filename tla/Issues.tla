------------------------------- MODULE Issues -------------------------------
(***************************************************************************)
(* One issue, or pull request that is not merged yet, and its thread: the  *)
(* handlers of services/issue.ts that write to it, the reviews of          *)
(* services/pull.ts, the tasks they leave to events/notify.ts with         *)
(* waitUntil, and the inboxes that services/notification.ts marks.         *)
(*                                                                         *)
(* A handler loads the repository with the caller's permission, reads its  *)
(* row, and then writes one statement or batch at a time; what it decided  *)
(* on may be stale by then.  Permissions change outside, so a call finds   *)
(* any.  Texts, colours, numbers and whether it is open are left out; what *)
(* pull.ts creates and merges is in PullRequests.                          *)
(***************************************************************************)
EXTENDS Rbac, FiniteSets

CONSTANTS
  People,
  Labels,         \* labels the repository may have
  Comments,       \* ids of comments
  IssueCalls,     \* calls in progress at once, with the tasks they leave
  MaxIssueCalls   \* bound: calls started

ASSUME IssuesAssumption ==
  /\ IsFiniteSet(Comments)
  /\ MaxIssueCalls \in Nat

VARIABLES
  issue,          \* its row: whether it is there, is_pull, author, locked, milestone set
  labels, milestone,         \* labels of the repository; its milestone
  issueLabels, assignees,    \* issue_labels, issue_assignees
  comments,       \* comments: those there
  authors,        \* authors of the comments there are and were
  commentCount,   \* comment_count
  missed,         \* history: deletions that found their comment gone
  reviewers,      \* pull_reviewers
  reviews,        \* reviews: author and state
  askers,         \* history: whoever asked for a review
  watches,        \* watches of the repository
  inbox,          \* notifications about the issue: a row per user, read or not
  issueCall,
  issueStarted

reviewTables == <<reviewers, reviews, askers>>
issueTables == <<issue, labels, milestone, issueLabels, assignees, comments, authors,
                 commentCount, missed, reviewTables, watches, inbox>>
issuesVars == <<issue, labels, milestone, issueLabels, assignees, comments, authors,
                commentCount, missed, reviewTables, watches, inbox, issueCall, issueStarted>>

Nobody == "nobody"
Issue == [life : {"none", "here"}, pull : BOOLEAN, author : People \cup {Nobody},
          locked : BOOLEAN, milestone : BOOLEAN]
IssueOps == {"createIssue", "updateIssue", "createComment", "updateComment", "deleteComment",
             "createLabel", "updateLabel", "deleteLabel", "createMilestone", "updateMilestone", "deleteMilestone",
             "createReview", "requestReviewers"}
ReviewStates == {"commented", "approved", "changes_requested"}
IssueCall ==
  [op : IssueOps \cup {"none"}, by : People \cup {Nobody}, can : Permission,
   comment : Comments \cup {Nobody}, labels : SUBSET Labels, assignees : SUBSET People,
   at : {"idle", "row", "access", "write", "labels", "assignees", "collect", "notify"},
   to : SUBSET People]
NoIssueCall ==
  [op |-> "none", by |-> Nobody, can |-> None, comment |-> Nobody, labels |-> {},
   assignees |-> {}, at |-> "idle", to |-> {}]

IssuesTypeOK ==
  /\ issue \in Issue
  /\ labels \subseteq Labels
  /\ milestone \in {"none", "here", "gone"}
  /\ issueLabels \subseteq Labels
  /\ assignees \subseteq People
  /\ comments \subseteq DOMAIN authors
  /\ DOMAIN authors \subseteq Comments
  /\ authors \in [DOMAIN authors -> People]
  /\ commentCount \in Nat
  /\ missed \in Nat
  /\ reviewers \subseteq People
  /\ reviews \subseteq People \X ReviewStates
  /\ askers \subseteq People
  /\ watches \subseteq People
  /\ inbox \in [People -> {"none", "read", "unread"}]
  /\ issueCall \in [IssueCalls -> IssueCall]
  /\ issueStarted \in 0 .. MaxIssueCalls

\* No issue yet, or one that somebody opened, with the first comment; a repository
\* with nothing to give it, or with everything.
IssuesInit ==
  /\ \/ issue = [life |-> "none", pull |-> FALSE, author |-> Nobody, locked |-> FALSE, milestone |-> FALSE]
     \/ issue \in [life : {"here"}, pull : BOOLEAN, author : People, locked : BOOLEAN, milestone : {FALSE}]
  /\ \/ labels = {} /\ milestone = "none"
     \/ labels = Labels /\ milestone = "here"
  /\ issueLabels = {}
  /\ assignees = {}
  /\ comments \in {{}} \cup {{k} : k \in {l \in Comments : issue.life = "here"}}
  /\ authors \in [comments -> People]
  /\ commentCount = Cardinality(comments)
  /\ missed = 0
  /\ reviewers = {}
  /\ reviews = {}
  /\ askers = {}
  /\ watches = {}
  /\ inbox = [p \in People |-> "none"]
  /\ issueCall = [c \in IssueCalls |-> NoIssueCall]
  /\ issueStarted = 0

-----------------------------------------------------------------------------
(***************************************************************************)
(* The calls.                                                              *)
(***************************************************************************)

\* threadParticipants.
Participants ==
  {p \in People : p = issue.author \/ p \in assignees \/ \E k \in comments : authors[k] = p}

IssueRequest(op, by, k, labs, who) ==
  [NoIssueCall EXCEPT !.op = op, !.by = by, !.comment = k, !.labels = labs, !.assignees = who,
                      !.at = IF op \in {"createIssue", "createLabel", "createMilestone"} THEN "access" ELSE "row"]

IssueRequests(by) ==
  {IssueRequest(op, by, Nobody, {}, {}) : op \in {"createMilestone", "updateMilestone", "deleteMilestone"}}
    \cup {IssueRequest(op, by, Nobody, labs, who) :
            op \in {"createIssue", "updateIssue"}, labs \in SUBSET Labels, who \in {{}} \cup {{p} : p \in People}}
    \cup {IssueRequest(op, by, Nobody, labs, {}) :
            op \in {"createLabel", "updateLabel", "deleteLabel"}, labs \in {{l} : l \in Labels}}
    \cup {IssueRequest("createReview", by, Nobody, {}, {})}
    \cup {IssueRequest("requestReviewers", by, Nobody, {}, who) : who \in (SUBSET People) \ {{}}}
    \cup {IssueRequest("createComment", by, k, {}, {}) : k \in Comments \ DOMAIN authors}
    \cup {IssueRequest(op, by, k, {}, {}) : op \in {"updateComment", "deleteComment"}, k \in comments}

Found(r) ==
  CASE r.op = "createIssue" -> issue.life = "none"
    [] r.op \in {"updateIssue", "createComment"} -> issue.life = "here"
    [] r.op \in {"createReview", "requestReviewers"} -> issue.pull
    [] r.op \in {"createLabel"} -> r.labels \cap labels = {}
    [] r.op \in {"updateLabel", "deleteLabel"} -> r.labels \subseteq labels
    [] r.op = "createMilestone" -> milestone = "none"
    [] r.op \in {"updateMilestone", "deleteMilestone"} -> milestone = "here"
    [] OTHER -> TRUE

\* A handler begins where its first read finds something.
StartsIssueCall(c) ==
  /\ issueCall[c].at = "idle"
  /\ issueStarted < MaxIssueCalls
  /\ \E by \in People : \E r \in IssueRequests(by) :
       /\ Found(r)
       /\ r.op = "createComment" => \A d \in IssueCalls : issueCall[d].comment # r.comment
       /\ issueCall' = [issueCall EXCEPT ![c] = r]
  /\ issueStarted' = issueStarted + 1
  /\ UNCHANGED issueTables

IssueCallEnds(c) == issueCall' = [issueCall EXCEPT ![c] = NoIssueCall]
IssueCallGoesTo(c, at) == issueCall' = [issueCall EXCEPT ![c].at = at]

\* What the handler asks of its row and of the caller's permission.
Allowed(r, can) ==
  CASE r.op \in {"createIssue", "createReview"} -> AtLeast(can, Read)
    [] r.op \in {"updateIssue", "requestReviewers"} -> AtLeast(can, Read) /\ (r.by = issue.author \/ AtLeast(can, Triage))
    [] r.op = "createComment" -> AtLeast(can, Read) /\ (issue.locked => AtLeast(can, Triage))
    [] r.op = "updateComment" -> r.comment \in comments /\ authors[r.comment] = r.by
    [] r.op = "deleteComment" ->
         r.comment \in comments /\ (authors[r.comment] = r.by \/ AtLeast(can, Maintain))
    [] OTHER -> AtLeast(can, Triage)

\* The permission, and the row: read here, used later.  Below read the repository is
\* not found, and a rank between these does as much as the next below.
Checks(c) ==
  /\ issueCall[c].at \in {"row", "access"}
  /\ \E can \in {Read, Triage, Maintain} :
       IF Allowed(issueCall[c], can)
       THEN issueCall' = [issueCall EXCEPT ![c].can = can, ![c].at = "write"]
       ELSE IssueCallEnds(c)
  /\ UNCHANGED <<issueTables, issueStarted>>

WritingFor(c, op) == issueCall[c].at = "write" /\ issueCall[c].op = op /\ UNCHANGED issueStarted

\* The milestone is whatever the caller names; one that is gone is refused.
InsertsIssue(c) ==
  /\ WritingFor(c, "createIssue")
  /\ \E m \in BOOLEAN :
       IF issue.life = "none" /\ (m => milestone = "here")
       THEN /\ issue' = [life |-> "here", pull |-> FALSE, author |-> issueCall[c].by,
                         locked |-> FALSE, milestone |-> m]
            /\ IssueCallGoesTo(c, IF AtLeast(issueCall[c].can, Triage) THEN "labels" ELSE "collect")
       ELSE IssueCallEnds(c) /\ UNCHANGED issue
  /\ UNCHANGED <<labels, milestone, issueLabels, assignees, comments, authors, commentCount, missed, reviewTables, watches, inbox>>

MutantMayLock(c) == TRUE

MayLock(c) == AtLeast(issueCall[c].can, Triage)

\* Milestone and lock in one statement; only then, whether the caller may triage.
UpdatesIssue(c) ==
  /\ WritingFor(c, "updateIssue")
  /\ \E m, locked \in BOOLEAN :
       /\ m => milestone = "here"
       /\ MayLock(c) \/ locked = issue.locked
       /\ issue' = [issue EXCEPT !.milestone = m, !.locked = locked]
  /\ IF AtLeast(issueCall[c].can, Triage) THEN IssueCallGoesTo(c, "labels") ELSE IssueCallEnds(c)
  /\ UNCHANGED <<labels, milestone, issueLabels, assignees, comments, authors, commentCount, missed, reviewTables, watches, inbox>>

Replaces(c) == issueCall[c].op = "updateIssue"

\* applyLabels: in one batch, of the labels asked for those that are there.  An update
\* may leave them, or the assignees, alone.
AppliesLabels(c) ==
  /\ issueCall[c].at = "labels"
  /\ \/ issueLabels' = (IF Replaces(c) THEN {} ELSE issueLabels) \cup (issueCall[c].labels \cap labels)
     \/ Replaces(c) /\ UNCHANGED issueLabels
  /\ IssueCallGoesTo(c, "assignees")
  /\ UNCHANGED <<issue, labels, milestone, assignees, comments, authors, commentCount, missed, reviewTables, watches, inbox,
                 issueStarted>>

AppliesAssignees(c) ==
  /\ issueCall[c].at = "assignees"
  /\ \/ assignees' = (IF Replaces(c) THEN {} ELSE assignees) \cup issueCall[c].assignees
     \/ Replaces(c) /\ UNCHANGED assignees
  /\ IF Replaces(c) THEN IssueCallEnds(c) ELSE IssueCallGoesTo(c, "collect")
  /\ UNCHANGED <<issue, labels, milestone, issueLabels, comments, authors, commentCount, missed, reviewTables, watches, inbox,
                 issueStarted>>

\* The comment and the count in one batch.
InsertsComment(c) ==
  /\ WritingFor(c, "createComment")
  /\ comments' = comments \cup {issueCall[c].comment}
  /\ authors' = [k \in DOMAIN authors \cup {issueCall[c].comment} |->
                   IF k = issueCall[c].comment THEN issueCall[c].by ELSE authors[k]]
  /\ commentCount' = commentCount + 1
  /\ IssueCallGoesTo(c, "collect")
  /\ UNCHANGED <<issue, labels, milestone, issueLabels, assignees, missed, reviewTables, watches, inbox>>

\* The text only.
RewritesComment(c) ==
  /\ WritingFor(c, "updateComment")
  /\ IssueCallEnds(c)
  /\ UNCHANGED issueTables

MutantUncounted == commentCount - 1

Uncounted == IF commentCount = 0 THEN 0 ELSE commentCount - 1

\* The deletion and the count in one batch, whether or not the comment is still there.
RemovesComment(c) ==
  /\ WritingFor(c, "deleteComment")
  /\ comments' = comments \ {issueCall[c].comment}
  /\ commentCount' = Uncounted
  /\ missed' = IF issueCall[c].comment \in comments THEN missed ELSE missed + 1
  /\ IssueCallEnds(c)
  /\ UNCHANGED <<issue, labels, milestone, issueLabels, assignees, authors, reviewTables, watches, inbox>>

\* Names of labels are unique.
CreatesLabel(c) ==
  /\ WritingFor(c, "createLabel")
  /\ labels' = labels \cup issueCall[c].labels
  /\ IssueCallEnds(c)
  /\ UNCHANGED <<issue, milestone, issueLabels, assignees, comments, authors, commentCount, missed, reviewTables, watches, inbox>>

\* Its name, color and description: the row stays, on whatever it is.
RewritesLabel(c) ==
  /\ WritingFor(c, "updateLabel")
  /\ IssueCallEnds(c)
  /\ UNCHANGED issueTables

\* And with it the rows that put it on the issue.
DeletesLabel(c) ==
  /\ WritingFor(c, "deleteLabel")
  /\ labels' = labels \ issueCall[c].labels
  /\ issueLabels' = issueLabels \ issueCall[c].labels
  /\ IssueCallEnds(c)
  /\ UNCHANGED <<issue, milestone, assignees, comments, authors, commentCount, missed, reviewTables, watches, inbox>>

\* A deletion leaves the issue without a milestone.
WritesMilestone(c) ==
  /\ \/ WritingFor(c, "createMilestone") /\ milestone' = (IF milestone = "none" THEN "here" ELSE milestone) /\ UNCHANGED issue
     \/ WritingFor(c, "updateMilestone") /\ UNCHANGED <<milestone, issue>>
     \/ /\ WritingFor(c, "deleteMilestone")
        /\ milestone' = "gone"
        /\ issue' = [issue EXCEPT !.milestone = FALSE]
  /\ IssueCallEnds(c)
  /\ UNCHANGED <<labels, issueLabels, assignees, comments, authors, commentCount, missed, reviewTables, watches, inbox>>

\* The review and its comments, and the request that it satisfies, in one batch; an
\* author may not approve.
InsertsReview(c) ==
  /\ WritingFor(c, "createReview")
  /\ \E state \in ReviewStates \ (IF issueCall[c].by = issue.author THEN {"approved"} ELSE {}) :
       reviews' = reviews \cup {<<issueCall[c].by, state>>}
  /\ reviewers' = reviewers \ {issueCall[c].by}
  /\ issueCall' = [issueCall EXCEPT ![c].at = "notify", ![c].to = {issue.author} \ {issueCall[c].by}]
  /\ UNCHANGED <<issue, labels, milestone, issueLabels, assignees, comments, authors, commentCount, missed, askers,
                 watches, inbox>>

\* Whoever was named is asked, or asked no more; never the author of the pull, and when
\* nobody else was named nothing is done.
AsksReviewers(c) ==
  /\ WritingFor(c, "requestReviewers")
  /\ LET who == issueCall[c].assignees \ {issue.author} IN
       \/ /\ who # {}
          /\ reviewers' = reviewers \cup who
          /\ askers' = askers \cup {issueCall[c].by}
          /\ issueCall' = [issueCall EXCEPT ![c].at = "notify", ![c].to = who \ {issueCall[c].by}]
       \/ /\ reviewers' = reviewers \ who
          /\ IssueCallEnds(c)
          /\ UNCHANGED askers
  /\ UNCHANGED <<issue, labels, milestone, issueLabels, assignees, comments, authors, commentCount, missed, reviews,
                 watches, inbox>>

-----------------------------------------------------------------------------
(***************************************************************************)
(* After the answer: waitUntil, whose failure is dropped.                  *)
(***************************************************************************)

MutantRecipients(c) ==
  IF issueCall[c].op = "createIssue" THEN watches \cup issueCall[c].assignees ELSE Participants

\* For a new issue the watchers and whoever was to be assigned, be they or not;
\* for a comment the participants.  Never the caller.
Recipients(c) ==
  (IF issueCall[c].op = "createIssue" THEN watches \cup issueCall[c].assignees ELSE Participants)
    \ {issueCall[c].by}

Collects(c) ==
  /\ issueCall[c].at = "collect"
  /\ issueCall' = [issueCall EXCEPT ![c].at = "notify", ![c].to = Recipients(c)]
  /\ UNCHANGED <<issueTables, issueStarted>>

\* notifyThread: one row per user, unread again.
Notifies(c) ==
  /\ issueCall[c].at = "notify"
  /\ inbox' = [p \in People |-> IF p \in issueCall[c].to THEN "unread" ELSE inbox[p]]
  /\ IssueCallEnds(c)
  /\ UNCHANGED <<issue, labels, milestone, issueLabels, assignees, comments, authors, commentCount, missed, reviewTables, watches,
                 issueStarted>>

\* A statement fails, or the isolate goes.
FailsIssueCall(c) ==
  /\ issueCall[c].at # "idle"
  /\ IssueCallEnds(c)
  /\ UNCHANGED <<issueTables, issueStarted>>

\* markNotifications; only rows of the caller.
Marks(p) ==
  /\ inbox[p] # "none"
  /\ \E mark \in {"read", "unread"} : inbox' = [inbox EXCEPT ![p] = mark]
  /\ UNCHANGED <<issue, labels, milestone, issueLabels, assignees, comments, authors, commentCount, missed, reviewTables, watches,
                 issueCall, issueStarted>>

\* setWatch of services/repo.ts.
SetsWatch(p) ==
  /\ issueStarted < MaxIssueCalls
  /\ watches' = IF p \in watches THEN watches \ {p} ELSE watches \cup {p}
  /\ issueStarted' = issueStarted + 1
  /\ UNCHANGED <<issue, labels, milestone, issueLabels, assignees, comments, authors, commentCount, missed, reviewTables, inbox,
                 issueCall>>

IssueStep(c) ==
  \/ StartsIssueCall(c) \/ Checks(c) \/ InsertsIssue(c) \/ UpdatesIssue(c)
  \/ AppliesLabels(c) \/ AppliesAssignees(c)
  \/ InsertsComment(c) \/ RewritesComment(c) \/ RemovesComment(c)
  \/ CreatesLabel(c) \/ RewritesLabel(c) \/ DeletesLabel(c) \/ WritesMilestone(c)
  \/ InsertsReview(c) \/ AsksReviewers(c)
  \/ Collects(c) \/ Notifies(c) \/ FailsIssueCall(c)

IssuesNext ==
  \/ \E c \in IssueCalls : IssueStep(c)
  \/ \E p \in People : Marks(p) \/ SetsWatch(p)

IssuesSpec == IssuesInit /\ [][IssuesNext]_issuesVars

-----------------------------------------------------------------------------
(***************************************************************************)
(* Properties.                                                             *)
(***************************************************************************)

\* The count kept beside the issue is never too high, and too low by no more than
\* the deletions that came second to another of the same comment.
CommentsAreCounted ==
  /\ commentCount <= Cardinality(comments)
  /\ Cardinality(comments) <= commentCount + missed

\* The thread is in somebody's inbox only when somebody else opened the issue,
\* commented on it, reviewed it or asked for a review.
HeardFromOthers ==
  \A p \in People : inbox[p] # "none" =>
    \E q \in People \ {p} :
      \/ q = issue.author
      \/ q \in askers
      \/ \E state \in ReviewStates : <<q, state>> \in reviews
      \/ \E k \in DOMAIN authors : authors[k] = q

\* Whoever opened a pull neither approves it nor is asked to review it.
AuthorsDoNotReview ==
  /\ <<issue.author, "approved">> \notin reviews
  /\ issue.author \notin reviewers

ThreadHolds == CommentsAreCounted /\ HeardFromOthers /\ AuthorsDoNotReview

\* What an issue is labelled with, who it is assigned to and whether it is locked
\* change only in a call whose permission to triage was found, be the call refused
\* half way or not, or with the deletion of a label.
TriageIsPrivileged ==
  [][\/ issueLabels' \subseteq issueLabels /\ assignees' = assignees /\ labels' # labels
     \/ <<issueLabels, assignees, issue.locked>>' = <<issueLabels, assignees, issue.locked>>
     \/ \E c \in IssueCalls : issueCall[c].at # "idle" /\ AtLeast(issueCall[c].can, Triage)
                                /\ issueCall'[c] # issueCall[c]]_issuesVars
=============================================================================
