---------------------------- MODULE IssuesProofs ----------------------------
(***************************************************************************)
(* However calls on a thread interleave or fail, its comments are counted, *)
(* it is in the inboxes of those who have heard from others, no author     *)
(* reviews, and who labels, assigns or locks may triage; and whoever reads *)
(* a list page by page, while rows come and go, sees what stays in it once.*)
(***************************************************************************)
EXTENDS Issues, Feed, FiniteSetTheorems, WellFoundedInduction, TLAPS

-----------------------------------------------------------------------------
(***************************************************************************)
(* The inductive invariant.                                                *)
(***************************************************************************)

\* Somebody who opened it, commented, reviewed or asked for a review; which stays true.
Speaks(q) ==
  \/ issue.life = "here" /\ q = issue.author
  \/ q \in askers
  \/ \E state \in ReviewStates : <<q, state>> \in reviews
  \/ \E k \in DOMAIN authors : authors[k] = q

\* The comment of a call that is still to insert it is nobody else's.
Pending(r) == r.op = "createComment" /\ r.at \in {"row", "access", "write"}

TablesInv ==
  /\ issue \in Issue
  /\ labels \subseteq Labels
  /\ milestone \in {"none", "here", "gone"}
  /\ issueLabels \subseteq labels
  /\ assignees \subseteq People
  /\ comments \subseteq DOMAIN authors
  /\ DOMAIN authors \subseteq Comments
  /\ authors \in [DOMAIN authors -> People]
  /\ commentCount \in Nat
  /\ missed \in Nat
  /\ reviewers \subseteq People
  /\ reviews \subseteq People \X ReviewStates
  /\ askers \subseteq People
  /\ watches \subseteq People
  /\ inbox \in [People -> {"none", "read", "unread"}]
  /\ issueStarted \in 0 .. MaxIssueCalls

\* There are reviews of pulls only, and nothing is locked before it is there.
IssueInv ==
  /\ issue.life = "none" => ~issue.pull /\ ~issue.locked
  /\ issue.life = "here" => issue.author \in People
  /\ ~issue.pull => reviews = {} /\ reviewers = {}

InboxInv == \A p \in People : inbox[p] # "none" => \E q \in People \ {p} : Speaks(q)

CallOK(r) ==
  /\ r \in IssueCall
  /\ r.at # "idle" => r.by \in People
  /\ r.op \in {"createReview", "requestReviewers"} => issue.pull
  /\ r.op = "updateIssue" => issue.life = "here"
  /\ r.at \in {"labels", "assignees"} =>
       /\ r.op \in {"createIssue", "updateIssue"}
       /\ AtLeast(r.can, Triage)
       /\ r.op = "createIssue" => Speaks(r.by)
  /\ r.at \in {"collect", "notify"} => Speaks(r.by)
  /\ r.at = "notify" => r.by \notin r.to
  /\ Pending(r) => r.comment \in Comments \ DOMAIN authors

CallsInv == issueCall = [c \in IssueCalls |-> issueCall[c]] /\ \A c \in IssueCalls : CallOK(issueCall[c])

ApartInv ==
  \A c, d \in IssueCalls :
    Pending(issueCall[c]) /\ Pending(issueCall[d]) /\ issueCall[c].comment = issueCall[d].comment => c = d

IssuesInv ==
  TablesInv /\ IssueInv /\ InboxInv /\ CommentsAreCounted /\ AuthorsDoNotReview /\ CallsInv /\ ApartInv

\* What is there stays.
Grows ==
  /\ issue.life = "here" => issue'.life = "here" /\ issue'.author = issue.author /\ issue'.pull = issue.pull
  /\ askers \subseteq askers' /\ reviews \subseteq reviews'
  /\ DOMAIN authors \subseteq DOMAIN authors'
  /\ \A k \in DOMAIN authors : authors'[k] = authors[k]

-----------------------------------------------------------------------------
(***************************************************************************)
(* The beginning, and steps that change little.                            *)
(***************************************************************************)

LEMMA SpeakersStay ==
  ASSUME Grows, NEW q, Speaks(q)
  PROVE  Speaks(q)'
BY DEF Grows, Speaks

LEMMA InitIssues ==
  ASSUME IssuesInit
  PROVE  IssuesInv
<1>1. issue \in Issue /\ IssueInv
  <2>1. CASE issue = [life |-> "none", pull |-> FALSE, author |-> Nobody, locked |-> FALSE, milestone |-> FALSE]
    BY <2>1 DEF IssuesInit, Issue, IssueInv
  <2>2. CASE issue \in [life : {"here"}, pull : BOOLEAN, author : People, locked : BOOLEAN, milestone : {FALSE}]
    BY <2>2 DEF IssuesInit, Issue, IssueInv
  <2> QED BY <2>1, <2>2 DEF IssuesInit
<1>2. /\ comments = {} \/ \E k \in Comments : comments = {k}
      /\ Cardinality(comments) \in Nat /\ DOMAIN authors = comments /\ comments \subseteq Comments
  <2>1. comments = {} \/ \E k \in Comments : comments = {k}
    BY DEF IssuesInit
  <2>2. Cardinality(comments) \in Nat
    <3>1. \A k \in Comments : Cardinality({k}) = 1
      BY FS_Singleton
    <3>2. Cardinality({}) = 0
      BY FS_EmptySet
    <3> QED BY <2>1, <3>1, <3>2
  <2>3. authors \in [comments -> People]
    BY DEF IssuesInit
  <2> QED BY <2>1, <2>2, <2>3
<1>3. 0 \in 0 .. MaxIssueCalls
  BY IssuesAssumption
<1>4. TablesInv
  BY <1>1, <1>2, <1>3 DEF IssuesInit, TablesInv
<1>5. InboxInv /\ AuthorsDoNotReview
  BY DEF IssuesInit, InboxInv, AuthorsDoNotReview
<1>6. CommentsAreCounted
  BY <1>2 DEF IssuesInit, CommentsAreCounted
<1>7. NoIssueCall \in IssueCall
  BY DEF NoIssueCall, IssueCall, Permission, None, Admin
<1>8. CallOK(NoIssueCall) /\ ~Pending(NoIssueCall)
  BY <1>7 DEF CallOK, NoIssueCall, Pending
<1>9. CallsInv /\ ApartInv
  BY <1>8 DEF IssuesInit, CallsInv, ApartInv
<1> QED BY <1>1, <1>4, <1>5, <1>6, <1>9 DEF IssuesInv

LEMMA EndedIsOK ==
  NoIssueCall \in IssueCall /\ CallOK(NoIssueCall) /\ ~Pending(NoIssueCall)
<1>1. NoIssueCall \in IssueCall
  BY DEF NoIssueCall, IssueCall, Permission, None, Admin
<1> QED BY <1>1 DEF CallOK, NoIssueCall, Pending

\* A call moves on; what the others hold goes on holding.
LEMMA CallMoves ==
  ASSUME IssuesInv, Grows, NEW c \in IssueCalls, NEW r, CallOK(r)',
         issueCall' = [issueCall EXCEPT ![c] = r],
         Pending(r) => Pending(issueCall[c]) /\ r.comment = issueCall[c].comment,
         \A k \in DOMAIN authors' \ DOMAIN authors :
           Pending(issueCall[c]) /\ k = issueCall[c].comment
  PROVE  CallsInv' /\ ApartInv'
<1>1. issueCall'[c] = r /\ \A d \in IssueCalls : d # c => issueCall'[d] = issueCall[d]
  BY DEF IssuesInv, CallsInv
<1>2. issue.pull => issue'.pull
  BY DEF IssuesInv, IssueInv, TablesInv, Issue, Grows
<1>3. ASSUME NEW d \in IssueCalls, d # c
      PROVE  CallOK(issueCall[d])'
  <2>1. PICK q : q = issueCall[d]
    OBVIOUS
  <2>2. CallOK(q)
    BY <2>1 DEF IssuesInv, CallsInv
  <2>3. Pending(q) => q.comment \notin DOMAIN authors'
    BY <1>3, <2>1, <2>2 DEF IssuesInv, ApartInv, CallOK
  <2>4. Speaks(q.by) => Speaks(q.by)'
    BY SpeakersStay
  <2>5. CallOK(q)'
    BY <1>2, <2>2, <2>3, <2>4 DEF CallOK, Grows, Pending, Speaks
  <2>6. issueCall'[d] = q
    BY <1>1, <1>3, <2>1
  <2> QED BY <2>5, <2>6 DEF CallOK, Pending, Speaks
<1>4. CallOK(issueCall[c])'
  <2>1. issueCall'[c] = r
    BY <1>1
  <2>2. CallOK(r)'
    OBVIOUS
  <2> QED BY ONLY <2>1, <2>2 DEF CallOK, Pending, Speaks
<1>5. CallsInv'
  BY <1>3, <1>4 DEF IssuesInv, CallsInv
<1>6. ApartInv'
  <2>1. \A d \in IssueCalls : Pending(issueCall'[d]) =>
          Pending(issueCall[d]) /\ issueCall'[d].comment = issueCall[d].comment
    BY <1>1
  <2> QED BY <2>1 DEF IssuesInv, ApartInv, Pending
<1> QED BY <1>5, <1>6

\* Only the call moves.
LEMMA QuietIssueCall ==
  ASSUME IssuesInv, NEW c \in IssueCalls, NEW r, CallOK(r),
         issueCall' = [issueCall EXCEPT ![c] = r],
         Pending(r) => Pending(issueCall[c]) /\ r.comment = issueCall[c].comment,
         UNCHANGED <<issueTables, issueStarted>>
  PROVE  IssuesInv'
<1>1. UNCHANGED <<issue, labels, milestone, issueLabels, assignees, comments, authors, commentCount, missed,
                  reviewers, reviews, askers, watches, inbox, issueStarted>>
  BY DEF issueTables, reviewTables
<1>2. CallOK(r)'
  BY <1>1 DEF CallOK, Speaks, Pending
<1>3. Grows
  BY <1>1 DEF Grows
<1>4. CallsInv' /\ ApartInv'
  BY <1>1, <1>2, <1>3, CallMoves
<1>5. TablesInv' /\ IssueInv' /\ InboxInv' /\ CommentsAreCounted' /\ AuthorsDoNotReview'
  BY <1>1 DEF IssuesInv, TablesInv, IssueInv, InboxInv, Speaks, CommentsAreCounted, AuthorsDoNotReview
<1> QED BY <1>4, <1>5 DEF IssuesInv

LEMMA RequestsAreCalls ==
  ASSUME TablesInv, NEW by \in People, NEW r \in IssueRequests(by)
  PROVE  /\ r \in IssueCall /\ r.by = by /\ r.at \in {"row", "access"}
         /\ r.op = "createComment" => r.comment \in Comments \ DOMAIN authors
<1> DEFINE OfMilestones == {IssueRequest(op, by, Nobody, {}, {}) :
                              op \in {"createMilestone", "updateMilestone", "deleteMilestone"}}
           OfIssues == {IssueRequest(op, by, Nobody, labs, who) :
                          op \in {"createIssue", "updateIssue"}, labs \in SUBSET Labels,
                          who \in {{}} \cup {{p} : p \in People}}
           OfLabels == {IssueRequest(op, by, Nobody, labs, {}) :
                          op \in {"createLabel", "updateLabel", "deleteLabel"}, labs \in {{l} : l \in Labels}}
           OfReviewers == {IssueRequest("requestReviewers", by, Nobody, {}, who) : who \in (SUBSET People) \ {{}}}
           NewComments == {IssueRequest("createComment", by, k, {}, {}) : k \in Comments \ DOMAIN authors}
           OldComments == {IssueRequest(op, by, k, {}, {}) : op \in {"updateComment", "deleteComment"}, k \in comments}
<1>1. \/ r \in OfMilestones \/ r \in OfIssues \/ r \in OfLabels \/ r = IssueRequest("createReview", by, Nobody, {}, {})
      \/ r \in OfReviewers \/ r \in NewComments \/ r \in OldComments
  <2>1. IssueRequests(by) = OfMilestones \cup OfIssues \cup OfLabels
            \cup {IssueRequest("createReview", by, Nobody, {}, {})} \cup OfReviewers \cup NewComments \cup OldComments
    BY DEF IssueRequests
  <2> HIDE DEF OfMilestones, OfIssues, OfLabels, OfReviewers, NewComments, OldComments
  <2> QED BY <2>1
<1>2. PICK op \in IssueOps, k \in Comments \cup {Nobody}, labs \in SUBSET Labels, who \in SUBSET People :
        /\ r = IssueRequest(op, by, k, labs, who)
        /\ op = "createComment" => k \in Comments \ DOMAIN authors
  <2>1. CASE r \in OfMilestones
    BY <2>1 DEF IssueOps
  <2>2. CASE r \in OfIssues
    <3>1. PICK op \in {"createIssue", "updateIssue"}, labs \in SUBSET Labels, who \in {{}} \cup {{p} : p \in People} :
            r = IssueRequest(op, by, Nobody, labs, who)
      BY <2>2
    <3>2. op \in IssueOps /\ who \in SUBSET People
      BY DEF IssueOps
    <3> QED BY <3>1, <3>2
  <2>3. CASE r \in OfLabels
    <3>1. PICK op \in {"createLabel", "updateLabel", "deleteLabel"}, labs \in {{l} : l \in Labels} :
            r = IssueRequest(op, by, Nobody, labs, {})
      BY <2>3
    <3>2. op \in IssueOps /\ labs \in SUBSET Labels /\ {} \in SUBSET People /\ op # "createComment"
      BY DEF IssueOps
    <3> QED BY <3>1, <3>2
  <2>4. CASE r = IssueRequest("createReview", by, Nobody, {}, {})
    BY <2>4 DEF IssueOps
  <2>5. CASE r \in OfReviewers
    BY <2>5 DEF IssueOps
  <2>6. CASE r \in NewComments
    BY <2>6 DEF IssueOps
  <2>7. CASE r \in OldComments
    <3>1. PICK op \in {"updateComment", "deleteComment"}, k \in comments : r = IssueRequest(op, by, k, {}, {})
      BY <2>7
    <3>2. op \in IssueOps /\ k \in Comments /\ op # "createComment"
      BY DEF IssueOps, TablesInv
    <3> QED BY <3>1, <3>2
  <2> HIDE DEF OfMilestones, OfIssues, OfLabels, OfReviewers, NewComments, OldComments
  <2> QED BY <1>1, <2>1, <2>2, <2>3, <2>4, <2>5, <2>6, <2>7
<1>3. PICK at \in {"row", "access"} :
        r = [op |-> op, by |-> by, can |-> None, comment |-> k, labels |-> labs, assignees |-> who,
             at |-> at, to |-> {}]
  BY <1>2 DEF IssueRequest, NoIssueCall
<1>4. /\ r.op = op /\ r.by = by /\ r.comment = k /\ r.at \in {"row", "access"}
      /\ r \in IssueCall
  BY <1>3 DEF IssueCall, Permission, None, Admin
<1> QED BY <1>2, <1>4

LEMMA StartsIssue ==
  ASSUME IssuesInv, NEW c \in IssueCalls, StartsIssueCall(c)
  PROVE  IssuesInv'
<1>b. PICK by \in People : \E r \in IssueRequests(by) :
        /\ Found(r)
        /\ r.op = "createComment" => \A d \in IssueCalls : issueCall[d].comment # r.comment
        /\ issueCall' = [issueCall EXCEPT ![c] = r]
  BY DEF StartsIssueCall
<1>1. PICK r \in IssueRequests(by) :
        /\ Found(r)
        /\ r.op = "createComment" => \A d \in IssueCalls : issueCall[d].comment # r.comment
        /\ issueCall' = [issueCall EXCEPT ![c] = r]
  BY <1>b
<1>2. UNCHANGED <<issue, labels, milestone, issueLabels, assignees, comments, authors, commentCount, missed,
                  reviewers, reviews, askers, watches, inbox>>
  BY DEF StartsIssueCall, issueTables, reviewTables
<1>3. /\ r \in IssueCall /\ r.by = by /\ r.at \in {"row", "access"}
      /\ r.op = "createComment" => r.comment \in Comments \ DOMAIN authors
  BY RequestsAreCalls DEF IssuesInv
<1>4. CallOK(r)
  BY <1>1, <1>3 DEF Found, CallOK, Pending
<1>5. issueCall'[c] = r /\ \A d \in IssueCalls : d # c => issueCall'[d] = issueCall[d]
  BY <1>1 DEF IssuesInv, CallsInv
<1>6. CallsInv'
  <2>1. \A d \in IssueCalls : CallOK(issueCall'[d])
    BY <1>4, <1>5 DEF IssuesInv, CallsInv
  <2> QED BY <1>1, <1>2, <2>1, ZenonT(30) DEF IssuesInv, CallsInv, CallOK, Speaks, Pending
<1>7. ApartInv'
  BY <1>1, <1>5 DEF IssuesInv, ApartInv, Pending
<1>8. issueStarted' \in 0 .. MaxIssueCalls
  BY IssuesAssumption DEF StartsIssueCall, IssuesInv, TablesInv
<1>9. TablesInv' /\ IssueInv' /\ InboxInv' /\ CommentsAreCounted' /\ AuthorsDoNotReview'
  BY <1>2, <1>8 DEF IssuesInv, TablesInv, IssueInv, InboxInv, Speaks, CommentsAreCounted, AuthorsDoNotReview
<1> QED BY <1>6, <1>7, <1>9 DEF IssuesInv

\* A call that only looks, or is over.
LEMMA LooksIssue ==
  ASSUME IssuesInv, NEW c \in IssueCalls,
         Checks(c) \/ RewritesComment(c) \/ RewritesLabel(c) \/ Collects(c) \/ FailsIssueCall(c)
  PROVE  IssuesInv'
<1>a. /\ UNCHANGED <<issueTables, issueStarted>>
      /\ CallOK(issueCall[c]) /\ issueCall[c] \in IssueCall
      /\ TablesInv
  BY DEF Checks, RewritesComment, RewritesLabel, Collects, FailsIssueCall, WritingFor, IssuesInv, CallsInv, CallOK
<1>1. CASE IssueCallEnds(c)
  BY <1>a, <1>1, EndedIsOK, QuietIssueCall DEF IssueCallEnds
<1>2. CASE Checks(c) /\ ~IssueCallEnds(c)
  <2>1. PICK can \in {Read, Triage, Maintain} :
          issueCall' = [issueCall EXCEPT ![c].at = "write", ![c].can = can]
    BY <1>2, ZenonT(30) DEF Checks
  <2>2. PICK r : r = [issueCall[c] EXCEPT !.at = "write", !.can = can]
    OBVIOUS
  <2>3. issueCall' = [issueCall EXCEPT ![c] = r]
    BY <2>1, <2>2 DEF IssuesInv, CallsInv
  <2>4. can \in Permission
    BY DEF Permission, None, Read, Triage, Maintain, Admin
  <2>5. /\ r \in IssueCall /\ r.at = "write" /\ r.op = issueCall[c].op /\ r.by = issueCall[c].by
        /\ r.comment = issueCall[c].comment
    BY <1>a, <2>2, <2>4 DEF IssueCall
  <2>6. issueCall[c].at \in {"row", "access"}
    BY <1>2 DEF Checks
  <2>7. CallOK(r) /\ (Pending(r) => Pending(issueCall[c]))
    BY <1>a, <2>5, <2>6 DEF CallOK, Pending
  <2> QED BY <1>a, <2>3, <2>5, <2>7, QuietIssueCall
<1>3. CASE Collects(c)
  <2>1. PICK r : r = [issueCall[c] EXCEPT !.at = "notify", !.to = Recipients(c)]
    OBVIOUS
  <2>2. issueCall' = [issueCall EXCEPT ![c] = r]
    BY <1>3, <2>1 DEF Collects, IssuesInv, CallsInv
  <2>3. issueCall[c].assignees \in SUBSET People
    BY <1>a DEF IssueCall
  <2>4. Recipients(c) \in SUBSET People /\ issueCall[c].by \notin Recipients(c)
    BY <1>a, <2>3 DEF TablesInv, Recipients, Participants
  <2>5. /\ r \in IssueCall /\ r.at = "notify" /\ r.op = issueCall[c].op /\ r.by = issueCall[c].by
        /\ r.to = Recipients(c)
    BY <1>a, <2>1, <2>4 DEF IssueCall
  <2>6. CallOK(r) /\ ~Pending(r)
    BY <1>a, <1>3, <2>4, <2>5 DEF Collects, CallOK, Pending
  <2> QED BY <1>a, <2>2, <2>6, QuietIssueCall
<1> QED BY <1>1, <1>2, <1>3 DEF RewritesComment, RewritesLabel, FailsIssueCall

-----------------------------------------------------------------------------
(***************************************************************************)
(* Steps that write.                                                       *)
(***************************************************************************)

\* A call writes, and tells nobody yet.
LEMMA WritingKeeps ==
  ASSUME IssuesInv, NEW c \in IssueCalls, NEW r, CallOK(r)',
         issueCall' = [issueCall EXCEPT ![c] = r], ~Pending(r), Grows,
         \A k \in DOMAIN authors' \ DOMAIN authors :
           Pending(issueCall[c]) /\ k = issueCall[c].comment,
         TablesInv', IssueInv', CommentsAreCounted', AuthorsDoNotReview', inbox' = inbox
  PROVE  IssuesInv'
<1>1. CallsInv' /\ ApartInv'
  BY CallMoves
<1>2. InboxInv'
  BY SpeakersStay DEF IssuesInv, InboxInv
<1> QED BY <1>1, <1>2 DEF IssuesInv

LEMMA InsertsTheIssue ==
  ASSUME IssuesInv, NEW c \in IssueCalls, InsertsIssue(c)
  PROVE  IssuesInv'
<1>a. /\ UNCHANGED <<labels, milestone, issueLabels, assignees, comments, authors, commentCount, missed,
                     reviewers, reviews, askers, watches, inbox, issueStarted>>
      /\ CallOK(issueCall[c]) /\ issueCall[c] \in IssueCall /\ TablesInv
      /\ issueCall[c].at = "write" /\ issueCall[c].op = "createIssue" /\ issueCall[c].by \in People
  BY DEF InsertsIssue, WritingFor, reviewTables, IssuesInv, CallsInv, CallOK
<1>1. CASE IssueCallEnds(c) /\ UNCHANGED issue
  BY <1>a, <1>1, EndedIsOK, QuietIssueCall DEF IssueCallEnds, issueTables, reviewTables
<1>2. CASE ~(IssueCallEnds(c) /\ UNCHANGED issue)
  <2>1. PICK m \in BOOLEAN :
          /\ issue.life = "none"
          /\ issue' = [life |-> "here", pull |-> FALSE, author |-> issueCall[c].by, locked |-> FALSE, milestone |-> m]
          /\ IssueCallGoesTo(c, IF AtLeast(issueCall[c].can, Triage) THEN "labels" ELSE "collect")
    BY <1>2 DEF InsertsIssue
  <2>2. PICK r : r = [issueCall[c] EXCEPT !.at = IF AtLeast(issueCall[c].can, Triage) THEN "labels" ELSE "collect"]
    OBVIOUS
  <2>3. issueCall' = [issueCall EXCEPT ![c] = r]
    BY <2>1, <2>2 DEF IssueCallGoesTo, IssuesInv, CallsInv
  <2>4. /\ r \in IssueCall /\ r.at = IF AtLeast(issueCall[c].can, Triage) THEN "labels" ELSE "collect"
        /\ r.op = "createIssue" /\ r.by = issueCall[c].by /\ r.can = issueCall[c].can
    BY <1>a, <2>2 DEF IssueCall
  <2>5. Speaks(r.by)'
    BY <2>1, <2>4 DEF Speaks
  <2>6. CallOK(r)' /\ ~Pending(r)
    BY <1>a, <2>4, <2>5 DEF CallOK, Pending
  <2>7. Grows
    BY <1>a, <2>1 DEF Grows
  <2>8. issue' \in Issue /\ issue'.life = "here" /\ issue'.author \in People /\ ~issue'.pull
    BY <1>a, <2>1 DEF Issue
  <2>9. reviews = {} /\ reviewers = {}
    BY <2>1 DEF IssuesInv, IssueInv
  <2>10. TablesInv' /\ IssueInv' /\ CommentsAreCounted' /\ AuthorsDoNotReview'
    BY <1>a, <2>8, <2>9 DEF IssuesInv, TablesInv, IssueInv, CommentsAreCounted, AuthorsDoNotReview
  <2> QED BY <1>a, <2>3, <2>6, <2>7, <2>10, WritingKeeps
<1> QED BY <1>1, <1>2

LEMMA UpdatesTheIssue ==
  ASSUME IssuesInv, NEW c \in IssueCalls, UpdatesIssue(c)
  PROVE  IssuesInv'
<1>a. /\ UNCHANGED <<labels, milestone, issueLabels, assignees, comments, authors, commentCount, missed,
                     reviewers, reviews, askers, watches, inbox, issueStarted>>
      /\ CallOK(issueCall[c]) /\ issueCall[c] \in IssueCall /\ TablesInv /\ IssueInv
      /\ issueCall[c].at = "write" /\ issueCall[c].op = "updateIssue" /\ issueCall[c].by \in People
      /\ issue.life = "here"
  BY DEF UpdatesIssue, WritingFor, reviewTables, IssuesInv, CallsInv, CallOK
<1>1. PICK m \in BOOLEAN, locked \in BOOLEAN : issue' = [issue EXCEPT !.milestone = m, !.locked = locked]
  BY DEF UpdatesIssue
<1>2. issue' \in Issue /\ issue'.life = "here" /\ issue'.author = issue.author /\ issue'.pull = issue.pull
  BY <1>a, <1>1 DEF TablesInv, Issue
<1>3. Grows
  BY <1>a, <1>2 DEF Grows
<1>4. TablesInv' /\ IssueInv' /\ CommentsAreCounted' /\ AuthorsDoNotReview'
  BY <1>a, <1>2 DEF IssuesInv, TablesInv, IssueInv, CommentsAreCounted, AuthorsDoNotReview
<1>5. PICK r : issueCall' = [issueCall EXCEPT ![c] = r] /\ CallOK(r)' /\ ~Pending(r)
  <2>1. CASE IssueCallEnds(c)
    <3>1. CallOK(NoIssueCall)'
      BY EndedIsOK DEF CallOK, NoIssueCall, Pending
    <3> QED BY <2>1, <3>1, EndedIsOK DEF IssueCallEnds
  <2>2. CASE IssueCallGoesTo(c, "labels") /\ AtLeast(issueCall[c].can, Triage)
    <3>1. PICK r : r = [issueCall[c] EXCEPT !.at = "labels"]
      OBVIOUS
    <3>2. issueCall' = [issueCall EXCEPT ![c] = r]
      BY <2>2, <3>1 DEF IssueCallGoesTo, IssuesInv, CallsInv
    <3>3. /\ r \in IssueCall /\ r.at = "labels" /\ r.op = "updateIssue" /\ r.by = issueCall[c].by
          /\ r.can = issueCall[c].can
      BY <1>a, <3>1 DEF IssueCall
    <3>4. CallOK(r)' /\ ~Pending(r)
      BY <1>a, <1>2, <2>2, <3>3 DEF CallOK, Pending
    <3> QED BY <3>2, <3>4
  <2> QED BY <2>1, <2>2 DEF UpdatesIssue
<1> QED BY <1>a, <1>3, <1>4, <1>5, WritingKeeps

\* Labels that are there, and people.
LEMMA AppliesIssue ==
  ASSUME IssuesInv, NEW c \in IssueCalls, AppliesLabels(c) \/ AppliesAssignees(c)
  PROVE  IssuesInv'
<1>a. /\ UNCHANGED <<issue, labels, milestone, comments, authors, commentCount, missed,
                     reviewers, reviews, askers, watches, inbox, issueStarted>>
      /\ CallOK(issueCall[c]) /\ issueCall[c] \in IssueCall /\ TablesInv
      /\ issueCall[c].at \in {"labels", "assignees"}
      /\ issueCall[c].op \in {"createIssue", "updateIssue"} /\ issueCall[c].by \in People
      /\ AtLeast(issueCall[c].can, Triage)
      /\ issueCall[c].op = "createIssue" => Speaks(issueCall[c].by)
  BY DEF AppliesLabels, AppliesAssignees, reviewTables, IssuesInv, CallsInv, CallOK
<1>1. issueCall[c].assignees \in SUBSET People
  BY <1>a DEF IssueCall
<1>2. issueLabels' \subseteq labels /\ assignees' \subseteq People
  BY <1>a, <1>1 DEF AppliesLabels, AppliesAssignees, TablesInv
<1>3. Grows
  BY <1>a DEF Grows
<1>4. TablesInv' /\ IssueInv' /\ CommentsAreCounted' /\ AuthorsDoNotReview'
  BY <1>a, <1>2 DEF IssuesInv, TablesInv, IssueInv, CommentsAreCounted, AuthorsDoNotReview
<1>5. PICK r : issueCall' = [issueCall EXCEPT ![c] = r] /\ CallOK(r)' /\ ~Pending(r)
  <2>1. CASE IssueCallEnds(c)
    <3>1. CallOK(NoIssueCall)'
      BY EndedIsOK DEF CallOK, NoIssueCall, Pending
    <3> QED BY <2>1, <3>1, EndedIsOK DEF IssueCallEnds
  <2>2. CASE IssueCallGoesTo(c, "assignees")
            \/ (IssueCallGoesTo(c, "collect") /\ issueCall[c].op = "createIssue")
    <3>1. PICK at \in {"assignees", "collect"} :
            IssueCallGoesTo(c, at) /\ (at = "collect" => issueCall[c].op = "createIssue")
      BY <2>2
    <3>2. PICK r : r = [issueCall[c] EXCEPT !.at = at]
      OBVIOUS
    <3>3. issueCall' = [issueCall EXCEPT ![c] = r]
      BY <3>1, <3>2 DEF IssueCallGoesTo, IssuesInv, CallsInv
    <3>4. /\ r \in IssueCall /\ r.at = at /\ r.op = issueCall[c].op /\ r.by = issueCall[c].by
          /\ r.can = issueCall[c].can
      BY <1>a, <3>2 DEF IssueCall
    <3>5. Speaks(r.by) => Speaks(r.by)'
      BY <1>3, SpeakersStay
    <3>6. CallOK(r)' /\ ~Pending(r)
      BY <1>a, <3>1, <3>4, <3>5 DEF CallOK, Pending
    <3> QED BY <3>3, <3>6
  <2>3. IssueCallEnds(c) \/ IssueCallGoesTo(c, "assignees")
        \/ (IssueCallGoesTo(c, "collect") /\ issueCall[c].op = "createIssue")
    <3>1. CASE AppliesLabels(c)
      BY <3>1 DEF AppliesLabels
    <3>2. CASE AppliesAssignees(c)
      <4>1. IF issueCall[c].op = "updateIssue" THEN IssueCallEnds(c) ELSE IssueCallGoesTo(c, "collect")
        BY <3>2 DEF AppliesAssignees, Replaces
      <4> QED BY <1>a, <4>1
    <3> QED BY <3>1, <3>2
  <2> QED BY <2>1, <2>2, <2>3
<1> QED BY <1>a, <1>3, <1>4, <1>5, WritingKeeps

\* The comment is new, and the count grows with it.
LEMMA InsertsAComment ==
  ASSUME IssuesInv, NEW c \in IssueCalls, InsertsComment(c)
  PROVE  IssuesInv'
<1>a. /\ UNCHANGED <<issue, labels, milestone, issueLabels, assignees, missed,
                     reviewers, reviews, askers, watches, inbox, issueStarted>>
      /\ CallOK(issueCall[c]) /\ issueCall[c] \in IssueCall /\ TablesInv
      /\ issueCall[c].at = "write" /\ issueCall[c].op = "createComment" /\ issueCall[c].by \in People
  BY DEF InsertsComment, WritingFor, reviewTables, IssuesInv, CallsInv, CallOK
<1>1. PICK k \in Comments \ DOMAIN authors : k = issueCall[c].comment
  BY <1>a DEF CallOK, Pending
<1>b. Pending(issueCall[c])
  BY <1>a DEF Pending
<1>2. /\ comments' = comments \cup {k} /\ commentCount' = commentCount + 1
      /\ authors' = [l \in DOMAIN authors \cup {k} |-> IF l = k THEN issueCall[c].by ELSE authors[l]]
  BY <1>1 DEF InsertsComment
<1>3. k \notin comments /\ IsFiniteSet(comments)
  BY <1>a, <1>1, IssuesAssumption, FS_Subset DEF TablesInv
<1>4. Cardinality(comments') = Cardinality(comments) + 1 /\ Cardinality(comments) \in Nat
  BY <1>2, <1>3, FS_AddElement, FS_CardinalityType
<1>5. CommentsAreCounted'
  BY <1>a, <1>2, <1>4 DEF CommentsAreCounted, TablesInv, IssuesInv
<1>6. /\ DOMAIN authors' = DOMAIN authors \cup {k} /\ authors'[k] = issueCall[c].by
      /\ \A l \in DOMAIN authors : authors'[l] = authors[l]
      /\ authors' \in [DOMAIN authors' -> People]
  BY <1>a, <1>1, <1>2 DEF TablesInv
<1>7. Grows
  BY <1>a, <1>6 DEF Grows
<1>8. TablesInv' /\ IssueInv' /\ AuthorsDoNotReview'
  BY <1>a, <1>2, <1>6 DEF IssuesInv, TablesInv, IssueInv, AuthorsDoNotReview
<1>9. PICK r : r = [issueCall[c] EXCEPT !.at = "collect"]
  OBVIOUS
<1>10. issueCall' = [issueCall EXCEPT ![c] = r]
  BY <1>9 DEF InsertsComment, IssueCallGoesTo, IssuesInv, CallsInv
<1>11. r \in IssueCall /\ r.at = "collect" /\ r.op = "createComment" /\ r.by = issueCall[c].by
  BY <1>a, <1>9 DEF IssueCall
<1>12. Speaks(r.by)'
  BY <1>6, <1>11 DEF Speaks
<1>13. CallOK(r)' /\ ~Pending(r)
  BY <1>a, <1>11, <1>12 DEF CallOK, Pending
<1>14. \A l \in DOMAIN authors' \ DOMAIN authors : Pending(issueCall[c]) /\ l = issueCall[c].comment
  BY <1>1, <1>6, <1>b
<1> QED BY <1>a, <1>5, <1>7, <1>8, <1>10, <1>13, <1>14, WritingKeeps

\* The count never goes below nothing, nor above what is left.
LEMMA RemovesAComment ==
  ASSUME IssuesInv, NEW c \in IssueCalls, RemovesComment(c)
  PROVE  IssuesInv'
<1>a. /\ UNCHANGED <<issue, labels, milestone, issueLabels, assignees, authors,
                     reviewers, reviews, askers, watches, inbox, issueStarted>>
      /\ TablesInv /\ issueCall' = [issueCall EXCEPT ![c] = NoIssueCall]
  BY DEF RemovesComment, WritingFor, IssueCallEnds, reviewTables, IssuesInv
<1>1. PICK k : k = issueCall[c].comment
  OBVIOUS
<1>2. /\ comments' = comments \ {k} /\ commentCount' = Uncounted
      /\ missed' = IF k \in comments THEN missed ELSE missed + 1
  BY <1>1 DEF RemovesComment
<1>3. IsFiniteSet(comments)
  BY <1>a, IssuesAssumption, FS_Subset DEF TablesInv
<1>4. /\ Cardinality(comments) \in Nat /\ Cardinality(comments') \in Nat
      /\ Cardinality(comments') = IF k \in comments THEN Cardinality(comments) - 1 ELSE Cardinality(comments)
  BY <1>2, <1>3, FS_RemoveElement, FS_CardinalityType
<1>5. CommentsAreCounted' /\ commentCount' \in Nat /\ missed' \in Nat
  BY <1>a, <1>2, <1>4 DEF Uncounted, CommentsAreCounted, TablesInv, IssuesInv
<1>6. Grows
  BY <1>a DEF Grows
<1>7. TablesInv' /\ IssueInv' /\ AuthorsDoNotReview'
  BY <1>a, <1>2, <1>5 DEF IssuesInv, TablesInv, IssueInv, AuthorsDoNotReview
<1>8. CallOK(NoIssueCall)'
  BY EndedIsOK DEF CallOK, NoIssueCall, Pending
<1> QED BY <1>a, <1>5, <1>6, <1>7, <1>8, EndedIsOK, WritingKeeps

LEMMA WritesTriage ==
  ASSUME IssuesInv, NEW c \in IssueCalls, CreatesLabel(c) \/ DeletesLabel(c) \/ WritesMilestone(c)
  PROVE  IssuesInv'
<1>a. /\ UNCHANGED <<assignees, comments, authors, commentCount, missed,
                     reviewers, reviews, askers, watches, inbox, issueStarted>>
      /\ CallOK(issueCall[c]) /\ issueCall[c] \in IssueCall /\ TablesInv /\ IssueInv
      /\ issueCall' = [issueCall EXCEPT ![c] = NoIssueCall]
  BY DEF CreatesLabel, DeletesLabel, WritesMilestone, WritingFor, IssueCallEnds, reviewTables, IssuesInv, CallsInv, CallOK
<1>1. labels' \subseteq Labels /\ issueLabels' \subseteq labels'
  <2>1. issueCall[c].labels \in SUBSET Labels
    BY <1>a DEF IssueCall
  <2>2. labels \subseteq Labels /\ issueLabels \subseteq labels
    BY <1>a DEF TablesInv
  <2>3. CASE CreatesLabel(c) \/ DeletesLabel(c)
    BY <2>1, <2>2, <2>3 DEF CreatesLabel, DeletesLabel
  <2>4. CASE WritesMilestone(c)
    BY <2>2, <2>4 DEF WritesMilestone
  <2> QED BY <2>3, <2>4
<1>2. /\ milestone' \in {"none", "here", "gone"} /\ issue' \in Issue
      /\ issue'.life = issue.life /\ issue'.author = issue.author /\ issue'.pull = issue.pull
      /\ issue'.locked = issue.locked
  <2>1. milestone \in {"none", "here", "gone"} /\ issue \in Issue
    BY <1>a DEF TablesInv
  <2>2. CASE CreatesLabel(c) \/ DeletesLabel(c)
    BY <2>1, <2>2 DEF CreatesLabel, DeletesLabel
  <2>3. CASE WritesMilestone(c)
    BY <2>1, <2>3 DEF WritesMilestone, Issue
  <2> QED BY <2>2, <2>3
<1>3. Grows
  BY <1>a, <1>2 DEF Grows
<1>4. TablesInv' /\ IssueInv' /\ CommentsAreCounted' /\ AuthorsDoNotReview'
  BY <1>a, <1>1, <1>2 DEF IssuesInv, TablesInv, IssueInv, CommentsAreCounted, AuthorsDoNotReview
<1>5. CallOK(NoIssueCall)'
  BY EndedIsOK DEF CallOK, NoIssueCall, Pending
<1> QED BY <1>a, <1>3, <1>4, <1>5, EndedIsOK, WritingKeeps

\* An author is not among those who approve, nor among those who are asked.
LEMMA ReviewsIssue ==
  ASSUME IssuesInv, NEW c \in IssueCalls, InsertsReview(c) \/ AsksReviewers(c)
  PROVE  IssuesInv'
<1>a. /\ UNCHANGED <<issue, labels, milestone, issueLabels, assignees, comments, authors, commentCount, missed,
                     watches, inbox, issueStarted>>
      /\ CallOK(issueCall[c]) /\ issueCall[c] \in IssueCall /\ TablesInv /\ IssueInv /\ AuthorsDoNotReview
      /\ issueCall[c].at = "write" /\ issueCall[c].by \in People
      /\ issueCall[c].op \in {"createReview", "requestReviewers"} /\ issue.pull
  BY DEF InsertsReview, AsksReviewers, WritingFor, IssuesInv, CallsInv, CallOK
<1>b. issue.life = "here" /\ issue.author \in People
  BY <1>a DEF TablesInv, Issue, IssueInv
<1>c. issueCall[c].assignees \in SUBSET People
  BY <1>a DEF IssueCall
<1>1. PICK state \in ReviewStates :
        /\ reviews' = reviews \/ reviews' = reviews \cup {<<issueCall[c].by, state>>}
        /\ issueCall[c].by = issue.author => state # "approved"
        /\ InsertsReview(c) => <<issueCall[c].by, state>> \in reviews'
  <2>1. CASE InsertsReview(c)
    BY <2>1 DEF InsertsReview
  <2>2. CASE AsksReviewers(c) /\ ~InsertsReview(c)
    <3>1. "commented" \in ReviewStates
      BY DEF ReviewStates
    <3> QED BY <2>2, <3>1 DEF AsksReviewers
  <2> QED BY <2>1, <2>2
<1>2. reviewers' \subseteq People /\ issue.author \notin reviewers'
  <2>1. CASE InsertsReview(c)
    BY <1>a, <2>1 DEF InsertsReview, TablesInv, AuthorsDoNotReview
  <2>2. CASE AsksReviewers(c)
    BY <1>a, <1>c, <2>2 DEF AsksReviewers, TablesInv, AuthorsDoNotReview
  <2> QED BY <2>1, <2>2
<1>3. askers \subseteq askers' /\ askers' \subseteq People
  <2>1. CASE InsertsReview(c)
    BY <1>a, <2>1 DEF InsertsReview, TablesInv
  <2>2. CASE AsksReviewers(c)
    BY <1>a, <2>2 DEF AsksReviewers, TablesInv
  <2> QED BY <2>1, <2>2
<1>4. Grows
  BY <1>a, <1>1, <1>3 DEF Grows
<1>5. AuthorsDoNotReview'
  BY <1>a, <1>1, <1>2 DEF AuthorsDoNotReview
<1>6. TablesInv' /\ IssueInv' /\ CommentsAreCounted'
  <2>1. reviews' \subseteq People \X ReviewStates
    BY <1>a, <1>1 DEF TablesInv
  <2> QED BY <1>a, <1>b, <1>2, <1>3, <2>1 DEF IssuesInv, TablesInv, IssueInv, CommentsAreCounted
<1>7. PICK r : issueCall' = [issueCall EXCEPT ![c] = r] /\ CallOK(r)' /\ ~Pending(r)
  <2>1. CASE IssueCallEnds(c)
    <3>1. CallOK(NoIssueCall)'
      BY EndedIsOK DEF CallOK, NoIssueCall, Pending
    <3> QED BY <2>1, <3>1, EndedIsOK DEF IssueCallEnds
  <2>2. CASE ~IssueCallEnds(c)
    <3>1. PICK to \in SUBSET People :
            /\ issueCall' = [issueCall EXCEPT ![c].at = "notify", ![c].to = to]
            /\ issueCall[c].by \notin to
      <4>1. CASE InsertsReview(c)
        <5>1. PICK to \in SUBSET People : to = {issue.author} \ {issueCall[c].by}
          BY <1>b
        <5>2. issueCall' = [issueCall EXCEPT ![c].at = "notify", ![c].to = to]
          BY <4>1, <5>1 DEF InsertsReview
        <5> QED BY <5>1, <5>2
      <4>2. CASE AsksReviewers(c)
        <5>1. PICK to \in SUBSET People : to = (issueCall[c].assignees \ {issue.author}) \ {issueCall[c].by}
          BY <1>c
        <5>2. issueCall' = [issueCall EXCEPT ![c].at = "notify", ![c].to = to]
          BY <2>2, <4>2, <5>1 DEF AsksReviewers
        <5> QED BY <5>1, <5>2
      <4> QED BY <4>1, <4>2
    <3>2. PICK r : r = [issueCall[c] EXCEPT !.at = "notify", !.to = to]
      OBVIOUS
    <3>3. issueCall' = [issueCall EXCEPT ![c] = r]
      BY <3>1, <3>2 DEF IssuesInv, CallsInv
    <3>4. /\ r \in IssueCall /\ r.at = "notify" /\ r.op = issueCall[c].op /\ r.by = issueCall[c].by
          /\ r.to = to
      BY <1>a, <3>2 DEF IssueCall
    <3>5. Speaks(r.by)'
      <4>1. CASE InsertsReview(c)
        BY <1>1, <3>4, <4>1 DEF Speaks
      <4>2. CASE AsksReviewers(c)
        <5>1. issueCall[c].by \in askers'
          BY <2>2, <4>2 DEF AsksReviewers
        <5> QED BY <3>4, <5>1 DEF Speaks
      <4> QED BY <4>1, <4>2
    <3>6. CallOK(r)' /\ ~Pending(r)
      BY <1>a, <3>1, <3>4, <3>5 DEF CallOK, Pending
    <3> QED BY <3>3, <3>6
  <2> QED BY <2>1, <2>2
<1> QED BY <1>a, <1>4, <1>5, <1>6, <1>7, WritingKeeps

\* Whoever is told is told of somebody else.
LEMMA NotifiesIssue ==
  ASSUME IssuesInv, NEW c \in IssueCalls, Notifies(c)
  PROVE  IssuesInv'
<1>a. /\ UNCHANGED <<issue, labels, milestone, issueLabels, assignees, comments, authors, commentCount, missed,
                     reviewers, reviews, askers, watches, issueStarted>>
      /\ CallOK(issueCall[c]) /\ TablesInv /\ InboxInv
      /\ issueCall' = [issueCall EXCEPT ![c] = NoIssueCall]
      /\ inbox' = [p \in People |-> IF p \in issueCall[c].to THEN "unread" ELSE inbox[p]]
      /\ issueCall[c].at = "notify"
  BY DEF Notifies, IssueCallEnds, reviewTables, IssuesInv, CallsInv
<1>1. inbox' \in [People -> {"none", "read", "unread"}]
  BY <1>a DEF TablesInv
<1>2. issueCall[c].by \in People /\ issueCall[c].by \notin issueCall[c].to /\ Speaks(issueCall[c].by)
  BY <1>a DEF CallOK
<1>3. \A q : Speaks(q) <=> Speaks(q)'
  BY <1>a DEF Speaks
<1>4. InboxInv'
  BY <1>a, <1>2, <1>3 DEF InboxInv
<1>5. Grows
  BY <1>a DEF Grows
<1>6. CallOK(NoIssueCall)'
  BY EndedIsOK DEF CallOK, NoIssueCall, Pending
<1>7. CallsInv' /\ ApartInv'
  BY <1>a, <1>5, <1>6, EndedIsOK, CallMoves
<1>8. TablesInv' /\ IssueInv' /\ CommentsAreCounted' /\ AuthorsDoNotReview'
  BY <1>a, <1>1 DEF IssuesInv, TablesInv, IssueInv, CommentsAreCounted, AuthorsDoNotReview
<1> QED BY <1>4, <1>7, <1>8 DEF IssuesInv

LEMMA MarksIssue ==
  ASSUME IssuesInv, NEW p \in People, Marks(p) \/ SetsWatch(p)
  PROVE  IssuesInv'
<1>a. UNCHANGED <<issue, labels, milestone, issueLabels, assignees, comments, authors, commentCount, missed,
                  reviewers, reviews, askers, issueCall>>
  BY DEF Marks, SetsWatch, reviewTables
<1>1. TablesInv' /\ \A q \in People : inbox'[q] # "none" => inbox[q] # "none"
  <2>1. CASE Marks(p)
    BY <1>a, <2>1 DEF Marks, IssuesInv, TablesInv
  <2>2. CASE SetsWatch(p)
    <3>1. issueStarted' \in 0 .. MaxIssueCalls
      BY <2>2, IssuesAssumption DEF SetsWatch, IssuesInv, TablesInv
    <3> QED BY <1>a, <2>2, <3>1 DEF SetsWatch, IssuesInv, TablesInv
  <2> QED BY <2>1, <2>2
<1>2. \A q : Speaks(q) <=> Speaks(q)'
  BY <1>a DEF Speaks
<1>3. InboxInv'
  BY <1>1, <1>2 DEF IssuesInv, InboxInv
<1>4. IssueInv' /\ CommentsAreCounted' /\ AuthorsDoNotReview'
  BY <1>a DEF IssuesInv, IssueInv, CommentsAreCounted, AuthorsDoNotReview
<1>5. CallsInv' /\ ApartInv'
  BY <1>a DEF IssuesInv, CallsInv, CallOK, Speaks, Pending, ApartInv
<1> QED BY <1>1, <1>3, <1>4, <1>5 DEF IssuesInv

LEMMA NextIssue ==
  ASSUME IssuesInv, [IssuesNext]_issuesVars
  PROVE  IssuesInv'
<1>1. CASE UNCHANGED issuesVars
  <2>1. TablesInv' /\ IssueInv' /\ CommentsAreCounted' /\ AuthorsDoNotReview'
    BY <1>1 DEF issuesVars, reviewTables, IssuesInv, TablesInv, IssueInv, CommentsAreCounted, AuthorsDoNotReview
  <2>2. \A q : Speaks(q) <=> Speaks(q)'
    BY <1>1 DEF issuesVars, reviewTables, Speaks
  <2>3. InboxInv'
    BY <1>1, <2>2 DEF issuesVars, reviewTables, IssuesInv, InboxInv
  <2>4. ASSUME NEW r, CallOK(r) PROVE CallOK(r)'
    BY <1>1, <2>2, <2>4 DEF issuesVars, reviewTables, CallOK, Pending
  <2>5. CallsInv' /\ ApartInv'
    BY <1>1, <2>4 DEF issuesVars, IssuesInv, CallsInv, ApartInv, Pending
  <2> QED BY <2>1, <2>3, <2>5 DEF IssuesInv
<1>2. ASSUME NEW c \in IssueCalls, IssueStep(c)
      PROVE  IssuesInv'
  BY <1>2, StartsIssue, LooksIssue, InsertsTheIssue, UpdatesTheIssue, AppliesIssue, InsertsAComment,
     RemovesAComment, WritesTriage, ReviewsIssue, NotifiesIssue DEF IssueStep
<1>3. ASSUME NEW p \in People, Marks(p) \/ SetsWatch(p)
      PROVE  IssuesInv'
  BY <1>3, MarksIssue
<1> QED BY <1>1, <1>2, <1>3 DEF IssuesNext

LEMMA IssuesInvHolds == IssuesSpec => []IssuesInv
BY InitIssues, NextIssue, PTL DEF IssuesSpec

-----------------------------------------------------------------------------
(***************************************************************************)
(* Theorems.                                                               *)
(***************************************************************************)

\* Every reachable state has its type: what calls that race leave is still a thread.
THEOREM IssuesAreTyped == IssuesSpec => []IssuesTypeOK
<1>1. IssuesInv => IssuesTypeOK
  <2> SUFFICES ASSUME IssuesInv PROVE IssuesTypeOK
    OBVIOUS
  <2>1. issueCall \in [IssueCalls -> IssueCall]
    BY DEF IssuesInv, CallsInv, CallOK
  <2> QED BY <2>1 DEF IssuesInv, TablesInv, IssuesTypeOK
<1> QED BY <1>1, IssuesInvHolds, PTL

\* Comments are counted up to deletions that met, inboxes are filled by others, and
\* authors do not review, whatever calls and failures meet.
THEOREM TheThreadHolds == IssuesSpec => []ThreadHolds
<1>1. IssuesInv => ThreadHolds
  <2> SUFFICES ASSUME IssuesInv PROVE ThreadHolds
    OBVIOUS
  <2>1. \A q : Speaks(q) => \/ q = issue.author
                            \/ q \in askers
                            \/ \E state \in ReviewStates : <<q, state>> \in reviews
                            \/ \E k \in DOMAIN authors : authors[k] = q
    BY DEF Speaks
  <2>2. HeardFromOthers
    BY <2>1 DEF IssuesInv, InboxInv, HeardFromOthers
  <2> QED BY <2>2 DEF IssuesInv, ThreadHolds
<1> QED BY <1>1, IssuesInvHolds, PTL

TriageStep ==
  \/ issueLabels' \subseteq issueLabels /\ assignees' = assignees /\ labels' # labels
  \/ <<issueLabels, assignees, issue.locked>>' = <<issueLabels, assignees, issue.locked>>
  \/ \E c \in IssueCalls : issueCall[c].at # "idle" /\ AtLeast(issueCall[c].can, Triage)
                             /\ issueCall'[c] # issueCall[c]

LEMMA OnlyTriagersTriage ==
  ASSUME IssuesInv, [IssuesNext]_issuesVars
  PROVE  [TriageStep]_issuesVars
<1>a. \A c \in IssueCalls : \A r : issueCall' = [issueCall EXCEPT ![c] = r] => issueCall'[c] = r
  BY DEF IssuesInv, CallsInv
<1>b. \A c \in IssueCalls : \A at : IssueCallGoesTo(c, at) => issueCall'[c].at = at
  BY DEF IssueCallGoesTo, IssuesInv, CallsInv, CallOK, IssueCall
<1>c. \A c \in IssueCalls : IssueCallEnds(c) => issueCall'[c].at = "idle"
  <2>1. \A c \in IssueCalls : IssueCallEnds(c) => issueCall'[c] = NoIssueCall
    BY <1>a DEF IssueCallEnds
  <2>2. NoIssueCall.at = "idle"
    BY DEF NoIssueCall
  <2> QED BY <2>1, <2>2
<1>1. CASE UNCHANGED <<issueLabels, assignees, issue>>
  BY <1>1 DEF TriageStep
<1>2. ASSUME NEW c \in IssueCalls, InsertsIssue(c)
      PROVE  TriageStep
  <2>1. UNCHANGED <<issueLabels, assignees>> /\ issue'.locked = issue.locked
    <3>1. CASE UNCHANGED issue
      BY <1>2, <3>1 DEF InsertsIssue
    <3>2. CASE ~UNCHANGED issue
      <4>1. issue.life = "none" /\ issue'.locked = FALSE
        BY <1>2, <3>2 DEF InsertsIssue
      <4>2. issue.locked = FALSE
        BY <4>1 DEF IssuesInv, IssueInv, TablesInv, Issue
      <4> QED BY <1>2, <4>1, <4>2 DEF InsertsIssue
    <3> QED BY <3>1, <3>2
  <2> QED BY <2>1 DEF TriageStep
<1>3. ASSUME NEW c \in IssueCalls, UpdatesIssue(c)
      PROVE  TriageStep
  <2>1. PICK m \in BOOLEAN, locked \in BOOLEAN :
          /\ MayLock(c) \/ locked = issue.locked
          /\ issue' = [issue EXCEPT !.milestone = m, !.locked = locked]
    BY <1>3 DEF UpdatesIssue
  <2>2. issue'.locked = locked /\ UNCHANGED <<issueLabels, assignees>>
    BY <1>3, <2>1 DEF UpdatesIssue, IssuesInv, TablesInv, Issue
  <2>3. CASE locked = issue.locked
    BY <2>2, <2>3 DEF TriageStep
  <2>4. CASE MayLock(c)
    <3>1. issueCall[c].at = "write" /\ AtLeast(issueCall[c].can, Triage)
      BY <1>3, <2>4 DEF UpdatesIssue, WritingFor, MayLock
    <3>2. issueCall'[c].at \in {"labels", "idle"}
      BY <1>3, <1>b, <1>c DEF UpdatesIssue
    <3> QED BY <3>1, <3>2 DEF TriageStep
  <2> QED BY <2>1, <2>3, <2>4
<1>4. ASSUME NEW c \in IssueCalls, AppliesLabels(c) \/ AppliesAssignees(c)
      PROVE  TriageStep
  <2>1. issueCall[c].at \in {"labels", "assignees"} /\ AtLeast(issueCall[c].can, Triage)
    BY <1>4 DEF AppliesLabels, AppliesAssignees, IssuesInv, CallsInv, CallOK
  <2>2. issueCall'[c].at # issueCall[c].at
    <3>1. CASE AppliesLabels(c)
      BY <1>b, <3>1 DEF AppliesLabels
    <3>2. CASE AppliesAssignees(c)
      BY <1>b, <1>c, <3>2 DEF AppliesAssignees
    <3> QED BY <1>4, <3>1, <3>2
  <2> QED BY <2>1, <2>2 DEF TriageStep
<1>5. ASSUME NEW c \in IssueCalls, CreatesLabel(c) \/ DeletesLabel(c)
      PROVE  TriageStep
  <2>1. UNCHANGED <<issue, assignees>> /\ issueLabels \subseteq labels
    BY <1>5 DEF CreatesLabel, DeletesLabel, IssuesInv, TablesInv
  <2>2. CASE UNCHANGED issueLabels
    BY <2>1, <2>2 DEF TriageStep
  <2>3. CASE ~UNCHANGED issueLabels
    <3>1. issueLabels' = issueLabels \ issueCall[c].labels /\ labels' = labels \ issueCall[c].labels
      BY <1>5, <2>3 DEF CreatesLabel, DeletesLabel
    <3>2. labels' # labels
      BY <2>1, <2>3, <3>1
    <3> QED BY <2>1, <3>1, <3>2 DEF TriageStep
  <2> QED BY <2>2, <2>3
<1>6. ASSUME NEW c \in IssueCalls, WritesMilestone(c)
      PROVE  TriageStep
  <2>1. UNCHANGED <<issueLabels, assignees>> /\ issue'.locked = issue.locked
    BY <1>6 DEF WritesMilestone, IssuesInv, TablesInv, Issue
  <2> QED BY <2>1 DEF TriageStep
<1>7. ASSUME NEW c \in IssueCalls, IssueStep(c)
      PROVE  TriageStep
  <2>1. CASE StartsIssueCall(c) \/ Checks(c) \/ RewritesComment(c) \/ RewritesLabel(c) \/ Collects(c) \/ FailsIssueCall(c)
    BY <1>1, <2>1 DEF StartsIssueCall, Checks, RewritesComment, RewritesLabel, Collects, FailsIssueCall, issueTables,
       TriageStep
  <2>2. CASE InsertsComment(c) \/ RemovesComment(c) \/ InsertsReview(c) \/ AsksReviewers(c) \/ Notifies(c)
    BY <1>1, <2>2 DEF InsertsComment, RemovesComment, InsertsReview, AsksReviewers, Notifies, TriageStep
  <2> QED BY <1>2, <1>3, <1>4, <1>5, <1>6, <1>7, <2>1, <2>2 DEF IssueStep
<1>8. ASSUME NEW p \in People, Marks(p) \/ SetsWatch(p)
      PROVE  TriageStep
  BY <1>1, <1>8 DEF Marks, SetsWatch, TriageStep
<1> QED BY <1>7, <1>8 DEF IssuesNext

\* Labels, assignees and locks change only for those whose permission was found.
THEOREM TriageWasPermitted == IssuesSpec => TriageIsPrivileged
<1>1. IssuesInv /\ [IssuesNext]_issuesVars => [TriageStep]_issuesVars
  BY OnlyTriagersTriage
<1> QED BY <1>1, IssuesInvHolds, PTL DEF IssuesSpec, TriageIsPrivileged, TriageStep

-----------------------------------------------------------------------------
(***************************************************************************)
(* Lists that are read page by page.  Precedes is a strict total order of  *)
(* the ids, either way.                                                    *)
(***************************************************************************)
LEMMA LeastNatural ==
  ASSUME NEW S \in SUBSET Nat, S # {}
  PROVE  \E i \in S : \A j \in S : i <= j
<1>1. PICK i \in S : \A j \in S : <<j, i>> \notin OpToRel(<, Nat)
  BY NatLessThanWellFounded, WFMin
<1>2. \A j \in S : ~(j < i)
  BY <1>1 DEF OpToRel
<1> QED BY <1>2

LEMMA FirstExists ==
  ASSUME NEW S \in SUBSET EntryId, S # {}
  PROVE  /\ \E i \in S : \A j \in S : ~Precedes(j, i)
         /\ \E i \in S : \A j \in S : ~Precedes(i, j)
<1> MaxEntries \in Nat
  BY FeedAssumption
<1> S \in SUBSET Nat /\ \A i \in S : i <= MaxEntries
  BY DEF EntryId
<1>1. PICK low \in S : \A j \in S : low <= j
  BY LeastNatural
<1> DEFINE Back == {k \in Nat : \E i \in S : k = MaxEntries - i}
<1>2. PICK k \in Back : \A j \in Back : k <= j
  <2>1. Back # {}
    <3>1. PICK i \in S : TRUE
      OBVIOUS
    <3>2. MaxEntries - i \in Back
      OBVIOUS
    <3> QED BY <3>2
  <2> QED BY <2>1, LeastNatural
<1>3. PICK high \in S : k = MaxEntries - high
  BY <1>2
<1>4. \A j \in S : j <= high
  <2> SUFFICES ASSUME NEW j \in S PROVE j <= high
    OBVIOUS
  <2>1. MaxEntries - j \in Back
    OBVIOUS
  <2>2. k <= MaxEntries - j
    BY <1>2, <2>1
  <2> HIDE DEF Back
  <2> QED BY <1>3, <2>2
<1> QED BY <1>1, <1>4 DEF Precedes

\* A row is among the first n when those before it are fewer.
LEMMA FirstFew ==
  ASSUME NEW S \in SUBSET EntryId, NEW n \in Nat
  PROVE  /\ FirstOf(S, n) \subseteq S
         /\ IsFiniteSet(S) /\ Cardinality(S) \in Nat
         /\ \A i \in S, T \in SUBSET EntryId :
              {j \in S : Precedes(j, i)} \subseteq T /\ Cardinality(T) < n => i \in FirstOf(S, n)
         /\ \A i \in FirstOf(S, n) : Cardinality({j \in S : Precedes(j, i)}) < n
<1> MaxEntries \in Nat
  BY FeedAssumption
<1>1. \A T \in SUBSET EntryId : IsFiniteSet(T) /\ Cardinality(T) \in Nat
  <2>1. IsFiniteSet(EntryId)
    BY FS_Interval DEF EntryId
  <2> QED BY <2>1, FS_Subset, FS_CardinalityType
<1>2. ASSUME NEW i \in S, NEW T \in SUBSET EntryId,
             {j \in S : Precedes(j, i)} \subseteq T, Cardinality(T) < n
      PROVE  i \in FirstOf(S, n)
  <2> DEFINE B == {j \in S : Precedes(j, i)}
  <2>1. B \in SUBSET EntryId
    OBVIOUS
  <2>2. Cardinality(B) <= Cardinality(T)
    BY <1>1, <1>2, FS_Subset
  <2>3. Cardinality(B) \in Nat /\ Cardinality(T) \in Nat
    BY <1>1, <2>1
  <2>4. Cardinality(B) < n
    <3> HIDE DEF B
    <3> QED BY <2>2, <2>3, <1>2
  <2> QED BY <2>4 DEF FirstOf
<1> QED BY <1>1, <1>2 DEF FirstOf

\* What FetchesPage takes: the last page is all there is, and any other ends in a
\* row that what is left comes after.
LEMMA PageIsFirst ==
  ASSUME NEW S \in SUBSET EntryId,
         NEW rows, rows = FirstOf(S, PageLimit + 1),
         NEW page, page = FirstOf(rows, PageLimit)
  PROVE  /\ page \subseteq S
         /\ ~(Cardinality(rows) > PageLimit) => page = S
         /\ Cardinality(rows) > PageLimit =>
              /\ LastOf(page) \in page
              /\ \A i \in page : ~Precedes(LastOf(page), i)
              /\ \A i \in S : i \in page \/ Precedes(LastOf(page), i)
<1> PageLimit \in Nat \ {0} /\ PageLimit + 1 \in Nat /\ MaxEntries \in Nat
  BY FeedAssumption
<1> EntryId \subseteq Nat
  BY DEF EntryId
<1>1. rows \subseteq S /\ rows \in SUBSET EntryId
  BY FirstFew
<1>2. page \subseteq rows /\ page \subseteq S /\ page \in SUBSET EntryId
  BY FirstFew, <1>1
<1>3. IsFiniteSet(rows) /\ Cardinality(rows) \in Nat
  BY FirstFew, <1>1
<1>4. ASSUME ~(Cardinality(rows) > PageLimit)
      PROVE  page = S
  <2>1. Cardinality(rows) < PageLimit + 1
    BY <1>3, <1>4
  <2>2. rows = S
    <3> SUFFICES ASSUME S \ rows # {} PROVE FALSE
      BY <1>1
    <3>1. PICK i \in S \ rows : \A j \in S \ rows : ~Precedes(j, i)
      BY FirstExists, S \ rows \in SUBSET EntryId
    <3>2. {j \in S : Precedes(j, i)} \subseteq rows
      BY <3>1
    <3>3. i \in FirstOf(S, PageLimit + 1)
      BY <3>1, <3>2, <2>1, <1>1, FirstFew
    <3> QED BY <3>1, <3>3
  <2>3. ASSUME NEW i \in rows
        PROVE  i \in page
    <3> DEFINE T == rows \ {i}
    <3>1. {j \in rows : Precedes(j, i)} \subseteq T
      BY <1>1 DEF Precedes
    <3>2. Cardinality(T) = Cardinality(rows) - 1
      BY <1>3, FS_RemoveElement
    <3>3. Cardinality(T) < PageLimit
      <4> HIDE DEF T
      <4> QED BY <3>2, <2>1, <1>3
    <3>4. T \in SUBSET EntryId
      BY <1>1
    <3> HIDE DEF T
    <3> QED BY <3>1, <3>3, <3>4, <1>1, FirstFew
  <2> QED BY <2>2, <2>3, <1>2
<1>5. ASSUME Cardinality(rows) > PageLimit
      PROVE  /\ LastOf(page) \in page
             /\ \A i \in page : ~Precedes(LastOf(page), i)
             /\ \A i \in S : i \in page \/ Precedes(LastOf(page), i)
  <2>1. page # {}
    <3>1. rows # {}
      BY <1>5, FS_EmptySet
    <3>2. PICK i \in rows : \A j \in rows : ~Precedes(j, i)
      BY <1>1, <3>1, FirstExists
    <3> DEFINE T == {j \in rows : Precedes(j, i)}
    <3>3. T = {} /\ Cardinality(T) = 0 /\ T \in SUBSET EntryId
      BY <3>2, FS_EmptySet
    <3> HIDE DEF T
    <3>4. {j \in rows : Precedes(j, i)} \subseteq T
      BY DEF T
    <3>5. Cardinality(T) < PageLimit
      BY <3>3
    <3>6. i \in page
      BY <3>2, <3>3, <3>4, <3>5, <1>1, FirstFew
    <3> QED BY <3>6
  <2> DEFINE c == LastOf(page)
  <2>2. c \in page /\ \A i \in page : ~Precedes(c, i)
    <3>1. \E i \in page : \A j \in page : ~Precedes(i, j)
      BY <2>1, <1>2, FirstExists
    <3> QED BY <3>1 DEF LastOf
  <2> HIDE DEF c
  <2>3. ASSUME NEW i \in S, i \notin page, ~Precedes(c, i)
        PROVE  FALSE
    <3>1. i # c /\ Precedes(i, c) /\ c \in rows /\ c \in S
      BY <2>2, <2>3, <1>2 DEF Precedes
    <3>2. \A j \in S : Precedes(j, i) => Precedes(j, c)
      BY <3>1, <1>1 DEF Precedes
    <3>3. i \in rows
      <4> DEFINE T == {j \in S : Precedes(j, c)}
      <4>1. Cardinality(T) < PageLimit + 1
        BY <3>1, FirstFew
      <4>2. {j \in S : Precedes(j, i)} \subseteq T /\ T \in SUBSET EntryId
        BY <3>2
      <4> HIDE DEF T
      <4> QED BY <4>1, <4>2, FirstFew
    <3>4. i \in page
      <4> DEFINE T == {j \in rows : Precedes(j, c)}
      <4>1. Cardinality(T) < PageLimit
        BY <2>2, <1>1, FirstFew
      <4>2. {j \in rows : Precedes(j, i)} \subseteq T /\ T \in SUBSET EntryId
        BY <3>2, <1>1
      <4> HIDE DEF T
      <4> QED BY <4>1, <4>2, <3>3, <1>1, FirstFew
    <3> QED BY <3>4, <2>3
  <2> QED BY <2>2, <2>3 DEF c
<1> QED BY <1>2, <1>4, <1>5

-----------------------------------------------------------------------------
(***************************************************************************)
(* The invariant of the feed.                                              *)
(***************************************************************************)
Poster == [at : {"idle", "loaded", "made"}, public : BOOLEAN, id : 0 .. MaxEntries]

\* An id that was made belongs to a row, to one task that is still to insert it, or
\* to nobody any more.
IdsInv ==
  /\ visibility \in {"public", "private"}
  /\ order \in {"newest", "oldest"}
  /\ nextEntry \in 1 .. MaxEntries + 1
  /\ DOMAIN entries \subseteq 1 .. nextEntry - 1
  /\ entries \in [DOMAIN entries -> BOOLEAN]
  /\ poster \in [Posters -> Poster]
  /\ \A p \in Posters : poster[p].at = "made" =>
       /\ poster[p].id \in (1 .. nextEntry - 1) \ DOMAIN entries
       /\ \A q \in Posters \ {p} : poster[q].at = "made" => poster[q].id # poster[p].id

\* What was seen is not behind the cursor, and a row that was there all the time
\* and was not seen is there still, behind it.
FollowInv ==
  /\ reader \in [at : {"idle", "reading", "done"}, admitted : BOOLEAN, cursor : 0 .. MaxEntries,
                 seen : SUBSET EntryId, twice : BOOLEAN, stable : SUBSET EntryId]
  /\ ~reader.twice
  /\ reader.at = "idle" => reader.cursor = 0 /\ reader.seen = {}
  /\ reader.at = "reading" =>
       /\ reader.cursor # 0
       /\ \A i \in reader.seen : ~Precedes(reader.cursor, i)
       /\ \A i \in reader.stable : i \in reader.seen \/ (Precedes(reader.cursor, i) /\ i \in VisibleEntries)
  /\ reader.at = "done" => reader.stable \subseteq reader.seen

FeedInv == IdsInv /\ FollowInv

LEMMA InitFeed ==
  ASSUME FeedInit
  PROVE  FeedInv
<1>1. PICK n \in 0 .. MaxEntries - 1 :
        nextEntry = n + 1 /\ entries = [i \in 1 .. n |-> visibility = "public"]
  BY DEF FeedInit
<1>2. nextEntry \in 1 .. MaxEntries + 1 /\ DOMAIN entries = 1 .. nextEntry - 1 /\ entries \in [DOMAIN entries -> BOOLEAN]
  BY <1>1, FeedAssumption
<1>3. poster \in [Posters -> Poster] /\ \A p \in Posters : poster[p].at = "idle"
  BY FeedAssumption DEF FeedInit, Poster, IdlePoster
<1>4. IdsInv
  BY <1>2, <1>3 DEF FeedInit, IdsInv
<1>5. /\ reader \in [at : {"idle"}, admitted : BOOLEAN, cursor : {0}, seen : {{}}, twice : {FALSE}, stable : {{}}]
      /\ 0 \in 0 .. MaxEntries /\ {} \in SUBSET EntryId
  <2>1. 0 \in 0 .. MaxEntries
    BY FeedAssumption
  <2>2. reader \in [at : {"idle"}, admitted : BOOLEAN, cursor : {0}, seen : {{}}, twice : {FALSE}, stable : {{}}]
    BY Zenon DEF FeedInit
  <2> QED BY <2>1, <2>2
<1>6. reader \in [at : {"idle", "reading", "done"}, admitted : BOOLEAN, cursor : 0 .. MaxEntries,
                 seen : SUBSET EntryId, twice : BOOLEAN, stable : SUBSET EntryId]
  BY <1>5
<1>7. reader.at = "idle" /\ reader.cursor = 0 /\ reader.seen = {} /\ ~reader.twice
  BY <1>5
<1>8. FollowInv
  BY <1>6, <1>7 DEF FollowInv
<1> QED BY <1>4, <1>8 DEF FeedInv

\* What a reader follows changes with the rows and its own requests only.
LEMMA FollowStays ==
  ASSUME FollowInv, UNCHANGED <<order, entries, reader>>
  PROVE  FollowInv'
BY DEF FollowInv, VisibleEntries, Visible, Precedes

LEMMA PosterMoves ==
  ASSUME FeedInv, NEW p \in Posters, NEW row \in Poster,
         poster' = [poster EXCEPT ![p] = row],
         row.at = "made" => FALSE,
         UNCHANGED <<visibility, order, nextEntry, entries, reader>>
  PROVE  FeedInv'
<1>1. poster' \in [Posters -> Poster] /\ \A q \in Posters : poster'[q] = IF q = p THEN row ELSE poster[q]
  BY DEF FeedInv, IdsInv
<1>2. IdsInv'
  BY <1>1 DEF FeedInv, IdsInv
<1> QED BY <1>2, FollowStays DEF FeedInv

LEMMA TogglesFeed ==
  ASSUME FeedInv, ChangesVisibility
  PROVE  FeedInv'
<1>1. IdsInv'
  BY DEF ChangesVisibility, FeedInv, IdsInv
<1> QED BY <1>1, FollowStays DEF ChangesVisibility, FeedInv

LEMMA LoadsFeed ==
  ASSUME FeedInv, NEW p \in Posters, Loads(p) \/ PosterFails(p)
  PROVE  FeedInv'
<1>1. IdlePoster \in Poster /\ [IdlePoster EXCEPT !.at = "loaded", !.public = visibility = "public"] \in Poster
  <2> DEFINE b == visibility = "public"
  <2>1. b \in BOOLEAN
    OBVIOUS
  <2> HIDE DEF b
  <2>2. IdlePoster \in Poster /\ [IdlePoster EXCEPT !.at = "loaded", !.public = b] \in Poster
    <3>1. 0 \in 0 .. MaxEntries
      BY FeedAssumption
    <3>2. IdlePoster \in Poster
      BY <3>1 DEF IdlePoster, Poster
    <3>3. \A r \in Poster : [r EXCEPT !.at = "loaded", !.public = b] \in Poster
      BY <2>1 DEF Poster
    <3> QED BY <3>2, <3>3
  <2> QED BY <2>2 DEF b
<1>2. IdlePoster.at = "idle" /\ [IdlePoster EXCEPT !.at = "loaded", !.public = visibility = "public"].at = "loaded"
  BY DEF IdlePoster
<1>3. CASE Loads(p)
  BY <1>1, <1>2, <1>3, PosterMoves DEF Loads
<1>4. CASE PosterFails(p)
  BY <1>1, <1>2, <1>4, PosterMoves DEF PosterFails
<1> QED BY <1>3, <1>4

LEMMA MakesFeed ==
  ASSUME FeedInv, NEW p \in Posters, MakesId(p)
  PROVE  FeedInv'
<1> USE FeedAssumption
<1>1. /\ nextEntry \in 1 .. MaxEntries /\ nextEntry' = nextEntry + 1
      /\ UNCHANGED <<visibility, order, entries, reader>>
      /\ poster \in [Posters -> Poster]
  BY DEF MakesId, FeedInv, IdsInv
<1>2. /\ poster'[p].at = "made" /\ poster'[p].id = nextEntry
      /\ \A q \in Posters \ {p} : poster'[q] = poster[q]
      /\ poster' \in [Posters -> Poster]
  <2>1. poster' = [poster EXCEPT ![p] = [poster[p] EXCEPT !.at = "made", !.id = nextEntry]]
    BY <1>1 DEF MakesId
  <2>2. poster[p] \in Poster /\ nextEntry \in 0 .. MaxEntries
    BY <1>1
  <2>3. [poster[p] EXCEPT !.at = "made", !.id = nextEntry] \in Poster
    BY <2>2 DEF Poster
  <2>4. poster'[p] = [poster[p] EXCEPT !.at = "made", !.id = nextEntry]
    BY <1>1, <2>1
  <2>5. poster'[p].at = "made" /\ poster'[p].id = nextEntry
    BY <2>2, <2>4 DEF Poster
  <2> QED BY <1>1, <2>1, <2>3, <2>5
<1>3. nextEntry \notin DOMAIN entries /\ \A q \in Posters : poster[q].at = "made" => poster[q].id # nextEntry
  BY <1>1 DEF FeedInv, IdsInv
<1>4. 1 .. nextEntry - 1 \subseteq 1 .. nextEntry' - 1 /\ nextEntry \in 1 .. nextEntry' - 1 /\ nextEntry' \in 1 .. MaxEntries + 1
  BY <1>1
<1>5. ASSUME NEW q \in Posters, poster'[q].at = "made"
      PROVE  /\ poster'[q].id \in (1 .. nextEntry' - 1) \ DOMAIN entries
             /\ \A r \in Posters \ {q} : poster'[r].at = "made" => poster'[r].id # poster'[q].id
  BY <1>2, <1>3, <1>4, <1>5 DEF FeedInv, IdsInv
<1>6. IdsInv'
  BY <1>1, <1>2, <1>4, <1>5 DEF FeedInv, IdsInv
<1> QED BY <1>1, <1>6, FollowStays DEF FeedInv

LEMMA RecordsFeed ==
  ASSUME FeedInv, NEW p \in Posters, Records(p)
  PROVE  FeedInv'
<1> USE FeedAssumption
<1> DEFINE id == poster[p].id
<1>1. /\ poster \in [Posters -> Poster] /\ poster[p].at = "made"
      /\ id \in (1 .. nextEntry - 1) \ DOMAIN entries
      /\ nextEntry \in 1 .. MaxEntries + 1
      /\ UNCHANGED <<visibility, order, nextEntry, reader>>
  BY DEF Records, FeedInv, IdsInv
<1>2. /\ poster' \in [Posters -> Poster]
      /\ \A q \in Posters : poster'[q] = IF q = p THEN IdlePoster ELSE poster[q]
      /\ IdlePoster.at = "idle"
  BY <1>1 DEF Records, IdlePoster, Poster
<1>3. DOMAIN entries' = DOMAIN entries \cup {id} /\ \A i \in DOMAIN entries : entries'[i] = entries[i]
  BY <1>1 DEF Records
<1>4. entries' \in [DOMAIN entries' -> BOOLEAN]
  <2>1. poster[p].public \in BOOLEAN
    BY <1>1 DEF Poster
  <2>2. \A i \in DOMAIN entries : entries[i] \in BOOLEAN
    BY DEF FeedInv, IdsInv
  <2>3. entries' = [i \in DOMAIN entries \cup {id} |-> IF i = id THEN poster[p].public ELSE entries[i]]
    BY DEF Records
  <2> HIDE DEF id
  <2>4. \A i \in DOMAIN entries \cup {id} : (IF i = id THEN poster[p].public ELSE entries[i]) \in BOOLEAN
    BY <2>1, <2>2
  <2>5. entries' \in [DOMAIN entries \cup {id} -> BOOLEAN]
    BY <2>3, <2>4
  <2> QED BY <2>5, <1>3
<1>5. IdsInv'
  <2>1. DOMAIN entries' \subseteq 1 .. nextEntry' - 1
    BY <1>1, <1>3 DEF FeedInv, IdsInv
  <2>2. ASSUME NEW q \in Posters, poster'[q].at = "made"
        PROVE  /\ poster'[q].id \in (1 .. nextEntry' - 1) \ DOMAIN entries'
               /\ \A r \in Posters \ {q} : poster'[r].at = "made" => poster'[r].id # poster'[q].id
    <3>1. q # p /\ poster'[q] = poster[q] /\ poster[q].at = "made" /\ poster[q].id # id
      BY <1>1, <1>2, <2>2 DEF FeedInv, IdsInv
    <3>2. poster[q].id \in (1 .. nextEntry - 1) \ DOMAIN entries
      BY <3>1 DEF FeedInv, IdsInv
    <3>3. \A r \in Posters \ {q} : poster'[r].at = "made" => poster[r].at = "made" /\ poster'[r] = poster[r]
      BY <1>2
    <3>4. \A r \in Posters \ {q} : poster[r].at = "made" => poster[r].id # poster[q].id
      BY <3>1 DEF FeedInv, IdsInv
    <3> HIDE DEF id
    <3> QED BY <3>1, <3>2, <3>3, <3>4, <1>1, <1>3
  <2> QED BY <1>1, <1>2, <1>4, <2>1, <2>2 DEF FeedInv, IdsInv
<1>6. VisibleEntries \subseteq VisibleEntries'
  BY <1>1, <1>3 DEF VisibleEntries, Visible
<1>7. FollowInv'
  BY <1>1, <1>6 DEF FeedInv, FollowInv, Precedes
<1> QED BY <1>5, <1>7 DEF FeedInv

LEMMA DropsFeed ==
  ASSUME FeedInv, NEW i \in DOMAIN entries, DropsEntry(i)
  PROVE  FeedInv'
<1>1. /\ UNCHANGED <<visibility, order, nextEntry, poster>>
      /\ DOMAIN entries' = DOMAIN entries \ {i} /\ \A j \in DOMAIN entries \ {i} : entries'[j] = entries[j]
      /\ entries' \in [DOMAIN entries' -> BOOLEAN]
  BY DEF DropsEntry, FeedInv, IdsInv
<1>2. IdsInv'
  BY <1>1 DEF FeedInv, IdsInv
<1>3. /\ reader'.at = reader.at /\ reader'.admitted = reader.admitted
      /\ reader'.cursor = reader.cursor /\ reader'.seen = reader.seen
      /\ reader'.twice = reader.twice /\ reader'.stable = reader.stable \ {i}
  BY DEF DropsEntry, FeedInv, FollowInv
<1>4. \A j \in VisibleEntries \ {i} : j \in VisibleEntries'
  BY <1>1, <1>3 DEF VisibleEntries, Visible
<1>5. reader' \in [at : {"idle", "reading", "done"}, admitted : BOOLEAN, cursor : 0 .. MaxEntries,
                   seen : SUBSET EntryId, twice : BOOLEAN, stable : SUBSET EntryId]
  BY DEF DropsEntry, FeedInv, FollowInv
<1>6. FollowInv'
  BY <1>1, <1>3, <1>4, <1>5 DEF FeedInv, FollowInv, Precedes
<1> QED BY <1>2, <1>6 DEF FeedInv

LEMMA FetchesFeed ==
  ASSUME FeedInv, FetchesPage
  PROVE  FeedInv'
<1> USE FeedAssumption
<1> DEFINE S == After(reader.cursor)
           rows == FirstOf(S, PageLimit + 1)
           page == FirstOf(rows, PageLimit)
           more == Cardinality(rows) > PageLimit
<1>1. /\ UNCHANGED <<visibility, order, nextEntry, entries, poster>>
      /\ VisibleEntries \subseteq EntryId /\ S \subseteq VisibleEntries
      /\ reader.cursor # 0 => \A i \in S : Precedes(reader.cursor, i)
  BY DEF FetchesPage, FeedInv, IdsInv, VisibleEntries, After, EntryId
<1>2. IdsInv'
  BY <1>1 DEF FeedInv, IdsInv
<1>3. /\ page \subseteq S
      /\ ~more => page = S
      /\ more => /\ LastOf(page) \in page
                 /\ \A i \in page : ~Precedes(LastOf(page), i)
                 /\ \A i \in S : i \in page \/ Precedes(LastOf(page), i)
  BY <1>1, PageIsFirst
<1>4. /\ reader'.at = IF more THEN "reading" ELSE "done"
      /\ reader'.cursor = IF more THEN LastOf(page) ELSE 0
      /\ reader'.seen = reader.seen \cup page
      /\ reader'.twice = (reader.twice \/ reader.seen \cap page # {})
      /\ reader'.stable = IF reader.at = "idle" THEN VisibleEntries ELSE reader.stable
      /\ reader'.admitted = reader.admitted
  BY DEF FetchesPage, FeedInv, FollowInv
<1>5. /\ reader.at \in {"idle", "reading"} /\ ~reader.twice
      /\ reader.cursor \in 0 .. MaxEntries
      /\ reader.seen \in SUBSET EntryId /\ reader.stable \in SUBSET EntryId
      /\ reader.at = "idle" => reader.cursor = 0 /\ reader.seen = {}
      /\ reader.at = "reading" =>
           /\ reader.cursor # 0
           /\ \A i \in reader.seen : ~Precedes(reader.cursor, i)
           /\ \A i \in reader.stable : i \in reader.seen \/ (Precedes(reader.cursor, i) /\ i \in VisibleEntries)
  BY DEF FetchesPage, FeedInv, FollowInv
<1>6. VisibleEntries' = VisibleEntries
  BY <1>1, <1>4 DEF VisibleEntries, Visible
<1>7. reader.at = "reading" => \A i \in VisibleEntries : Precedes(reader.cursor, i) => i \in S
  BY DEF After
<1>8. reader.at = "idle" => S = VisibleEntries
  BY <1>5 DEF After
<1>9. reader' \in [at : {"idle", "reading", "done"}, admitted : BOOLEAN, cursor : 0 .. MaxEntries,
                   seen : SUBSET EntryId, twice : BOOLEAN, stable : SUBSET EntryId]
  <2>1. page \in SUBSET EntryId
    BY <1>1, <1>3
  <2>2. more => LastOf(page) \in EntryId
    BY <1>3, <2>1
  <2>3. EntryId \subseteq 0 .. MaxEntries
    BY DEF EntryId
  <2>4. reader' = [reader EXCEPT
           !.at = IF more THEN "reading" ELSE "done",
           !.cursor = IF more THEN LastOf(page) ELSE 0,
           !.seen = @ \cup page,
           !.twice = @ \/ reader.seen \cap page # {},
           !.stable = IF reader.at = "idle" THEN VisibleEntries ELSE @]
    BY DEF FetchesPage
  <2> DEFINE met == reader.twice \/ reader.seen \cap page # {}
             at == IF more THEN "reading" ELSE "done"
             cursor == IF more THEN LastOf(page) ELSE 0
             seen == reader.seen \cup page
             stable == IF reader.at = "idle" THEN VisibleEntries ELSE reader.stable
  <2>5. at \in {"idle", "reading", "done"} /\ cursor \in 0 .. MaxEntries
    <3>1. 0 \in 0 .. MaxEntries
      OBVIOUS
    <3> HIDE DEF page, more
    <3> QED BY <2>2, <2>3, <3>1
  <2>6. met \in BOOLEAN
    OBVIOUS
  <2>7. seen \in SUBSET EntryId /\ stable \in SUBSET EntryId
    BY <2>1, <1>1, <1>5
  <2>8. reader' = [reader EXCEPT !.at = at, !.cursor = cursor, !.seen = seen, !.twice = met, !.stable = stable]
    <3> HIDE DEF page, more
    <3> QED BY <2>4 DEF FeedInv, FollowInv
  <2> HIDE DEF at, cursor, seen, met, stable
  <2> QED BY <2>5, <2>6, <2>7, <2>8 DEF FeedInv, FollowInv
<1> HIDE DEF S, rows, page, more
<1>10. reader.seen \cap page = {}
  BY <1>1, <1>3, <1>5
<1>11. \A i \in reader'.stable : i \in reader.seen \/ i \in S
  BY <1>4, <1>5, <1>7, <1>8
<1>12. CASE ~more
  <2>1. reader'.at = "done" /\ reader'.stable \subseteq reader'.seen /\ ~reader'.twice
    BY <1>12, <1>3, <1>4, <1>5, <1>10, <1>11
  <2> QED BY <2>1, <1>2, <1>9 DEF FeedInv, FollowInv
<1>13. CASE more
  <2> DEFINE c == LastOf(page)
  <2>1. reader'.at = "reading" /\ ~reader'.twice /\ reader'.cursor = c
    BY <1>13, <1>4, <1>5, <1>10
  <2>2. c \in page /\ c \in S /\ c \in EntryId
    BY <1>1, <1>3, <1>13
  <2>3. c \in Nat \ {0}
    BY <2>2 DEF EntryId
  <2> HIDE DEF c
  <2>4. \A i \in reader'.seen : ~Precedes(c, i)
    <3> SUFFICES ASSUME NEW i \in reader.seen PROVE ~Precedes(c, i)
      BY <1>3, <1>4, <1>13 DEF c
    <3>1. reader.at = "reading" /\ ~Precedes(reader.cursor, i) /\ Precedes(reader.cursor, c)
      BY <1>1, <1>5, <2>2
    <3>2. c \in Nat /\ i \in Nat /\ reader.cursor \in Nat
      BY <2>2, <1>5 DEF EntryId
    <3> QED BY <3>1, <3>2 DEF Precedes
  <2>5. \A i \in reader'.stable : i \in reader'.seen \/ (Precedes(c, i) /\ i \in VisibleEntries)
    BY <1>1, <1>3, <1>4, <1>11, <1>13 DEF c
  <2>6. FollowInv'
    BY <2>1, <2>3, <2>4, <2>5, <1>1, <1>6, <1>9 DEF FollowInv, Precedes
  <2> QED BY <2>6, <1>2 DEF FeedInv
<1> QED BY <1>12, <1>13

LEMMA FeedInvHolds == FeedSpec => []FeedInv
<1>1. ASSUME FeedInv, UNCHANGED feedVars
      PROVE  FeedInv'
  BY <1>1, FollowStays DEF feedVars, FeedInv, IdsInv
<1>2. FeedInv /\ [FeedNext]_feedVars => FeedInv'
  BY <1>1, TogglesFeed, LoadsFeed, MakesFeed, RecordsFeed, DropsFeed, FetchesFeed DEF FeedNext
<1> QED BY <1>2, InitFeed, PTL DEF FeedSpec

\* The rows of a list, the ids still to be inserted and what a reader holds have
\* their types for any bounds: no cursor names a row that was never there.
THEOREM FeedIsTyped == FeedSpec => []FeedTypeOK
<1>1. FeedInv => FeedTypeOK
  BY FeedAssumption DEF FeedInv, IdsInv, FollowInv, FeedTypeOK, Poster, EntryId
<1> QED BY <1>1, FeedInvHolds, PTL

\* listActivity, listIssues, listIssueComments: whoever follows the cursors sees what
\* stays there once, for any limit and however many rows are inserted or deleted.
THEOREM CursorsMissNothing == FeedSpec => []EachEntryOnce
<1>1. FeedInv => EachEntryOnce
  BY DEF FeedInv, FollowInv, EachEntryOnce
<1> QED BY <1>1, FeedInvHolds, PTL
=============================================================================
