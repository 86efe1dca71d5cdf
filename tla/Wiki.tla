-------------------------------- MODULE Wiki --------------------------------
(***************************************************************************)
(* The wiki of a repository: a flat tree of pages in a git storage of its  *)
(* own, made by the first edit.  writeWikiTree reads the head of its       *)
(* branch, applies one change to the tree it finds there, and pushes the   *)
(* commit against the head it read; edits of several isolates interleave   *)
(* between any two of these.                                               *)
(***************************************************************************)
EXTENDS Naturals, Sequences

CONSTANTS
  Pages,
  Texts,          \* what a page may hold
  Edits,          \* edits in progress at once
  MaxEdits        \* bound: edits started

Absent == "absent"
ASSUME WikiAssumption == MaxEdits \in Nat /\ Absent \notin Texts /\ Pages # {}

VARIABLES
  wikiStore,    \* whether Artifacts has the storage
  wikiLog,      \* its branch: the trees of its commits, each made on the one before
  edit,         \* Edits -> what the edit is to do, and where it stands
  wikiStarted

wikiVars == <<wikiStore, wikiLog, edit, wikiStarted>>

NoCommit == 0
Tip == Len(wikiLog)       \* commits are numbered; NoCommit while there is none
Unknown == MaxEdits + 2    \* a hash that is no commit's
Tree == [Pages -> Texts \cup {Absent}]
EmptyTree == [p \in Pages |-> Absent]
Edit == [at : {"idle", "find", "create", "read", "push"}, page : Pages, text : Texts \cup {Absent},
         expected : Nat, base : Nat, tree : Tree]
NoEdit == [at |-> "idle", page |-> CHOOSE p \in Pages : TRUE, text |-> Absent,
           expected |-> NoCommit, base |-> NoCommit, tree |-> EmptyTree]

WikiTypeOK ==
  /\ wikiStore \in {"none", "here"}
  /\ wikiLog \in Seq(Tree)
  /\ edit \in [Edits -> Edit]
  /\ wikiStarted \in 0 .. MaxEdits

\* A repository without a wiki, or with one of a page.
WikiInit ==
  /\ \/ wikiStore = "none" /\ wikiLog = <<>>
     \/ /\ wikiStore = "here"
        /\ \E page \in Pages, text \in Texts : wikiLog = <<[EmptyTree EXCEPT ![page] = text]>>
  /\ edit = [e \in Edits |-> NoEdit]
  /\ wikiStarted = 0

Current == IF Tip = NoCommit THEN EmptyTree ELSE wikiLog[Tip]
EditEnds(e) == edit' = [edit EXCEPT ![e] = NoEdit]

\* saveWikiPage with the hash the page was read with, or none; deleteWikiPage, which
\* never has one.
StartsEdit(e) ==
  /\ edit[e].at = "idle"
  /\ wikiStarted < MaxEdits
  /\ \E page \in Pages, text \in Texts \cup {Absent} :
       \E expected \in IF text = Absent THEN {NoCommit} ELSE {NoCommit, Unknown} \cup DOMAIN wikiLog :
         edit' = [edit EXCEPT ![e] = [NoEdit EXCEPT !.at = "find", !.page = page, !.text = text,
                                                    !.expected = expected]]
  /\ wikiStarted' = wikiStarted + 1
  /\ UNCHANGED <<wikiStore, wikiLog>>

FindsWiki(e) ==
  /\ edit[e].at = "find"
  /\ edit' = [edit EXCEPT ![e].at = IF wikiStore = "here" THEN "read" ELSE "create"]
  /\ UNCHANGED <<wikiStore, wikiLog, wikiStarted>>

\* Artifacts refuses a name in use: another first edit was faster.
CreatesWiki(e) ==
  /\ edit[e].at = "create"
  /\ IF wikiStore = "none" THEN edit' = [edit EXCEPT ![e].at = "read"] ELSE EditEnds(e)
  /\ wikiStore' = "here"
  /\ UNCHANGED <<wikiLog, wikiStarted>>

Conflicts(e) == edit[e].expected # NoCommit /\ Tip # NoCommit /\ Tip # edit[e].expected

MutantChanged(e) == [EmptyTree EXCEPT ![edit[e].page] = edit[e].text]

\* The tree of the head with one page changed.
Changed(e) == [Current EXCEPT ![edit[e].page] = edit[e].text]

\* The head is read once; a tree of a commit never changes, so that it may be read
\* in the same step.
ReadsHead(e) ==
  /\ edit[e].at = "read"
  /\ IF Conflicts(e) \/ Changed(e) = EmptyTree
     THEN EditEnds(e)
     ELSE edit' = [edit EXCEPT ![e].at = "push", ![e].base = Tip, ![e].tree = Changed(e)]
  /\ UNCHANGED <<wikiStore, wikiLog, wikiStarted>>

\* receive-pack moves the branch only from the commit it is told it is at.
Accepts(e) == Tip = edit[e].base

PushesEdit(e) ==
  /\ edit[e].at = "push"
  /\ wikiLog' = IF Accepts(e) THEN Append(wikiLog, edit[e].tree) ELSE wikiLog
  /\ EditEnds(e)
  /\ UNCHANGED <<wikiStore, wikiStarted>>

\* A call to Artifacts fails, or the isolate goes.
FailsEdit(e) ==
  /\ edit[e].at # "idle"
  /\ EditEnds(e)
  /\ UNCHANGED <<wikiStore, wikiLog, wikiStarted>>

WikiNext ==
  \E e \in Edits :
    \/ StartsEdit(e) \/ FindsWiki(e) \/ CreatesWiki(e) \/ ReadsHead(e) \/ PushesEdit(e)
    \/ FailsEdit(e)

WikiSpec == WikiInit /\ [][WikiNext]_wikiVars

-----------------------------------------------------------------------------
(***************************************************************************)
(* Properties.                                                             *)
(***************************************************************************)

EditAsked(e) == [by |-> e, page |-> edit[e].page, text |-> edit[e].text, seen |-> edit[e].expected]
EditsAsked == {EditAsked(e) : e \in {e \in Edits : edit[e].at # "idle"}}

Pages0 ==
  INSTANCE PageStore WITH
    versions <- wikiLog,
    asked <- EditsAsked,
    NoVersion <- NoCommit

\* Edits that race never undo one another.  Each takes effect at one instant, if it
\* does: the push of writeWikiTree changes one page of what is there at that moment,
\* though it was made from what was there at an earlier one; a hash its caller sent,
\* compared with that earlier one too, is that of the commit being replaced; the wiki
\* keeps a page; and no edit is made twice or after it was refused.
EditsAreAtomic == Pages0!Spec
=============================================================================
