------------------------------ MODULE PageStore ------------------------------
(***************************************************************************)
(* What the wiki promises its editors, with no storage, clone, commit or   *)
(* push in sight: an edit takes effect at one instant between its call and *)
(* its answer, on the version that is the latest at that instant, or not   *)
(* at all.                                                                 *)
(***************************************************************************)
EXTENDS Naturals, Sequences

CONSTANTS
  Pages,
  Absent,      \* the text of a page that is not there
  NoVersion    \* what a request has seen that says nothing of it

VARIABLES
  versions,    \* the trees of pages there have been, each made from the one before
  asked        \* the requests that are not answered: by whom, page, text, version seen

vars == <<versions, asked>>

Blank == [p \in Pages |-> Absent]
Latest == IF versions = <<>> THEN Blank ELSE versions[Len(versions)]
Edited(r) == [Latest EXCEPT ![r.page] = r.text]

Init == asked = {}

Ask ==
  \E r \in asked' :
    /\ r.page \in Pages
    /\ \A q \in asked : q.by # r.by
    /\ asked' = asked \cup {r}
    /\ UNCHANGED versions

\* Who has seen a version edits that version; and a wiki keeps a page.
Save(r) ==
  /\ versions # <<>> => r.seen \in {NoVersion, Len(versions)}
  /\ Edited(r) # Blank
  /\ versions' = Append(versions, Edited(r))
  /\ asked' = asked \ {r}

Refuse(r) ==
  /\ asked' = asked \ {r}
  /\ UNCHANGED versions

Next == Ask \/ \E r \in asked : Save(r) \/ Refuse(r)

Spec == Init /\ [][Next]_vars
=============================================================================
