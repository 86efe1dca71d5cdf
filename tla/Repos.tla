-------------------------------- MODULE Repos -------------------------------
(***************************************************************************)
(* Repositories of one owner: rows in D1 and git storage in Artifacts,     *)
(* which no transaction spans.  Handlers of services/repo.ts create,       *)
(* import, fork, rename and delete them; repo-status.ts finds out that an  *)
(* import or a fork has ended; handler.ts and git/http.ts let a push       *)
(* through to the storage of a repository.  An isolate may go between any  *)
(* two calls.                                                              *)
(*                                                                         *)
(* A storage and the row inserted for it share a number, which is how the  *)
(* model tells storages that had the same name one after the other apart;  *)
(* the code has only the name, which renaming a repository does not        *)
(* change.  Descriptions, visibility and the other settings are left out.  *)
(***************************************************************************)
EXTENDS Naturals, FiniteSets

CONSTANTS
  Names,         \* names of repositories, hence of storages
  Starrers,      \* users who star
  RepoCalls,     \* calls in progress at once
  MaxRepoCalls   \* bound: calls started

ASSUME ReposAssumption == IsFiniteSet(Starrers) /\ MaxRepoCalls \in Nat

VARIABLES
  rows,        \* repos: number -> row
  store,       \* Artifacts: name -> what is there, and its number
  made,        \* storages made so far
  collateral,  \* history: numbers of storages deleted for the row of another
  lost,        \* history: isolates gone between a star and its count
  repoCall,
  repoStarted

reposVars == <<rows, store, made, collateral, lost, repoCall, repoStarted>>

NoName == "none"
Number == 0 .. MaxRepoCalls + 1
RepoOps == {"createRepo", "importRepo", "forkRepo", "updateRepo", "deleteRepo", "getRepo", "setStar", "push"}
Row == [name : Names, storage : Names, status : {"ready", "importing", "forking"},
        parent : Number, stars : SUBSET Starrers, starCount : Nat, forks : Nat]
NoStorage == [state |-> "none", number |-> 0]
RepoCall == [op : RepoOps \cup {"none"}, name : Names \cup {NoName}, target : Names \cup {NoName},
             who : Starrers \cup {NoName}, at : {"idle", "check", "storage", "row", "count", "ask", "send"},
             row : Number, storage : Names \cup {NoName}, number : Number]
NoRepoCall == [op |-> "none", name |-> NoName, target |-> NoName, who |-> NoName, at |-> "idle",
               row |-> 0, storage |-> NoName, number |-> 0]

ReposTypeOK ==
  /\ DOMAIN rows \subseteq Number \ {0}
  /\ rows \in [DOMAIN rows -> Row]
  /\ store \in [Names -> [state : {"none", "working", "ready"}, number : Number]]
  /\ made \in Number
  /\ collateral \subseteq Number
  /\ lost \in BOOLEAN
  /\ repoCall \in [RepoCalls -> RepoCall]
  /\ repoStarted \in 0 .. MaxRepoCalls

NewRow(name, status, parent) ==
  [name |-> name, storage |-> name, status |-> status, parent |-> parent,
   stars |-> {}, starCount |-> 0, forks |-> 0]

\* One repository, ready to use.
ReposInit ==
  /\ \E n \in Names :
       /\ rows = [i \in {1} |-> NewRow(n, "ready", 0)]
       /\ store = [m \in Names |-> IF m = n THEN [state |-> "ready", number |-> 1] ELSE NoStorage]
  /\ made = 1
  /\ collateral = {}
  /\ lost = FALSE
  /\ repoCall = [c \in RepoCalls |-> NoRepoCall]
  /\ repoStarted = 0

Taken(name) == \E i \in DOMAIN rows : rows[i].name = name
Without(i) == [j \in DOMAIN rows \ {i} |-> rows[j]]
RepoCallEnds(c) == repoCall' = [repoCall EXCEPT ![c] = NoRepoCall]
RepoCallGoesTo(c, at) == repoCall' = [repoCall EXCEPT ![c].at = at]

-----------------------------------------------------------------------------
(***************************************************************************)
(* The calls.                                                              *)
(***************************************************************************)

MutantFirstStep(op) ==
  CASE op = "deleteRepo" -> "storage"
    [] op \in {"getRepo", "push"} -> "ask"
    [] op = "setStar" -> "row"
    [] OTHER -> "check"

\* A deletion begins with the row.
FirstStep(op) ==
  CASE op = "deleteRepo" -> "row"
    [] op \in {"getRepo", "push"} -> "ask"
    [] op = "setStar" -> "row"
    [] OTHER -> "check"

\* findRepoForViewer or requireRepo finds the row of that name, if the operation
\* is about one; what it finds is used to the end.  A push to a row that is ready
\* asks Artifacts nothing.
StartsRepoCall(c) ==
  /\ repoCall[c].at = "idle"
  /\ repoStarted < MaxRepoCalls
  /\ \/ \E op \in {"createRepo", "importRepo"}, n \in Names :
          repoCall' = [repoCall EXCEPT ![c] =
            [NoRepoCall EXCEPT !.op = op, !.target = n, !.at = "check"]]
     \/ \E op \in RepoOps \ {"createRepo", "importRepo"}, i \in DOMAIN rows :
          \E t \in IF op \in {"forkRepo", "updateRepo"} THEN Names \ {rows[i].name} ELSE {NoName},
             who \in IF op = "setStar" THEN Starrers ELSE {NoName} :
            repoCall' = [repoCall EXCEPT ![c] =
              [NoRepoCall EXCEPT !.op = op, !.name = rows[i].name, !.target = t, !.who = who, !.row = i,
                 !.storage = rows[i].storage,
                 !.at = IF op = "push" /\ rows[i].status = "ready" THEN "send" ELSE FirstStep(op)]]
  /\ repoStarted' = repoStarted + 1
  /\ UNCHANGED <<rows, store, made, collateral, lost>>

\* assertRepoAvailable.
ChecksName(c) ==
  /\ repoCall[c].at = "check"
  /\ IF Taken(repoCall[c].target) THEN RepoCallEnds(c)
     ELSE RepoCallGoesTo(c, IF repoCall[c].op = "updateRepo" THEN "row" ELSE "storage")
  /\ UNCHANGED <<rows, store, made, collateral, lost, repoStarted>>

\* A name in use is refused; a fork needs its source, and all of it.
MakesStorage(c) ==
  /\ repoCall[c].at = "storage"
  /\ repoCall[c].op \in {"createRepo", "importRepo", "forkRepo"}
  /\ LET n == repoCall[c].target IN
       IF \/ store[n].state # "none"
          \/ repoCall[c].op = "forkRepo" /\ store[repoCall[c].storage].state # "ready"
       THEN RepoCallEnds(c) /\ UNCHANGED <<store, made>>
       ELSE /\ made' = made + 1
            /\ store' = [store EXCEPT ![n] =
                 [state |-> IF repoCall[c].op = "createRepo" THEN "ready" ELSE "working", number |-> made + 1]]
            /\ repoCall' = [repoCall EXCEPT ![c].at = "row", ![c].number = made + 1]
  /\ UNCHANGED <<rows, collateral, lost, repoStarted>>

\* insertRepo; names of rows and of their storages are unique, and the parent of a
\* fork must be there.  A failure leaves the storage behind.
InsertsRow(c) ==
  /\ repoCall[c].at = "row"
  /\ repoCall[c].op \in {"createRepo", "importRepo", "forkRepo"}
  /\ LET n == repoCall[c].target
         status == CASE repoCall[c].op = "createRepo" -> "ready"
                     [] repoCall[c].op = "importRepo" -> "importing"
                     [] OTHER -> "forking"
         parent == repoCall[c].row
     IN  IF \/ Taken(n)
            \/ \E i \in DOMAIN rows : rows[i].storage = n
            \/ parent # 0 /\ parent \notin DOMAIN rows
         THEN RepoCallEnds(c) /\ UNCHANGED rows
         ELSE /\ rows' = [i \in DOMAIN rows \cup {repoCall[c].number} |->
                   IF i = repoCall[c].number THEN NewRow(n, status, parent) ELSE rows[i]]
              /\ IF parent # 0 THEN RepoCallGoesTo(c, "count") ELSE RepoCallEnds(c)
  /\ UNCHANGED <<store, made, collateral, lost, repoStarted>>

\* fork_count, which nobody waits for.
CountsFork(c) ==
  /\ repoCall[c].at = "count"
  /\ repoCall[c].op = "forkRepo"
  /\ rows' = [i \in DOMAIN rows |-> IF i = repoCall[c].row THEN [rows[i] EXCEPT !.forks = @ + 1] ELSE rows[i]]
  /\ RepoCallEnds(c)
  /\ UNCHANGED <<store, made, collateral, lost, repoStarted>>

\* updateRepo: the name of the row, not that of the storage; it is still unique.
RenamesRow(c) ==
  /\ repoCall[c].at = "row"
  /\ repoCall[c].op = "updateRepo"
  /\ rows' = IF Taken(repoCall[c].target) THEN rows
             ELSE [i \in DOMAIN rows |->
                     IF i = repoCall[c].row THEN [rows[i] EXCEPT !.name = repoCall[c].target] ELSE rows[i]]
  /\ RepoCallEnds(c)
  /\ UNCHANGED <<store, made, collateral, lost, repoStarted>>

\* The row, whether or not it is still there; forks stay, without their parent.
DeletesRow(c) ==
  /\ repoCall[c].at = "row"
  /\ repoCall[c].op = "deleteRepo"
  /\ rows' = [i \in DOMAIN rows \ {repoCall[c].row} |->
                IF rows[i].parent = repoCall[c].row THEN [rows[i] EXCEPT !.parent = 0] ELSE rows[i]]
  /\ RepoCallGoesTo(c, "storage")
  /\ UNCHANGED <<store, made, collateral, lost, repoStarted>>

\* Then the storage, whatever has that name now.
DeletesStorage(c) ==
  /\ repoCall[c].at = "storage"
  /\ repoCall[c].op = "deleteRepo"
  /\ LET n == repoCall[c].storage IN
       /\ store' = [store EXCEPT ![n] = NoStorage]
       /\ collateral' = IF store[n].number \in {0, repoCall[c].row} THEN collateral
                        ELSE collateral \cup {store[n].number}
  /\ RepoCallEnds(c)
  /\ UNCHANGED <<rows, made, lost, repoStarted>>

\* reconcileRepoStatus asks for the storage of a row that is not ready.
AsksStorage(c) ==
  /\ repoCall[c].at = "ask"
  /\ IF store[repoCall[c].storage].state = "ready" THEN RepoCallGoesTo(c, "row") ELSE RepoCallEnds(c)
  /\ UNCHANGED <<rows, store, made, collateral, lost, repoStarted>>

MarksReady(c) ==
  /\ repoCall[c].at = "row"
  /\ repoCall[c].op \in {"getRepo", "push"}
  /\ rows' = [i \in DOMAIN rows |-> IF i = repoCall[c].row THEN [rows[i] EXCEPT !.status = "ready"] ELSE rows[i]]
  /\ IF repoCall[c].op = "push" THEN RepoCallGoesTo(c, "send") ELSE RepoCallEnds(c)
  /\ UNCHANGED <<store, made, collateral, lost, repoStarted>>

\* A token for the storage of that name, and the push through to it.
Pushes(c) ==
  /\ repoCall[c].at = "send"
  /\ IF store[repoCall[c].storage].state = "ready"
     THEN repoCall' = [repoCall EXCEPT ![c].number = store[repoCall[c].storage].number, ![c].at = "count"]
     ELSE RepoCallEnds(c)
  /\ UNCHANGED <<rows, store, made, collateral, lost, repoStarted>>

\* recordPush finds the row by its storage; pushed_at is left out.
RecordsPush(c) ==
  /\ repoCall[c].at = "count"
  /\ repoCall[c].op = "push"
  /\ RepoCallEnds(c)
  /\ UNCHANGED <<rows, store, made, collateral, lost, repoStarted>>

\* A star, or no star any more; the count is another statement.
Stars(c) ==
  /\ repoCall[c].at = "row"
  /\ repoCall[c].op = "setStar"
  /\ IF repoCall[c].row \in DOMAIN rows
     THEN /\ \E stars \in {rows[repoCall[c].row].stars \cup {repoCall[c].who},
                           rows[repoCall[c].row].stars \ {repoCall[c].who}} :
               rows' = [rows EXCEPT ![repoCall[c].row].stars = stars]
          /\ RepoCallGoesTo(c, "count")
     ELSE RepoCallEnds(c) /\ UNCHANGED rows
  /\ UNCHANGED <<store, made, collateral, lost, repoStarted>>

CountsStars(c) ==
  /\ repoCall[c].at = "count"
  /\ repoCall[c].op = "setStar"
  /\ rows' = [i \in DOMAIN rows |->
       IF i = repoCall[c].row THEN [rows[i] EXCEPT !.starCount = Cardinality(rows[i].stars)] ELSE rows[i]]
  /\ RepoCallEnds(c)
  /\ UNCHANGED <<store, made, collateral, lost, repoStarted>>

\* The isolate goes, or a call fails.
FailsRepoCall(c) ==
  /\ repoCall[c].at # "idle"
  /\ lost' = (lost \/ (repoCall[c].op = "setStar" /\ repoCall[c].at = "count"))
  /\ RepoCallEnds(c)
  /\ UNCHANGED <<rows, store, made, collateral, repoStarted>>

\* Artifacts ends an import or a fork.
Settles(n) ==
  /\ store[n].state = "working"
  /\ store' = [store EXCEPT ![n].state = "ready"]
  /\ UNCHANGED <<rows, made, collateral, lost, repoCall, repoStarted>>

RepoStep(c) ==
  \/ StartsRepoCall(c) \/ ChecksName(c) \/ MakesStorage(c) \/ InsertsRow(c) \/ CountsFork(c)
  \/ RenamesRow(c) \/ DeletesRow(c) \/ DeletesStorage(c)
  \/ AsksStorage(c) \/ MarksReady(c) \/ Pushes(c) \/ RecordsPush(c)
  \/ Stars(c) \/ CountsStars(c) \/ FailsRepoCall(c)

ReposNext ==
  \/ \E c \in RepoCalls : RepoStep(c)
  \/ \E n \in Names : Settles(n)

ReposSpec == ReposInit /\ [][ReposNext]_reposVars

-----------------------------------------------------------------------------
(***************************************************************************)
(* Properties.                                                             *)
(***************************************************************************)

\* services/repo.ts:320 deletes the row first, so that no row is left whose storage
\* is gone: a row has the storage that was made for it, and all of it when the row
\* is ready, unless a deletion of another row took it (two deletions of one
\* repository, and a new one of its name before the second is through).
RowsHaveTheirStorage ==
  \A i \in DOMAIN rows \ collateral :
    /\ store[rows[i].storage].number = i
    /\ rows[i].status = "ready" => store[rows[i].storage].state = "ready"

\* A push goes to the storage of the row it was authorised on, or of nothing that
\* was there then: another storage of that name means that the row is gone, or
\* that its storage was taken from it.
PushesLandWhereAuthorised ==
  \A c \in RepoCalls :
    repoCall[c].op = "push" /\ repoCall[c].at = "count" /\ repoCall[c].number # repoCall[c].row =>
      repoCall[c].row \notin DOMAIN rows \/ repoCall[c].row \in collateral

\* The count of stars is right whenever nobody is between a star and its count, and
\* no isolate went there.
StarsAreCounted ==
  ~lost =>
    \A i \in DOMAIN rows :
      \/ rows[i].starCount = Cardinality(rows[i].stars)
      \/ \E c \in RepoCalls :
           repoCall[c].op = "setStar" /\ repoCall[c].at = "count" /\ repoCall[c].row = i

ReposHold == RowsHaveTheirStorage /\ PushesLandWhereAuthorised /\ StarsAreCounted
=============================================================================
