-------------------------- MODULE RepositoryProofs --------------------------
(***************************************************************************)
(* What belongs to a repository: the storage its row names and the stars   *)
(* counted in it, the pages of its wiki, and its releases.  Each part has  *)
(* its own variables and its own specification, and is proved by itself.   *)
(***************************************************************************)
EXTENDS Repos, Wiki, Releases, FiniteSetTheorems, TLAPS

-----------------------------------------------------------------------------
(***************************************************************************)
(* Repositories: the inductive invariant.                                  *)
(***************************************************************************)
Makes == {"createRepo", "importRepo", "forkRepo"}
OfARow == {"forkRepo", "updateRepo", "deleteRepo", "getRepo", "setStar", "push"}

RowShape ==
  [name : Names, storage : Names, status : {"ready", "importing", "forking"},
   parent : Nat, stars : SUBSET Starrers, starCount : Nat, forks : Nat]
CallShape ==
  [op : RepoOps \cup {"none"}, name : Names \cup {NoName}, target : Names \cup {NoName},
   who : Starrers \cup {NoName}, at : {"idle", "check", "storage", "row", "count", "ask", "send"},
   row : Nat, storage : Names \cup {NoName}, number : Nat]

\* A storage was made, and its row is still to be inserted.
Waits(r) == r.at = "row" /\ r.op \in Makes

\* Numbers are given to storages once; a row and what is to be one have theirs,
\* unless it was taken from them.
StoreInv ==
  /\ made \in Nat
  /\ DOMAIN rows \subseteq 1 .. made
  /\ rows \in [DOMAIN rows -> RowShape]
  /\ store \in [Names -> [state : {"none", "working", "ready"}, number : Nat]]
  /\ \A n \in Names : store[n].number <= made /\ (store[n].state = "none" => store[n].number = 0)
  /\ RowsHaveTheirStorage

\* What a call may hold.
CallOK(r) ==
  /\ r \in CallShape
  /\ r.row <= made
  /\ r.at = "check" => r.op \in Makes \cup {"updateRepo"}
  /\ r.at = "ask" => r.op \in {"getRepo", "push"}
  /\ r.at = "send" => r.op = "push"
  /\ r.op \in OfARow => r.storage \in Names /\ r.row # 0
  /\ r.op \in Makes \cup {"updateRepo"} => r.target \in Names
  /\ r.op = "setStar" => r.who \in Starrers
  /\ r.row \in DOMAIN rows => rows[r.row].storage = r.storage
  /\ r.op = "deleteRepo" /\ r.at = "storage" => r.row \notin DOMAIN rows
  /\ r.op \in {"getRepo", "push"} /\ r.at = "row" /\ r.row \in DOMAIN rows \ collateral =>
       store[r.storage].state = "ready"
  /\ r.op = "push" /\ r.at = "count" /\ r.number # r.row =>
       r.row \notin DOMAIN rows \/ r.row \in collateral
  /\ Waits(r) =>
       /\ r.number \in (1 .. made) \ DOMAIN rows
       /\ \/ r.number \in collateral
          \/ /\ store[r.target].number = r.number
             /\ r.op = "createRepo" => store[r.target].state = "ready"

CallsInv == repoCall = [c \in RepoCalls |-> repoCall[c]] /\ \A c \in RepoCalls : CallOK(repoCall[c])

\* Nobody else has the number of a row that is to be.
ApartInv ==
  \A c, d \in RepoCalls : Waits(repoCall[c]) =>
    /\ repoCall[d].row # repoCall[c].number
    /\ Waits(repoCall[d]) /\ repoCall[d].number = repoCall[c].number => d = c

RepoInv == StoreInv /\ CallsInv /\ ApartInv /\ StarsAreCounted

-----------------------------------------------------------------------------
LEMMA InitRepo ==
  ASSUME ReposInit
  PROVE  RepoInv
<1>1. PICK n \in Names :
        /\ rows = [i \in {1} |-> NewRow(n, "ready", 0)]
        /\ store = [m \in Names |-> IF m = n THEN [state |-> "ready", number |-> 1] ELSE NoStorage]
  BY DEF ReposInit
<1>2. DOMAIN rows = {1} /\ rows[1] = NewRow(n, "ready", 0)
  BY <1>1
<1>3. NewRow(n, "ready", 0) \in RowShape
  BY DEF NewRow, RowShape
<1>4. StoreInv
  BY <1>1, <1>2, <1>3 DEF ReposInit, StoreInv, RowsHaveTheirStorage, NoStorage, NewRow
<1>5. NoRepoCall \in CallShape
  BY DEF NoRepoCall, CallShape
<1>6. CallOK(NoRepoCall)
  BY <1>2, <1>5 DEF ReposInit, CallOK, NoRepoCall, OfARow, Makes, Waits
<1>7. CallsInv
  BY <1>6 DEF ReposInit, CallsInv
<1>8. ApartInv
  BY DEF ReposInit, ApartInv, Waits, NoRepoCall
<1>9. Cardinality({}) = 0
  BY FS_EmptySet
<1>10. StarsAreCounted
  BY <1>2, <1>9 DEF StarsAreCounted, NewRow
<1> QED BY <1>4, <1>7, <1>8, <1>10 DEF RepoInv

\* A call moves on where it stands.
LEMMA CallMoves ==
  ASSUME CallsInv, ApartInv, NEW c \in RepoCalls, NEW r, CallOK(r),
         repoCall' = [repoCall EXCEPT ![c] = r],
         Waits(r) => Waits(repoCall[c]) /\ r.number = repoCall[c].number,
         r.row = repoCall[c].row \/ r.row = 0 \/ r.row \in DOMAIN rows,
         UNCHANGED <<rows, store, made, collateral>>
  PROVE  CallsInv' /\ ApartInv'
<1>1. repoCall'[c] = r /\ \A d \in RepoCalls : d # c => repoCall'[d] = repoCall[d]
  BY DEF CallsInv
<1>2. \A d \in RepoCalls : CallOK(repoCall'[d])
  BY <1>1 DEF CallsInv
<1>3. CallsInv'
  BY <1>2, SMTT(30) DEF CallsInv, CallOK, Waits
<1>4. \A d \in RepoCalls : Waits(repoCall[d]) => repoCall[d].number \in (1 .. made) \ DOMAIN rows
  BY DEF CallsInv, CallOK
<1>5. \A d \in RepoCalls : Waits(repoCall'[d]) =>
        Waits(repoCall[d]) /\ repoCall'[d].number = repoCall[d].number
  BY <1>1
<1>6. \A d \in RepoCalls : repoCall'[d].row = repoCall[d].row \/ repoCall'[d].row = 0
                           \/ repoCall'[d].row \in DOMAIN rows
  BY <1>1
<1>7. ApartInv'
  <2> SUFFICES ASSUME NEW e \in RepoCalls, NEW d \in RepoCalls, Waits(repoCall'[e])
               PROVE  /\ repoCall'[d].row # repoCall'[e].number
                      /\ Waits(repoCall'[d]) /\ repoCall'[d].number = repoCall'[e].number => d = e
    BY DEF ApartInv, Waits
  <2>1. Waits(repoCall[e]) /\ repoCall'[e].number = repoCall[e].number
    BY <1>5
  <2>2. repoCall[e].number # 0 /\ repoCall[e].number \notin DOMAIN rows
    BY <1>4, <2>1
  <2>3. repoCall'[d].row # repoCall'[e].number
    BY <1>6, <2>1, <2>2 DEF ApartInv
  <2>4. Waits(repoCall'[d]) /\ repoCall'[d].number = repoCall'[e].number => d = e
    BY <1>5, <2>1 DEF ApartInv
  <2> QED BY <2>3, <2>4
<1> QED BY <1>3, <1>7

LEMMA EndedIsOK ==
  ASSUME StoreInv
  PROVE  CallOK(NoRepoCall)
<1>1. NoRepoCall \in CallShape
  BY DEF NoRepoCall, CallShape
<1>2. 0 \notin DOMAIN rows /\ 0 <= made
  BY DEF StoreInv
<1> QED BY <1>1, <1>2 DEF CallOK, NoRepoCall, OfARow, Makes, Waits

\* Nothing the stars look at changes, and who counts goes on counting.
LEMMA StarsStay ==
  ASSUME StarsAreCounted,
         lost' = lost, DOMAIN rows' \subseteq DOMAIN rows,
         \A i \in DOMAIN rows' : rows'[i].stars = rows[i].stars /\ rows'[i].starCount = rows[i].starCount,
         \A c \in RepoCalls : repoCall[c].op = "setStar" /\ repoCall[c].at = "count" =>
           repoCall'[c] = repoCall[c]
  PROVE  StarsAreCounted'
<1> SUFFICES ASSUME ~lost, NEW i \in DOMAIN rows',
                    rows[i].starCount # Cardinality(rows[i].stars)
             PROVE  \E c \in RepoCalls :
                      repoCall'[c].op = "setStar" /\ repoCall'[c].at = "count" /\ repoCall'[c].row = i
  BY DEF StarsAreCounted
<1>1. PICK c \in RepoCalls :
        repoCall[c].op = "setStar" /\ repoCall[c].at = "count" /\ repoCall[c].row = i
  BY DEF StarsAreCounted
<1> QED BY <1>1

\* A call moves on and changes nothing.
LEMMA QuietCall ==
  ASSUME RepoInv, NEW c \in RepoCalls, NEW r, CallOK(r),
         repoCall' = [repoCall EXCEPT ![c] = r],
         ~(repoCall[c].op = "setStar" /\ repoCall[c].at = "count"),
         Waits(r) => Waits(repoCall[c]) /\ r.number = repoCall[c].number,
         r.row = repoCall[c].row \/ r.row = 0 \/ r.row \in DOMAIN rows,
         UNCHANGED <<rows, store, made, collateral, lost>>
  PROVE  RepoInv'
<1>1. CallsInv' /\ ApartInv'
  BY CallMoves DEF RepoInv
<1>2. StoreInv'
  BY DEF RepoInv, StoreInv, RowsHaveTheirStorage
<1>3. \A d \in RepoCalls : d # c => repoCall'[d] = repoCall[d]
  BY DEF RepoInv, CallsInv
<1>4. StarsAreCounted'
  BY <1>3, StarsStay DEF RepoInv
<1> QED BY <1>1, <1>2, <1>4 DEF RepoInv

LEMMA StartsRepo ==
  ASSUME RepoInv, NEW c \in RepoCalls, StartsRepoCall(c)
  PROVE  RepoInv'
<1>a. /\ repoCall[c].at = "idle"
      /\ UNCHANGED <<rows, store, made, collateral, lost>>
      /\ StoreInv
  BY DEF StartsRepoCall, RepoInv
<1>1. CASE \E op \in {"createRepo", "importRepo"}, n \in Names :
             repoCall' = [repoCall EXCEPT ![c] =
               [NoRepoCall EXCEPT !.op = op, !.target = n, !.at = "check"]]
  <2>1. PICK op \in {"createRepo", "importRepo"}, n \in Names :
          repoCall' = [repoCall EXCEPT ![c] = [NoRepoCall EXCEPT !.op = op, !.target = n, !.at = "check"]]
    BY <1>1
  <2>2. PICK r : r = [NoRepoCall EXCEPT !.op = op, !.target = n, !.at = "check"]
    OBVIOUS
  <2>3. r \in CallShape /\ r.op = op /\ r.at = "check" /\ r.row = 0 /\ r.target = n
    BY <2>2 DEF NoRepoCall, CallShape, RepoOps
  <2>4. CallOK(r) /\ ~Waits(r)
    BY <1>a, <2>3 DEF CallOK, OfARow, Makes, Waits, StoreInv
  <2> QED BY <1>a, <2>1, <2>2, <2>3, <2>4, QuietCall
<1>2. CASE ~\E op \in {"createRepo", "importRepo"}, n \in Names :
             repoCall' = [repoCall EXCEPT ![c] =
               [NoRepoCall EXCEPT !.op = op, !.target = n, !.at = "check"]]
  <2>1. PICK op \in RepoOps \ {"createRepo", "importRepo"}, i \in DOMAIN rows,
             t \in Names \cup {NoName}, who \in Starrers \cup {NoName} :
          /\ op = "forkRepo" => t \in Names
          /\ op = "updateRepo" => t \in Names
          /\ op = "setStar" => who \in Starrers
          /\ repoCall' = [repoCall EXCEPT ![c] =
              [NoRepoCall EXCEPT !.op = op, !.name = rows[i].name, !.target = t, !.who = who, !.row = i,
                 !.storage = rows[i].storage,
                 !.at = IF op = "push" /\ rows[i].status = "ready" THEN "send" ELSE FirstStep(op)]]
    BY <1>2, ZenonT(30) DEF StartsRepoCall
  <2>2. PICK r : r = [NoRepoCall EXCEPT !.op = op, !.name = rows[i].name, !.target = t, !.who = who, !.row = i,
                 !.storage = rows[i].storage,
                 !.at = IF op = "push" /\ rows[i].status = "ready" THEN "send" ELSE FirstStep(op)]
    OBVIOUS
  <2>3. rows[i] \in RowShape /\ i \in 1 .. made /\ i \in Nat
    BY <1>a DEF StoreInv
  <2>4. rows[i].name \in Names /\ rows[i].storage \in Names
    BY <2>3 DEF RowShape
  <2>5. /\ r.op = op /\ r.row = i /\ r.storage = rows[i].storage /\ r.target = t /\ r.who = who
        /\ r.at = IF op = "push" /\ rows[i].status = "ready" THEN "send" ELSE FirstStep(op)
    BY <2>2 DEF NoRepoCall
  <2>6. r.at \in {"row", "ask", "check", "send"} /\ (r.at = "row" => op \in {"deleteRepo", "setStar"})
       /\ (r.at = "check" => op \in {"forkRepo", "updateRepo"})
       /\ (r.at = "ask" => op \in {"getRepo", "push"}) /\ (r.at = "send" => op = "push")
    BY <2>5 DEF FirstStep, RepoOps
  <2>7. r \in CallShape
    BY <2>2, <2>3, <2>4, <2>6, <2>5 DEF NoRepoCall, CallShape
  <2>8. CallOK(r) /\ ~Waits(r)
    BY <2>1, <2>3, <2>4, <2>5, <2>6, <2>7 DEF CallOK, OfARow, Makes, Waits, RepoOps
  <2> QED BY <1>a, <2>1, <2>2, <2>5, <2>8, QuietCall
<1> QED BY <1>1, <1>2

LEMMA AsksRepo ==
  ASSUME RepoInv, NEW c \in RepoCalls, ChecksName(c) \/ AsksStorage(c) \/ Pushes(c) \/ RecordsPush(c)
  PROVE  RepoInv'
<1>a. /\ UNCHANGED <<rows, store, made, collateral, lost>>
      /\ CallOK(repoCall[c]) /\ StoreInv /\ repoCall[c] \in CallShape
      /\ ~(repoCall[c].op = "setStar" /\ repoCall[c].at = "count")
  BY DEF ChecksName, AsksStorage, Pushes, RecordsPush, RepoInv, CallsInv, CallOK
<1>1. CASE RepoCallEnds(c)
  <2>1. NoRepoCall.row = 0 /\ ~Waits(NoRepoCall)
    BY DEF NoRepoCall, Waits
  <2> QED BY <1>a, <1>1, <2>1, EndedIsOK, QuietCall DEF RepoCallEnds
<1>2. CASE ChecksName(c) /\ ~RepoCallEnds(c)
  <2>1. PICK r : r = [repoCall[c] EXCEPT !.at = IF repoCall[c].op = "updateRepo" THEN "row" ELSE "storage"]
    OBVIOUS
  <2>2. repoCall' = [repoCall EXCEPT ![c] = r]
    BY <1>2, <2>1 DEF ChecksName, RepoCallGoesTo, RepoInv, CallsInv
  <2>3. CallOK(r) /\ ~Waits(r) /\ r.row = repoCall[c].row
    BY <1>2, <1>a, <2>1 DEF ChecksName, CallOK, CallShape, Waits, Makes, OfARow
  <2> QED BY <1>a, <2>2, <2>3, QuietCall
<1>3. CASE AsksStorage(c) /\ ~RepoCallEnds(c)
  <2>1. PICK r : r = [repoCall[c] EXCEPT !.at = "row"]
    OBVIOUS
  <2>2. repoCall' = [repoCall EXCEPT ![c] = r]
    BY <1>3, <2>1 DEF AsksStorage, RepoCallGoesTo, RepoInv, CallsInv
  <2>3. CallOK(r) /\ ~Waits(r) /\ r.row = repoCall[c].row
    BY <1>3, <1>a, <2>1 DEF AsksStorage, CallOK, CallShape, Waits, Makes, OfARow
  <2> QED BY <1>a, <2>2, <2>3, QuietCall
<1>4. CASE Pushes(c) /\ ~RepoCallEnds(c)
  <2>1. PICK r : r = [repoCall[c] EXCEPT !.number = store[repoCall[c].storage].number, !.at = "count"]
    OBVIOUS
  <2>2. repoCall' = [repoCall EXCEPT ![c] = r]
    BY <1>4, <2>1 DEF Pushes, RepoInv, CallsInv
  <2>3. repoCall[c].op = "push" /\ repoCall[c].storage \in Names
    BY <1>4, <1>a DEF Pushes, CallOK, OfARow
  <2>4. store[repoCall[c].storage].number \in Nat
    BY <1>a, <2>3 DEF StoreInv
  <2>5. /\ r \in CallShape /\ r.at = "count" /\ r.op = "push" /\ r.row = repoCall[c].row
        /\ r.storage = repoCall[c].storage /\ r.number = store[repoCall[c].storage].number
    BY <1>a, <2>1, <2>3, <2>4 DEF CallShape
  <2>6. r.row \in DOMAIN rows \ collateral => r.number = r.row
    BY <1>a, <2>5 DEF CallOK, StoreInv, RowsHaveTheirStorage
  <2>7. /\ r.row <= made /\ r.storage \in Names /\ r.row # 0
        /\ r.row \in DOMAIN rows => rows[r.row].storage = r.storage
    BY <1>a, <2>3, <2>5 DEF CallOK, OfARow
  <2>8. CallOK(r) /\ ~Waits(r)
    BY <2>5, <2>6, <2>7 DEF CallOK, Waits, Makes
  <2> QED BY <1>a, <2>2, <2>5, <2>8, QuietCall
<1> QED BY <1>1, <1>2, <1>3, <1>4 DEF RecordsPush

\* An isolate that goes between a star and its count is counted itself.
LEMMA FailsRepo ==
  ASSUME RepoInv, NEW c \in RepoCalls, FailsRepoCall(c)
  PROVE  RepoInv'
<1>a. /\ UNCHANGED <<rows, store, made, collateral>> /\ StoreInv
      /\ lost' = (lost \/ (repoCall[c].op = "setStar" /\ repoCall[c].at = "count"))
      /\ repoCall' = [repoCall EXCEPT ![c] = NoRepoCall]
  BY DEF FailsRepoCall, RepoCallEnds, RepoInv
<1>b. NoRepoCall.row = 0 /\ ~Waits(NoRepoCall)
  BY DEF NoRepoCall, Waits
<1>1. CallsInv' /\ ApartInv'
  BY <1>a, <1>b, EndedIsOK, CallMoves DEF RepoInv
<1>2. StoreInv'
  BY <1>a DEF StoreInv, RowsHaveTheirStorage
<1>3. StarsAreCounted'
  <2>1. CASE repoCall[c].op = "setStar" /\ repoCall[c].at = "count"
    BY <1>a, <2>1 DEF StarsAreCounted
  <2>2. CASE ~(repoCall[c].op = "setStar" /\ repoCall[c].at = "count")
    <3>1. \A d \in RepoCalls : d # c => repoCall'[d] = repoCall[d]
      BY <1>a DEF RepoInv, CallsInv
    <3>2. lost' <=> lost
      BY <1>a, <2>2
    <3>3. ASSUME ~lost, NEW i \in DOMAIN rows, rows[i].starCount # Cardinality(rows[i].stars)
          PROVE  \E d \in RepoCalls :
                   repoCall'[d].op = "setStar" /\ repoCall'[d].at = "count" /\ repoCall'[d].row = i
      <4>1. PICK d \in RepoCalls :
              repoCall[d].op = "setStar" /\ repoCall[d].at = "count" /\ repoCall[d].row = i
        BY <3>3 DEF RepoInv, StarsAreCounted
      <4> QED BY <2>2, <3>1, <4>1
    <3> QED BY <1>a, <3>2, <3>3 DEF StarsAreCounted
  <2> QED BY <2>1, <2>2
<1> QED BY <1>1, <1>2, <1>3 DEF RepoInv

\* Rows are rewritten, keep their storages, and are marked ready only if these are.
LEMMA RowsRewritten ==
  ASSUME RepoInv, NEW c \in RepoCalls, NEW r, CallOK(r),
         repoCall' = [repoCall EXCEPT ![c] = r],
         ~Waits(r), r.row = repoCall[c].row \/ r.row = 0,
         DOMAIN rows' = DOMAIN rows, rows' \in [DOMAIN rows -> RowShape],
         \A i \in DOMAIN rows : /\ rows'[i].storage = rows[i].storage
                                /\ rows'[i].status = "ready" /\ rows[i].status # "ready" =>
                                     i \in collateral \/ store[rows[i].storage].state = "ready",
         UNCHANGED <<store, made, collateral>>
  PROVE  StoreInv' /\ CallsInv' /\ ApartInv'
<1>1. StoreInv'
  BY DEF RepoInv, StoreInv, RowsHaveTheirStorage
<1>2. \A q : CallOK(q) => CallOK(q)'
  BY DEF CallOK, Waits
<1>3. repoCall'[c] = r /\ \A d \in RepoCalls : d # c => repoCall'[d] = repoCall[d]
  BY DEF RepoInv, CallsInv
<1>4. CallsInv'
  <2>1. \A d \in RepoCalls : CallOK(repoCall'[d])
    BY <1>3 DEF RepoInv, CallsInv
  <2>2. \A d \in RepoCalls : CallOK(repoCall'[d]) => CallOK(repoCall[d])'
    BY DEF CallOK, Waits
  <2> QED BY <2>1, <2>2 DEF RepoInv, CallsInv
<1>5. \A d \in RepoCalls : Waits(repoCall[d]) => repoCall[d].number # 0
  BY DEF RepoInv, CallsInv, CallOK, StoreInv
<1>6. ApartInv'
  <2> SUFFICES ASSUME NEW e \in RepoCalls, NEW d \in RepoCalls, Waits(repoCall'[e])
               PROVE  /\ repoCall'[d].row # repoCall'[e].number
                      /\ Waits(repoCall'[d]) /\ repoCall'[d].number = repoCall'[e].number => d = e
    BY DEF ApartInv, Waits
  <2>1. e # c /\ repoCall'[e] = repoCall[e]
    BY <1>3
  <2> QED BY <1>3, <1>5, <2>1 DEF RepoInv, ApartInv
<1> QED BY <1>1, <1>4, <1>6

\* The rewriting steps: a name, a count, a status, stars.
LEMMA RewritesRepo ==
  ASSUME RepoInv, NEW c \in RepoCalls, RenamesRow(c) \/ CountsFork(c) \/ MarksReady(c)
  PROVE  RepoInv'
<1>a. /\ UNCHANGED <<store, made, collateral, lost>>
      /\ CallOK(repoCall[c]) /\ StoreInv /\ repoCall[c] \in CallShape
      /\ ~(repoCall[c].op = "setStar" /\ repoCall[c].at = "count")
  BY DEF RenamesRow, CountsFork, MarksReady, RepoInv, CallsInv, CallOK
<1>b. \A i \in DOMAIN rows : rows[i] \in RowShape
  BY <1>a DEF StoreInv
<1>c. PICK i : i = repoCall[c].row
  OBVIOUS
<1>2. /\ DOMAIN rows' = DOMAIN rows /\ rows' \in [DOMAIN rows -> RowShape]
      /\ \A j \in DOMAIN rows :
           /\ rows'[j].storage = rows[j].storage
           /\ rows'[j].stars = rows[j].stars /\ rows'[j].starCount = rows[j].starCount
           /\ rows'[j].status = "ready" /\ rows[j].status # "ready" =>
                j \in collateral \/ store[rows[j].storage].state = "ready"
  <2>1. CASE RenamesRow(c)
    <3>1. repoCall[c].target \in Names
      BY <1>a, <2>1 DEF RenamesRow, CallOK
    <3>2. CASE rows' = rows
      BY <1>a, <3>2 DEF StoreInv
    <3>3. CASE rows' = [j \in DOMAIN rows |->
                          IF j = i THEN [rows[j] EXCEPT !.name = repoCall[c].target] ELSE rows[j]]
      BY <1>b, <3>1, <3>3 DEF RowShape
    <3> QED BY <1>c, <2>1, <3>2, <3>3 DEF RenamesRow
  <2>2. CASE CountsFork(c)
    <3>1. rows' = [j \in DOMAIN rows |->
                     IF j = i THEN [rows[j] EXCEPT !.forks = rows[j].forks + 1] ELSE rows[j]]
      BY <1>c, <2>2 DEF CountsFork
    <3> QED BY <1>b, <3>1 DEF RowShape
  <2>3. CASE MarksReady(c)
    <3>1. rows' = [j \in DOMAIN rows |->
                     IF j = i THEN [rows[j] EXCEPT !.status = "ready"] ELSE rows[j]]
      BY <1>c, <2>3 DEF MarksReady
    <3>2. i \in DOMAIN rows \ collateral => store[rows[i].storage].state = "ready"
      BY <1>a, <1>c, <2>3 DEF MarksReady, CallOK
    <3> QED BY <1>b, <3>1, <3>2 DEF RowShape
  <2> QED BY <2>1, <2>2, <2>3
<1>3. PICK r : /\ repoCall' = [repoCall EXCEPT ![c] = r]
               /\ CallOK(r) /\ ~Waits(r) /\ (r.row = repoCall[c].row \/ r.row = 0)
  <2>1. CASE RepoCallEnds(c)
    <3>1. NoRepoCall.row = 0 /\ ~Waits(NoRepoCall)
      BY DEF NoRepoCall, Waits
    <3> QED BY <1>a, <2>1, <3>1, EndedIsOK DEF RepoCallEnds
  <2>2. CASE MarksReady(c) /\ ~RepoCallEnds(c)
    <3>1. PICK r : r = [repoCall[c] EXCEPT !.at = "send"]
      OBVIOUS
    <3>2. repoCall' = [repoCall EXCEPT ![c] = r] /\ repoCall[c].op = "push"
      BY <2>2, <3>1 DEF MarksReady, RepoCallGoesTo, RepoInv, CallsInv
    <3>3. CallOK(r) /\ ~Waits(r) /\ r.row = repoCall[c].row
      BY <1>a, <3>1, <3>2 DEF CallOK, CallShape, Waits, Makes, OfARow
    <3> QED BY <3>2, <3>3
  <2> QED BY <2>1, <2>2 DEF RenamesRow, CountsFork
<1>4. StoreInv' /\ CallsInv' /\ ApartInv'
  BY <1>a, <1>2, <1>3, RowsRewritten
<1>5. \A d \in RepoCalls : d # c => repoCall'[d] = repoCall[d]
  BY <1>3 DEF RepoInv, CallsInv
<1>6. StarsAreCounted'
  BY <1>a, <1>2, <1>5, StarsStay DEF RepoInv
<1> QED BY <1>4, <1>6 DEF RepoInv

LEMMA StarsRepo ==
  ASSUME RepoInv, NEW c \in RepoCalls, Stars(c)
  PROVE  RepoInv'
<1>a. /\ UNCHANGED <<store, made, collateral, lost>>
      /\ CallOK(repoCall[c]) /\ StoreInv /\ repoCall[c] \in CallShape
      /\ repoCall[c].op = "setStar" /\ repoCall[c].at = "row"
  BY DEF Stars, RepoInv, CallsInv, CallOK
<1>1. CASE repoCall[c].row \notin DOMAIN rows
  <2>1. NoRepoCall.row = 0 /\ ~Waits(NoRepoCall)
    BY DEF NoRepoCall, Waits
  <2>2. repoCall' = [repoCall EXCEPT ![c] = NoRepoCall] /\ rows' = rows
    BY <1>1 DEF Stars, RepoCallEnds
  <2> QED BY <1>a, <2>1, <2>2, EndedIsOK, QuietCall
<1>2. CASE repoCall[c].row \in DOMAIN rows
  <2>1. PICK i \in DOMAIN rows : i = repoCall[c].row
    BY <1>2
  <2>2. rows[i] \in RowShape /\ repoCall[c].who \in Starrers
    BY <1>a DEF StoreInv, CallOK
  <2>3. PICK stars \in SUBSET Starrers : rows' = [rows EXCEPT ![i].stars = stars]
    <3>1. \E s \in {rows[i].stars \cup {repoCall[c].who}, rows[i].stars \ {repoCall[c].who}} :
            rows' = [rows EXCEPT ![i].stars = s]
      BY <1>2, <2>1 DEF Stars
    <3>2. rows[i].stars \in SUBSET Starrers
      BY <2>2 DEF RowShape
    <3> QED BY <2>2, <3>1, <3>2
  <2>4. /\ DOMAIN rows' = DOMAIN rows /\ rows' \in [DOMAIN rows -> RowShape]
        /\ \A j \in DOMAIN rows : rows'[j].storage = rows[j].storage /\ rows'[j].status = rows[j].status
        /\ \A j \in DOMAIN rows : j # i => rows'[j] = rows[j]
    BY <1>a, <2>3 DEF StoreInv, RowShape
  <2>5. PICK r : r = [repoCall[c] EXCEPT !.at = "count"]
    OBVIOUS
  <2>6. repoCall' = [repoCall EXCEPT ![c] = r]
    BY <1>2, <2>5 DEF Stars, RepoCallGoesTo, RepoInv, CallsInv
  <2>7. r.row = i /\ r.op = "setStar" /\ r.at = "count"
    BY <1>a, <2>1, <2>5 DEF CallShape
  <2>8. CallOK(r) /\ ~Waits(r)
    BY <1>a, <2>5 DEF CallOK, CallShape, Waits, Makes, OfARow
  <2>9. StoreInv' /\ CallsInv' /\ ApartInv'
    BY <1>a, <2>1, <2>4, <2>6, <2>7, <2>8, RowsRewritten
  <2>10. repoCall'[c] = r /\ \A d \in RepoCalls : d # c => repoCall'[d] = repoCall[d]
    BY <2>6 DEF RepoInv, CallsInv
  <2>11. StarsAreCounted'
    <3> SUFFICES ASSUME ~lost, NEW j \in DOMAIN rows, rows'[j].starCount # Cardinality(rows'[j].stars)
                 PROVE  \E d \in RepoCalls :
                          repoCall'[d].op = "setStar" /\ repoCall'[d].at = "count" /\ repoCall'[d].row = j
      BY <1>a, <2>4 DEF StarsAreCounted
    <3>1. CASE j = i
      BY <2>7, <2>10, <3>1
    <3>2. CASE j # i
      <4>1. rows[j].starCount # Cardinality(rows[j].stars)
        BY <2>4, <3>2
      <4>2. PICK d \in RepoCalls :
              repoCall[d].op = "setStar" /\ repoCall[d].at = "count" /\ repoCall[d].row = j
        BY <4>1 DEF RepoInv, StarsAreCounted
      <4>3. d # c
        BY <1>a, <4>2
      <4> QED BY <2>10, <4>2, <4>3
    <3> QED BY <3>1, <3>2
  <2> QED BY <2>9, <2>11 DEF RepoInv
<1> QED BY <1>1, <1>2

LEMMA CountsRepo ==
  ASSUME RepoInv, NEW c \in RepoCalls, CountsStars(c)
  PROVE  RepoInv'
<1>a. /\ UNCHANGED <<store, made, collateral, lost>>
      /\ StoreInv /\ repoCall[c].op = "setStar" /\ repoCall[c].at = "count"
      /\ repoCall' = [repoCall EXCEPT ![c] = NoRepoCall]
  BY DEF CountsStars, RepoCallEnds, RepoInv
<1>b. \A j \in DOMAIN rows : rows[j] \in RowShape /\ Cardinality(rows[j].stars) \in Nat
  <2> SUFFICES ASSUME NEW j \in DOMAIN rows PROVE rows[j] \in RowShape /\ Cardinality(rows[j].stars) \in Nat
    OBVIOUS
  <2>1. rows[j] \in RowShape
    BY <1>a DEF StoreInv
  <2>2. rows[j].stars \in SUBSET Starrers
    BY <2>1 DEF RowShape
  <2>3. IsFiniteSet(rows[j].stars)
    BY <2>2, ReposAssumption, FS_Subset
  <2> QED BY <2>1, <2>3, FS_CardinalityType
<1>1. PICK i : i = repoCall[c].row
  OBVIOUS
<1>2. rows' = [j \in DOMAIN rows |->
        IF j = i THEN [rows[j] EXCEPT !.starCount = Cardinality(rows[j].stars)] ELSE rows[j]]
  BY <1>1 DEF CountsStars
<1>3. /\ DOMAIN rows' = DOMAIN rows /\ rows' \in [DOMAIN rows -> RowShape]
      /\ \A j \in DOMAIN rows : /\ rows'[j].storage = rows[j].storage
                                /\ rows'[j].status = rows[j].status
                                /\ rows'[j].stars = rows[j].stars
  BY <1>b, <1>2 DEF RowShape
<1>4. NoRepoCall.row = 0 /\ ~Waits(NoRepoCall)
  BY DEF NoRepoCall, Waits
<1>5. StoreInv' /\ CallsInv' /\ ApartInv'
  BY <1>a, <1>3, <1>4, EndedIsOK, RowsRewritten
<1>6. \A d \in RepoCalls : d # c => repoCall'[d] = repoCall[d]
  BY <1>a DEF RepoInv, CallsInv
<1>7. StarsAreCounted'
  <2> SUFFICES ASSUME ~lost, NEW j \in DOMAIN rows, rows'[j].starCount # Cardinality(rows'[j].stars)
               PROVE  \E d \in RepoCalls :
                        repoCall'[d].op = "setStar" /\ repoCall'[d].at = "count" /\ repoCall'[d].row = j
    BY <1>a, <1>3 DEF StarsAreCounted
  <2>1. j # i
    <3>1. j = i => rows'[j].starCount = Cardinality(rows[j].stars)
      BY <1>b, <1>2 DEF RowShape
    <3> QED BY <1>3, <3>1
  <2>2. rows'[j] = rows[j]
    BY <1>2, <2>1
  <2>3. PICK d \in RepoCalls :
          repoCall[d].op = "setStar" /\ repoCall[d].at = "count" /\ repoCall[d].row = j
    BY <2>2 DEF RepoInv, StarsAreCounted
  <2>4. d # c
    BY <1>1, <2>1, <2>3
  <2> QED BY <1>6, <2>3, <2>4
<1> QED BY <1>5, <1>7 DEF RepoInv

\* A storage of a name that had none has a number that nobody has.
LEMMA MakesRepo ==
  ASSUME RepoInv, NEW c \in RepoCalls, MakesStorage(c)
  PROVE  RepoInv'
<1>a. /\ UNCHANGED <<rows, collateral, lost>>
      /\ CallOK(repoCall[c]) /\ StoreInv /\ repoCall[c] \in CallShape
      /\ repoCall[c].at = "storage" /\ repoCall[c].op \in Makes
  BY DEF MakesStorage, RepoInv, CallsInv, CallOK, Makes
<1>1. PICK n \in Names : n = repoCall[c].target
  BY <1>a DEF CallOK
<1>2. CASE RepoCallEnds(c) /\ UNCHANGED <<store, made>>
  <2>1. NoRepoCall.row = 0 /\ ~Waits(NoRepoCall)
    BY DEF NoRepoCall, Waits
  <2> QED BY <1>a, <1>2, <2>1, EndedIsOK, QuietCall DEF RepoCallEnds
<1>3. CASE ~(RepoCallEnds(c) /\ UNCHANGED <<store, made>>)
  <2>1. /\ store[n].state = "none" /\ made' = made + 1
        /\ repoCall' = [repoCall EXCEPT ![c].at = "row", ![c].number = made + 1]
    BY <1>1, <1>3 DEF MakesStorage
  <2>2. PICK s \in {"ready", "working"} :
          /\ store' = [store EXCEPT ![n] = [state |-> s, number |-> made + 1]]
          /\ repoCall[c].op = "createRepo" => s = "ready"
    BY <1>1, <1>3 DEF MakesStorage
  <2>3. store[n].number = 0 /\ made \in Nat
    BY <1>a, <2>1 DEF StoreInv
  <2>4. /\ store' \in [Names -> [state : {"none", "working", "ready"}, number : Nat]]
        /\ store'[n] = [state |-> s, number |-> made + 1]
        /\ \A m \in Names : m # n => store'[m] = store[m]
    BY <1>a, <2>2, <2>3 DEF StoreInv
  <2>5. \A i \in DOMAIN rows \ collateral : rows[i].storage # n /\ rows[i].storage \in Names
    BY <1>a, <2>3 DEF StoreInv, RowsHaveTheirStorage, RowShape
  <2>6. StoreInv'
    <3>1. RowsHaveTheirStorage'
      BY <1>a, <2>4, <2>5 DEF StoreInv, RowsHaveTheirStorage
    <3>2. \A m \in Names : store'[m].number <= made' /\ (store'[m].state = "none" => store'[m].number = 0)
      BY <1>a, <2>1, <2>2, <2>3, <2>4 DEF StoreInv
    <3>3. DOMAIN rows \subseteq 1 .. made'
      BY <1>a, <2>1, <2>3 DEF StoreInv
    <3> QED BY <1>a, <2>1, <2>3, <2>4, <3>1, <3>2, <3>3 DEF StoreInv
  <2>7. ASSUME NEW q, CallOK(q)
        PROVE  CallOK(q)'
    <3>1. q \in CallShape /\ q.row <= made'
      BY <2>1, <2>3, <2>7 DEF CallOK, CallShape
    <3>2. q.op \in {"getRepo", "push"} /\ q.at = "row" /\ q.row \in DOMAIN rows \ collateral =>
            store'[q.storage].state = "ready"
      BY <2>1, <2>4, <2>7 DEF CallOK, OfARow
    <3>3. Waits(q) => /\ q.number \in (1 .. made') \ DOMAIN rows
                      /\ \/ q.number \in collateral
                         \/ /\ store'[q.target].number = q.number
                            /\ q.op = "createRepo" => store'[q.target].state = "ready"
      <4> SUFFICES ASSUME Waits(q) PROVE /\ q.number \in (1 .. made') \ DOMAIN rows
                      /\ \/ q.number \in collateral
                         \/ /\ store'[q.target].number = q.number
                            /\ q.op = "createRepo" => store'[q.target].state = "ready"
        OBVIOUS
      <4>1. q.target \in Names /\ q.number \in (1 .. made) \ DOMAIN rows
        BY <2>7 DEF CallOK, Waits
      <4>2. q.number \in collateral \/ q.target # n
        BY <2>3, <2>7, <4>1 DEF CallOK
      <4> QED BY <2>1, <2>3, <2>4, <2>7, <4>1, <4>2 DEF CallOK
    <3> QED BY <1>a, <2>7, <3>1, <3>2, <3>3 DEF CallOK, Waits
  <2>8. PICK r : r = [repoCall[c] EXCEPT !.at = "row", !.number = made + 1]
    OBVIOUS
  <2>9. /\ repoCall'[c] = r /\ \A d \in RepoCalls : d # c => repoCall'[d] = repoCall[d]
        /\ repoCall' = [d \in RepoCalls |-> repoCall'[d]]
    BY <2>1, <2>8 DEF RepoInv, CallsInv
  <2>10. /\ r \in CallShape /\ r.at = "row" /\ r.number = made + 1 /\ r.op = repoCall[c].op
         /\ r.row = repoCall[c].row /\ r.target = n /\ r.storage = repoCall[c].storage
    <3>1. PICK q \in CallShape : q = repoCall[c]
      BY <1>a
    <3>2. r = [q EXCEPT !.at = "row", !.number = made + 1] /\ made + 1 \in Nat
      BY <2>3, <2>8, <3>1
    <3>3. r \in CallShape /\ r.at = "row" /\ r.number = made + 1 /\ r.op = q.op
          /\ r.row = q.row /\ r.target = q.target /\ r.storage = q.storage
      BY <3>2 DEF CallShape
    <3> QED BY <1>1, <3>1, <3>3
  <2>11. CallOK(r)'
    <3>1. r.row <= made' /\ (r.op \in OfARow => r.storage \in Names /\ r.row # 0)
          /\ (r.row \in DOMAIN rows => rows[r.row].storage = r.storage) /\ r.op \in Makes
      BY <1>a, <2>1, <2>3, <2>10 DEF CallOK, CallShape
    <3>2. r.number \in (1 .. made') \ DOMAIN rows
      BY <1>a, <2>1, <2>3, <2>10 DEF StoreInv
    <3>3. store'[r.target].number = r.number /\ (r.op = "createRepo" => store'[r.target].state = "ready")
      BY <2>2, <2>4, <2>10
    <3> QED BY <1>a, <2>10, <3>1, <3>2, <3>3 DEF CallOK, Waits, Makes
  <2>12. CallsInv'
    <3>1. \A d \in RepoCalls : d # c => CallOK(repoCall[d])'
      <4> SUFFICES ASSUME NEW d \in RepoCalls, d # c PROVE CallOK(repoCall[d])'
        OBVIOUS
      <4>1. PICK q : q = repoCall[d]
        OBVIOUS
      <4>2. CallOK(q)'
        BY <2>7, <4>1 DEF RepoInv, CallsInv
      <4> QED BY <2>9, <4>1, <4>2 DEF CallOK, Waits
    <3>2. CallOK(repoCall[c])'
      BY <2>9, <2>11 DEF CallOK, Waits
    <3> QED BY <2>9, <3>1, <3>2 DEF CallsInv
  <2>13. \A d \in RepoCalls : repoCall[d].row <= made /\ repoCall[d].row \in Nat
                              /\ (Waits(repoCall[d]) => repoCall[d].number <= made /\ repoCall[d].number \in Nat)
    BY <2>3 DEF RepoInv, CallsInv, CallOK, CallShape
  <2>14. ApartInv'
    <3> SUFFICES ASSUME NEW e \in RepoCalls, NEW d \in RepoCalls, Waits(repoCall'[e])
                 PROVE  /\ repoCall'[d].row # repoCall'[e].number
                        /\ Waits(repoCall'[d]) /\ repoCall'[d].number = repoCall'[e].number => d = e
      BY DEF ApartInv, Waits
    <3>1. repoCall'[d].row = repoCall[d].row
      BY <2>9, <2>10
    <3>2. CASE e = c
      BY <2>3, <2>9, <2>10, <2>13, <3>1, <3>2
    <3>3. CASE e # c
      BY <2>3, <2>9, <2>10, <2>13, <3>1, <3>3 DEF RepoInv, ApartInv
    <3> QED BY <3>2, <3>3
  <2>15. StarsAreCounted'
    <3>1. \A d \in RepoCalls : repoCall[d].op = "setStar" /\ repoCall[d].at = "count" =>
            repoCall'[d] = repoCall[d]
      BY <1>a, <2>9 DEF Makes
    <3> QED BY <1>a, <3>1, StarsStay DEF RepoInv
  <2> QED BY <2>6, <2>12, <2>14, <2>15 DEF RepoInv
<1> QED BY <1>2, <1>3

\* A call moves on, and the others may hold what they hold.
LEMMA OthersStand ==
  ASSUME RepoInv, NEW c \in RepoCalls, NEW r, CallOK(r)', ~Waits(r),
         repoCall' = [repoCall EXCEPT ![c] = r],
         r.row = repoCall[c].row \/ r.row = 0,
         \A d \in RepoCalls : d # c => CallOK(repoCall[d])'
  PROVE  CallsInv' /\ ApartInv'
<1>1. repoCall'[c] = r /\ \A d \in RepoCalls : d # c => repoCall'[d] = repoCall[d]
  BY DEF RepoInv, CallsInv
<1>2. CallsInv'
  <2>1. ASSUME NEW d \in RepoCalls
        PROVE  CallOK(repoCall[d])'
    <3>1. CASE d = c
      BY <1>1, <3>1 DEF CallOK, Waits
    <3>2. CASE d # c
      BY <1>1, <3>2 DEF CallOK, Waits
    <3> QED BY <3>1, <3>2
  <2> QED BY <2>1 DEF RepoInv, CallsInv
<1>3. \A d \in RepoCalls : Waits(repoCall[d]) => repoCall[d].number # 0
  BY DEF RepoInv, CallsInv, CallOK, StoreInv
<1>4. ApartInv'
  <2> SUFFICES ASSUME NEW e \in RepoCalls, NEW d \in RepoCalls, Waits(repoCall'[e])
               PROVE  /\ repoCall'[d].row # repoCall'[e].number
                      /\ Waits(repoCall'[d]) /\ repoCall'[d].number = repoCall'[e].number => d = e
    BY DEF ApartInv, Waits
  <2>1. e # c /\ repoCall'[e] = repoCall[e]
    BY <1>1
  <2> QED BY <1>1, <1>3, <2>1 DEF RepoInv, ApartInv
<1> QED BY <1>2, <1>4

\* The row of a storage has its number, which leaves those who wait for another.
LEMMA InsertsRepo ==
  ASSUME RepoInv, NEW c \in RepoCalls, InsertsRow(c)
  PROVE  RepoInv'
<1>a. /\ UNCHANGED <<store, made, collateral, lost>>
      /\ CallOK(repoCall[c]) /\ StoreInv /\ repoCall[c] \in CallShape
      /\ Waits(repoCall[c])
  BY DEF InsertsRow, RepoInv, CallsInv, CallOK, Waits, Makes
<1>b. NoRepoCall.row = 0 /\ ~Waits(NoRepoCall)
  BY DEF NoRepoCall, Waits
<1>1. CASE RepoCallEnds(c) /\ UNCHANGED rows
  <2>1. repoCall[c].op # "setStar"
    BY <1>a DEF Waits, Makes
  <2> QED BY <1>a, <1>b, <1>1, <2>1, EndedIsOK, QuietCall DEF RepoCallEnds
<1>2. CASE ~(RepoCallEnds(c) /\ UNCHANGED rows)
  <2>1. PICK k : k = repoCall[c].number
    OBVIOUS
  <2>2. PICK n \in Names : n = repoCall[c].target
    BY <1>a DEF CallOK, Waits
  <2>3. PICK status \in {"ready", "importing", "forking"}, parent \in Nat :
          /\ rows' = [i \in DOMAIN rows \cup {k} |-> IF i = k THEN NewRow(n, status, parent) ELSE rows[i]]
          /\ status = "ready" => repoCall[c].op = "createRepo"
          /\ parent = repoCall[c].row
          /\ parent # 0 => parent \in DOMAIN rows
          /\ IF parent # 0 THEN RepoCallGoesTo(c, "count") ELSE RepoCallEnds(c)
    <3>1. repoCall[c].row \in Nat
      BY <1>a DEF CallShape
    <3> QED BY <1>2, <2>1, <2>2, <3>1 DEF InsertsRow
  <2>4. k \in (1 .. made) \ DOMAIN rows
    BY <1>a, <2>1 DEF CallOK
  <2>5. k \in collateral \/ (store[n].number = k /\ (status = "ready" => store[n].state = "ready"))
    BY <1>a, <2>1, <2>2, <2>3 DEF CallOK
  <2>6. NewRow(n, status, parent) \in RowShape /\ NewRow(n, status, parent).storage = n
        /\ NewRow(n, status, parent).status = status
    BY DEF NewRow, RowShape
  <2>7. /\ DOMAIN rows' = DOMAIN rows \cup {k} /\ rows'[k] = NewRow(n, status, parent)
        /\ \A i \in DOMAIN rows : rows'[i] = rows[i]
    BY <2>3, <2>4
  <2>8. StoreInv'
    <3>1. RowsHaveTheirStorage'
      BY <1>a, <2>5, <2>6, <2>7 DEF StoreInv, RowsHaveTheirStorage
    <3>2. rows' \in [DOMAIN rows' -> RowShape]
      BY <1>a, <2>3, <2>6, <2>7 DEF StoreInv
    <3>3. DOMAIN rows' \subseteq 1 .. made
      BY <1>a, <2>4, <2>7 DEF StoreInv
    <3> QED BY <1>a, <3>1, <3>2, <3>3 DEF StoreInv
  <2>9. ASSUME NEW q, CallOK(q), q.row # k, Waits(q) => q.number # k
        PROVE  CallOK(q)'
    BY <1>a, <2>7, <2>9 DEF CallOK, Waits
  <2>10. \A d \in RepoCalls : d # c => CallOK(repoCall[d])'
    <3> SUFFICES ASSUME NEW d \in RepoCalls, d # c PROVE CallOK(repoCall[d])'
      OBVIOUS
    <3>1. PICK q : q = repoCall[d]
      OBVIOUS
    <3>2. CallOK(q) /\ q.row # k /\ (Waits(q) => q.number # k)
      BY <1>a, <2>1, <3>1 DEF RepoInv, CallsInv, ApartInv
    <3>3. repoCall'[d] = q
      BY <2>3, <3>1 DEF RepoCallGoesTo, RepoCallEnds, RepoInv, CallsInv
    <3>4. CallOK(q)'
      BY <2>9, <3>2
    <3> QED BY <3>3, <3>4 DEF CallOK, Waits
  <2>11. PICK r : /\ repoCall' = [repoCall EXCEPT ![c] = r]
                  /\ CallOK(r)' /\ ~Waits(r) /\ (r.row = repoCall[c].row \/ r.row = 0)
    <3>1. CASE RepoCallEnds(c)
      <4>1. CallOK(NoRepoCall)'
        BY <2>8, EndedIsOK, <2>9, <1>a, <1>b, <2>4
      <4> QED BY <1>b, <3>1, <4>1 DEF RepoCallEnds
    <3>2. CASE RepoCallGoesTo(c, "count") /\ parent # 0
      <4>1. PICK r : r = [repoCall[c] EXCEPT !.at = "count"]
        OBVIOUS
      <4>2. repoCall' = [repoCall EXCEPT ![c] = r]
        BY <3>2, <4>1 DEF RepoCallGoesTo, RepoInv, CallsInv
      <4>3. CallOK(r) /\ ~Waits(r) /\ r.row = repoCall[c].row
        BY <1>a, <4>1 DEF CallOK, CallShape, Waits, Makes, OfARow
      <4>4. r.row # k
        BY <1>a, <2>1, <4>3 DEF RepoInv, ApartInv
      <4> QED BY <2>9, <4>2, <4>3, <4>4
    <3> QED BY <2>3, <3>1, <3>2
  <2>12. CallsInv' /\ ApartInv'
    BY <2>10, <2>11, OthersStand
  <2>13. StarsAreCounted'
    <3> SUFFICES ASSUME ~lost, NEW i \in DOMAIN rows', rows'[i].starCount # Cardinality(rows'[i].stars)
                 PROVE  \E d \in RepoCalls :
                          repoCall'[d].op = "setStar" /\ repoCall'[d].at = "count" /\ repoCall'[d].row = i
      BY <1>a DEF StarsAreCounted
    <3>1. i # k
      BY <2>7, FS_EmptySet DEF NewRow
    <3>2. i \in DOMAIN rows /\ rows'[i] = rows[i]
      BY <2>7, <3>1
    <3>3. PICK d \in RepoCalls :
            repoCall[d].op = "setStar" /\ repoCall[d].at = "count" /\ repoCall[d].row = i
      BY <3>2 DEF RepoInv, StarsAreCounted
    <3>4. d # c
      BY <1>a, <3>3 DEF Waits
    <3> QED BY <2>11, <3>3, <3>4 DEF RepoInv, CallsInv
  <2> QED BY <2>8, <2>12, <2>13 DEF RepoInv
<1> QED BY <1>1, <1>2

\* A row goes; its forks stay, and nobody finds more than before.
LEMMA DeletesRepo ==
  ASSUME RepoInv, NEW c \in RepoCalls, DeletesRow(c)
  PROVE  RepoInv'
<1>a. /\ UNCHANGED <<store, made, collateral, lost>>
      /\ CallOK(repoCall[c]) /\ StoreInv /\ repoCall[c] \in CallShape
      /\ repoCall[c].at = "row" /\ repoCall[c].op = "deleteRepo"
  BY DEF DeletesRow, RepoInv, CallsInv, CallOK
<1>1. PICK k : k = repoCall[c].row
  OBVIOUS
<1>2. rows' = [i \in DOMAIN rows \ {k} |-> IF rows[i].parent = k THEN [rows[i] EXCEPT !.parent = 0] ELSE rows[i]]
  BY <1>1 DEF DeletesRow
<1>3. \A i \in DOMAIN rows : rows[i] \in RowShape
  BY <1>a DEF StoreInv
<1>4. /\ DOMAIN rows' = DOMAIN rows \ {k} /\ rows' \in [DOMAIN rows' -> RowShape]
      /\ \A i \in DOMAIN rows' :
           /\ rows'[i].storage = rows[i].storage /\ rows'[i].status = rows[i].status
           /\ rows'[i].stars = rows[i].stars /\ rows'[i].starCount = rows[i].starCount
  BY <1>2, <1>3 DEF RowShape
<1>5. StoreInv'
  <2>1. RowsHaveTheirStorage'
    BY <1>a, <1>4 DEF StoreInv, RowsHaveTheirStorage
  <2> QED BY <1>a, <1>4, <2>1 DEF StoreInv
<1>6. ASSUME NEW q, CallOK(q)
      PROVE  CallOK(q)'
  BY <1>a, <1>4, <1>6 DEF CallOK, Waits
<1>7. \A d \in RepoCalls : d # c => CallOK(repoCall[d])'
  <2> SUFFICES ASSUME NEW d \in RepoCalls, d # c PROVE CallOK(repoCall[d])'
    OBVIOUS
  <2>1. PICK q : q = repoCall[d]
    OBVIOUS
  <2>2. CallOK(q)'
    BY <1>6, <2>1 DEF RepoInv, CallsInv
  <2>3. repoCall'[d] = q
    BY <2>1 DEF DeletesRow, RepoCallGoesTo, RepoInv, CallsInv
  <2> QED BY <2>2, <2>3 DEF CallOK, Waits
<1>8. PICK r : r = [repoCall[c] EXCEPT !.at = "storage"]
  OBVIOUS
<1>9. repoCall' = [repoCall EXCEPT ![c] = r]
  BY <1>8 DEF DeletesRow, RepoCallGoesTo, RepoInv, CallsInv
<1>10. /\ r \in CallShape /\ r.at = "storage" /\ r.op = "deleteRepo" /\ r.row = k
       /\ r.storage = repoCall[c].storage
  BY <1>a, <1>1, <1>8 DEF CallShape
<1>11. CallOK(r)'
  BY <1>a, <1>1, <1>4, <1>10 DEF CallOK, Waits, Makes, OfARow
<1>12. CallsInv' /\ ApartInv'
  BY <1>1, <1>7, <1>9, <1>10, <1>11, OthersStand DEF Waits
<1>13. StarsAreCounted'
  <2>1. \A d \in RepoCalls : repoCall[d].op = "setStar" /\ repoCall[d].at = "count" =>
          repoCall'[d] = repoCall[d]
    BY <1>a, <1>9 DEF RepoInv, CallsInv
  <2> QED BY <1>a, <1>4, <2>1, StarsStay DEF RepoInv
<1> QED BY <1>5, <1>12, <1>13 DEF RepoInv

\* What is deleted was the deleter's, whose row is gone, or is on record.
LEMMA DeletesStore ==
  ASSUME RepoInv, NEW c \in RepoCalls, DeletesStorage(c)
  PROVE  RepoInv'
<1>a. /\ UNCHANGED <<rows, made, lost>>
      /\ CallOK(repoCall[c]) /\ StoreInv /\ repoCall[c].row \notin DOMAIN rows
      /\ repoCall[c].at = "storage" /\ repoCall[c].op = "deleteRepo"
      /\ repoCall' = [repoCall EXCEPT ![c] = NoRepoCall]
  BY DEF DeletesStorage, RepoCallEnds, RepoInv, CallsInv, CallOK
<1>b. NoRepoCall.row = 0 /\ ~Waits(NoRepoCall)
  BY DEF NoRepoCall, Waits
<1>1. PICK n \in Names : n = repoCall[c].storage
  BY <1>a DEF CallOK, OfARow
<1>2. PICK k : k = store[n].number
  OBVIOUS
<1>3. /\ store' = [store EXCEPT ![n] = NoStorage]
      /\ collateral \subseteq collateral'
      /\ k \in {0, repoCall[c].row} \cup collateral'
  BY <1>1, <1>2 DEF DeletesStorage
<1>4. /\ store' \in [Names -> [state : {"none", "working", "ready"}, number : Nat]]
      /\ store'[n] = NoStorage /\ \A m \in Names : m # n => store'[m] = store[m]
  BY <1>a, <1>3 DEF StoreInv, NoStorage
<1>5. \A i \in DOMAIN rows \ collateral' : rows[i].storage # n /\ rows[i].storage \in Names
  BY <1>a, <1>2, <1>3 DEF StoreInv, RowsHaveTheirStorage, RowShape
<1>6. StoreInv'
  <2>1. RowsHaveTheirStorage'
    BY <1>a, <1>3, <1>4, <1>5 DEF StoreInv, RowsHaveTheirStorage
  <2>2. \A m \in Names : store'[m].number <= made /\ (store'[m].state = "none" => store'[m].number = 0)
    BY <1>a, <1>4 DEF StoreInv, NoStorage
  <2> QED BY <1>a, <1>4, <2>1, <2>2 DEF StoreInv
<1>7. ASSUME NEW q, CallOK(q), Waits(q) => q.number # repoCall[c].row
      PROVE  CallOK(q)'
  <2>1. q.op \in {"getRepo", "push"} /\ q.at = "row" /\ q.row \in DOMAIN rows \ collateral' =>
          store'[q.storage].state = "ready"
    BY <1>3, <1>4, <1>5, <1>7 DEF CallOK, OfARow
  <2>2. ASSUME Waits(q), q.number \notin collateral'
        PROVE  q.target # n /\ q.target \in Names
    BY <1>a, <1>2, <1>3, <1>7, <2>2 DEF CallOK, Waits
  <2>3. Waits(q) => /\ q.number \in (1 .. made) \ DOMAIN rows
                    /\ \/ q.number \in collateral'
                       \/ /\ store'[q.target].number = q.number
                          /\ q.op = "createRepo" => store'[q.target].state = "ready"
    BY <1>3, <1>4, <1>7, <2>2 DEF CallOK
  <2> QED BY <1>a, <1>3, <1>7, <2>1, <2>3 DEF CallOK, Waits
<1>8. \A d \in RepoCalls : d # c => CallOK(repoCall[d])'
  <2> SUFFICES ASSUME NEW d \in RepoCalls, d # c PROVE CallOK(repoCall[d])'
    OBVIOUS
  <2>1. PICK q : q = repoCall[d]
    OBVIOUS
  <2>2. CallOK(q) /\ (Waits(q) => q.number # repoCall[c].row)
    BY <2>1 DEF RepoInv, CallsInv, ApartInv
  <2>3. repoCall'[d] = q
    BY <1>a, <2>1 DEF RepoInv, CallsInv
  <2>4. CallOK(q)'
    BY <1>7, <2>2
  <2> QED BY <2>3, <2>4 DEF CallOK, Waits
<1>9. CallOK(NoRepoCall)'
  BY <1>b, <1>7, EndedIsOK, <1>a
<1>10. CallsInv' /\ ApartInv'
  BY <1>a, <1>b, <1>8, <1>9, OthersStand
<1>11. StarsAreCounted'
  <2>1. \A d \in RepoCalls : repoCall[d].op = "setStar" /\ repoCall[d].at = "count" =>
          repoCall'[d] = repoCall[d]
    BY <1>a DEF RepoInv, CallsInv
  <2> QED BY <1>a, <2>1, StarsStay DEF RepoInv
<1> QED BY <1>6, <1>10, <1>11 DEF RepoInv

LEMMA SettlesRepo ==
  ASSUME RepoInv, NEW n \in Names, Settles(n)
  PROVE  RepoInv'
<1>a. UNCHANGED <<rows, made, collateral, lost, repoCall>> /\ StoreInv /\ store[n].state = "working"
  BY DEF Settles, RepoInv
<1>1. /\ store' \in [Names -> [state : {"none", "working", "ready"}, number : Nat]]
      /\ store'[n].state = "ready"
      /\ \A m \in Names : store'[m].number = store[m].number /\ (m # n => store'[m] = store[m])
  BY <1>a DEF Settles, StoreInv
<1>b. \A m \in Names : store[m].state = "ready" => store'[m].state = "ready"
  BY <1>1
<1>2. StoreInv'
  <2>1. RowsHaveTheirStorage'
    <3>1. \A i \in DOMAIN rows : rows[i].storage \in Names
      BY <1>a DEF StoreInv, RowShape
    <3> QED BY <1>a, <1>1, <1>b, <3>1 DEF StoreInv, RowsHaveTheirStorage
  <2>2. \A m \in Names : store'[m].number <= made /\ (store'[m].state = "none" => store'[m].number = 0)
    BY <1>a, <1>1 DEF StoreInv
  <2> QED BY <1>a, <1>1, <2>1, <2>2 DEF StoreInv
<1>3. ASSUME NEW q, CallOK(q)
      PROVE  CallOK(q)'
  <2>1. q.op \in {"getRepo", "push"} => q.storage \in Names
    BY <1>3 DEF CallOK, OfARow
  <2>2. Waits(q) => q.target \in Names
    BY <1>3 DEF CallOK, Waits
  <2> QED BY <1>a, <1>1, <1>b, <1>3, <2>1, <2>2 DEF CallOK, Waits
<1>4. CallsInv'
  <2> SUFFICES ASSUME NEW d \in RepoCalls PROVE CallOK(repoCall[d])'
    BY <1>a DEF RepoInv, CallsInv
  <2>1. PICK q : q = repoCall[d]
    OBVIOUS
  <2>2. CallOK(q)
    BY <2>1 DEF RepoInv, CallsInv
  <2>3. CallOK(q)'
    BY <1>3, <2>2
  <2>4. repoCall'[d] = q
    BY <1>a, <2>1
  <2> QED BY <2>3, <2>4 DEF CallOK, Waits
<1>5. ApartInv' /\ StarsAreCounted'
  BY <1>a DEF RepoInv, ApartInv, StarsAreCounted, Waits
<1> QED BY <1>2, <1>4, <1>5 DEF RepoInv

LEMMA NextRepo ==
  ASSUME RepoInv, [ReposNext]_reposVars
  PROVE  RepoInv'
<1>1. CASE UNCHANGED reposVars
  BY <1>1 DEF reposVars, RepoInv, StoreInv, RowsHaveTheirStorage, CallsInv, CallOK, Waits, ApartInv, StarsAreCounted
<1>2. ASSUME NEW c \in RepoCalls, RepoStep(c)
      PROVE  RepoInv'
  BY <1>2, StartsRepo, AsksRepo, MakesRepo, InsertsRepo, RewritesRepo, DeletesRepo, DeletesStore,
     StarsRepo, CountsRepo, FailsRepo DEF RepoStep
<1>3. ASSUME NEW n \in Names, Settles(n)
      PROVE  RepoInv'
  BY <1>3, SettlesRepo
<1> QED BY <1>1, <1>2, <1>3 DEF ReposNext

LEMMA RepoInvHolds == ReposSpec => []RepoInv
BY InitRepo, NextRepo, PTL DEF ReposSpec

\* Rows have the storage made for them, pushes go to the storage of the row they
\* were authorised on, and stars are counted, whatever calls and failures meet.
THEOREM StorageAndStarsHold == ReposSpec => []ReposHold
<1>1. RepoInv => ReposHold
  BY DEF RepoInv, ReposHold, StoreInv, CallsInv, CallOK, PushesLandWhereAuthorised
<1> QED BY <1>1, RepoInvHolds, PTL

-----------------------------------------------------------------------------
(***************************************************************************)
(* The types need a bound on what is made: a storage is made by a call     *)
(* that was started for it, and by each such call once.                    *)
(***************************************************************************)

\* Calls that may still make a storage.
Owing == {c \in RepoCalls : repoCall[c].op \in Makes /\ repoCall[c].at \in {"check", "storage"}}

CountInv ==
  /\ IsFiniteSet(Owing)
  /\ made + Cardinality(Owing) <= repoStarted + 1
  /\ repoStarted \in 0 .. MaxRepoCalls

NumbersInv ==
  /\ collateral \subseteq 0 .. made
  /\ \A i \in DOMAIN rows : rows[i].parent <= made
  /\ \A c \in RepoCalls : repoCall[c].number <= made
  /\ lost \in BOOLEAN

SizeInv == RepoInv /\ CountInv /\ NumbersInv

LEMMA InitSize ==
  ASSUME ReposInit
  PROVE  SizeInv
<1>1. RepoInv
  BY InitRepo
<1>2. Owing = {} /\ IsFiniteSet({}) /\ Cardinality({}) = 0
  BY FS_EmptySet DEF Owing, ReposInit, NoRepoCall, Makes
<1>3. CountInv
  BY <1>2, ReposAssumption DEF ReposInit, CountInv
<1>4. \A c \in RepoCalls : repoCall[c].number = 0
  BY DEF ReposInit, NoRepoCall
<1>5. \A i \in DOMAIN rows : rows[i].parent = 0
  BY DEF ReposInit, NewRow
<1>6. made = 1 /\ collateral = {} /\ lost = FALSE
  BY DEF ReposInit
<1>7. NumbersInv
  <2>1. lost \in BOOLEAN
    BY <1>6, Zenon
  <2>2. /\ collateral \subseteq 0 .. made
        /\ \A i \in DOMAIN rows : rows[i].parent <= made
        /\ \A c \in RepoCalls : repoCall[c].number <= made
    BY <1>4, <1>5, <1>6
  <2> QED BY <2>1, <2>2 DEF NumbersInv
<1> QED BY <1>1, <1>3, <1>7 DEF SizeInv

\* A call other than c stays as it is.
LEMMA OthersStay ==
  ASSUME RepoInv, NEW c \in RepoCalls, RepoStep(c)
  PROVE  \A d \in RepoCalls : d # c => repoCall'[d] = repoCall[d]
BY DEF RepoInv, CallsInv, RepoStep, StartsRepoCall, ChecksName, MakesStorage, InsertsRow, CountsFork,
       RenamesRow, DeletesRow, DeletesStorage, AsksStorage, MarksReady, Pushes, RecordsPush, Stars,
       CountsStars, FailsRepoCall, RepoCallEnds, RepoCallGoesTo

\* Who has made its storage makes no other, and a call that did not start to make
\* one never does.
LEMMA CountsKeep ==
  ASSUME SizeInv, NEW c \in RepoCalls, RepoStep(c)
  PROVE  CountInv'
<1> /\ IsFiniteSet(Owing) /\ Cardinality(Owing) \in Nat
    /\ made \in Nat /\ repoStarted \in 0 .. MaxRepoCalls /\ MaxRepoCalls \in Nat
    /\ made + Cardinality(Owing) <= repoStarted + 1
  BY FS_CardinalityType, ReposAssumption DEF SizeInv, CountInv, RepoInv, StoreInv
<1>1. \A d \in RepoCalls : d # c => (d \in Owing' <=> d \in Owing)
  BY OthersStay DEF SizeInv, Owing
<1>2. CASE StartsRepoCall(c)
  <2>1. c \notin Owing /\ repoStarted' = repoStarted + 1 /\ made' = made /\ repoStarted < MaxRepoCalls
    BY <1>2 DEF StartsRepoCall, Owing
  <2>2. Owing' \in SUBSET (Owing \cup {c})
    BY <1>1 DEF Owing
  <2>3. IsFiniteSet(Owing \cup {c}) /\ Cardinality(Owing \cup {c}) = Cardinality(Owing) + 1
    BY <2>1, FS_AddElement
  <2>4. IsFiniteSet(Owing') /\ Cardinality(Owing') \in Nat /\ Cardinality(Owing') <= Cardinality(Owing) + 1
    BY <2>2, <2>3, FS_Subset, FS_CardinalityType
  <2> QED BY <2>1, <2>4 DEF CountInv
<1>3. CASE MakesStorage(c) /\ made' # made
  <2>1. made' = made + 1 /\ repoStarted' = repoStarted /\ c \in Owing
    BY <1>3 DEF MakesStorage, Owing, Makes
  <2>2. c \notin Owing'
    <3>1. repoCall' = [repoCall EXCEPT ![c].at = "row", ![c].number = made + 1]
      BY <1>3 DEF MakesStorage
    <3>2. repoCall[c] \in CallShape /\ repoCall = [d \in RepoCalls |-> repoCall[d]]
      BY DEF SizeInv, RepoInv, CallsInv, CallOK
    <3>3. repoCall'[c].at = "row"
      BY <3>1, <3>2 DEF CallShape
    <3> QED BY <3>3 DEF Owing
  <2>3. Owing' = Owing \ {c}
    BY <1>1, <2>1, <2>2 DEF Owing
  <2>4. IsFiniteSet(Owing \ {c}) /\ Cardinality(Owing \ {c}) = Cardinality(Owing) - 1
    BY <2>1, FS_RemoveElement
  <2> QED BY <2>1, <2>3, <2>4 DEF CountInv
<1>4. CASE ~StartsRepoCall(c) /\ made' = made
  <2>1. c \in Owing' => c \in Owing
    <3>1. repoCall[c] \in CallShape /\ repoCall = [d \in RepoCalls |-> repoCall[d]] /\ CallOK(repoCall[c])
      BY DEF SizeInv, RepoInv, CallsInv, CallOK
    <3>2. CASE RepoCallEnds(c)
      BY <3>1, <3>2 DEF RepoCallEnds, NoRepoCall, Owing, Makes
    <3>3. CASE ChecksName(c)
      BY <3>1, <3>3 DEF ChecksName, RepoCallEnds, RepoCallGoesTo, NoRepoCall, Owing, Makes, CallOK, CallShape
    <3>4. CASE DeletesRow(c)
      BY <3>1, <3>4 DEF DeletesRow, RepoCallGoesTo, Owing, Makes, CallShape
    <3>5. CASE ~RepoCallEnds(c) /\ ~ChecksName(c) /\ ~DeletesRow(c)
      <4>1. CASE MakesStorage(c)
        BY <4>1, <1>4, <3>5 DEF MakesStorage, SizeInv, RepoInv, StoreInv
      <4>2. CASE Pushes(c)
        BY <4>2, <3>1, <3>5 DEF Pushes, Owing, Makes, CallOK, CallShape
      <4>3. CASE InsertsRow(c) \/ AsksStorage(c) \/ MarksReady(c) \/ Stars(c)
        <5>1. \E at \in {"count", "row", "send"} : RepoCallGoesTo(c, at)
          BY <4>3, <3>5 DEF InsertsRow, AsksStorage, MarksReady, Stars
        <5>2. repoCall'[c].at \in {"count", "row", "send"}
          BY <3>1, <5>1 DEF RepoCallGoesTo, CallShape
        <5> QED BY <5>2 DEF Owing
      <4> QED BY <4>1, <4>2, <4>3, <1>4, <3>5
             DEF RepoStep, CountsFork, RenamesRow, DeletesStorage, RecordsPush, CountsStars, FailsRepoCall
    <3> QED BY <3>2, <3>3, <3>4, <3>5
  <2>2. Owing' \in SUBSET Owing
    BY <1>1, <2>1 DEF Owing
  <2>3. IsFiniteSet(Owing') /\ Cardinality(Owing') \in Nat /\ Cardinality(Owing') <= Cardinality(Owing)
    BY <2>2, FS_Subset, FS_CardinalityType
  <2>4. repoStarted' = repoStarted
    BY <1>4 DEF RepoStep, ChecksName, MakesStorage, InsertsRow, CountsFork, RenamesRow, DeletesRow,
                DeletesStorage, AsksStorage, MarksReady, Pushes, RecordsPush, Stars, CountsStars, FailsRepoCall
  <2> QED BY <1>4, <2>3, <2>4 DEF CountInv
<1>5. made' = made \/ MakesStorage(c)
  BY DEF RepoStep, StartsRepoCall, ChecksName, InsertsRow, CountsFork, RenamesRow, DeletesRow,
         DeletesStorage, AsksStorage, MarksReady, Pushes, RecordsPush, Stars, CountsStars, FailsRepoCall
<1> QED BY <1>2, <1>3, <1>4, <1>5

\* Rows, calls and what was taken have numbers that were given.
LEMMA NumbersKeep ==
  ASSUME SizeInv, NEW c \in RepoCalls, RepoStep(c)
  PROVE  NumbersInv'
<1>1. /\ repoCall[c] \in CallShape /\ repoCall = [d \in RepoCalls |-> repoCall[d]] /\ CallOK(repoCall[c])
      /\ made \in Nat
      /\ \A n \in Names : store[n].number <= made /\ store[n].number \in Nat
  BY DEF SizeInv, RepoInv, CallsInv, CallOK, StoreInv
<1>2. made' = made \/ made' = made + 1
  BY DEF RepoStep, StartsRepoCall, ChecksName, MakesStorage, InsertsRow, CountsFork, RenamesRow, DeletesRow,
         DeletesStorage, AsksStorage, MarksReady, Pushes, RecordsPush, Stars, CountsStars, FailsRepoCall
<1>3. collateral' \subseteq 0 .. made'
  <2>1. CASE DeletesStorage(c)
    <3>1. repoCall[c].storage \in Names
      BY <1>1, <2>1 DEF DeletesStorage, CallOK, OfARow
    <3>2. store[repoCall[c].storage].number \in 0 .. made
      BY <1>1, <3>1
    <3>3. collateral' \subseteq collateral \cup {store[repoCall[c].storage].number} /\ made' = made
      BY <2>1 DEF DeletesStorage
    <3> QED BY <3>2, <3>3 DEF SizeInv, NumbersInv
  <2>2. CASE ~DeletesStorage(c)
    <3>1. collateral' = collateral
      BY <2>2 DEF RepoStep, StartsRepoCall, ChecksName, MakesStorage, InsertsRow, CountsFork, RenamesRow,
                  DeletesRow, AsksStorage, MarksReady, Pushes, RecordsPush, Stars, CountsStars, FailsRepoCall
    <3>2. 0 .. made \subseteq 0 .. made'
      BY <1>1, <1>2
    <3> QED BY <3>1, <3>2 DEF SizeInv, NumbersInv
  <2> QED BY <2>1, <2>2
<1>4. lost' \in BOOLEAN
  <2>1. lost' = lost \/ FailsRepoCall(c)
    BY DEF RepoStep, StartsRepoCall, ChecksName, MakesStorage, InsertsRow, CountsFork, RenamesRow, DeletesRow,
           DeletesStorage, AsksStorage, MarksReady, Pushes, RecordsPush, Stars, CountsStars
  <2> QED BY <2>1 DEF FailsRepoCall, SizeInv, NumbersInv
<1>5. repoCall'[c].number <= made'
  <2>1. repoCall[c].number <= made /\ repoCall[c].number \in Nat
    BY <1>1 DEF SizeInv, NumbersInv, CallShape
  <2>2. CASE repoCall'[c].number \in {0, repoCall[c].number}
    BY <1>1, <1>2, <2>1, <2>2
  <2>3. CASE StartsRepoCall(c)
    <3>1. repoCall'[c].number = 0
      <4>1. CASE \E op \in {"createRepo", "importRepo"}, n \in Names :
                   repoCall' = [repoCall EXCEPT ![c] =
                     [NoRepoCall EXCEPT !.op = op, !.target = n, !.at = "check"]]
        BY <1>1, <4>1 DEF NoRepoCall
      <4>2. CASE ~\E op \in {"createRepo", "importRepo"}, n \in Names :
                   repoCall' = [repoCall EXCEPT ![c] =
                     [NoRepoCall EXCEPT !.op = op, !.target = n, !.at = "check"]]
        <5>1. PICK op \in RepoOps \ {"createRepo", "importRepo"}, i \in DOMAIN rows,
                   t \in Names \cup {NoName}, who \in Starrers \cup {NoName} :
                /\ op = "forkRepo" => t \in Names
                /\ repoCall' = [repoCall EXCEPT ![c] =
                     [NoRepoCall EXCEPT !.op = op, !.name = rows[i].name, !.target = t, !.who = who, !.row = i,
                        !.storage = rows[i].storage,
                        !.at = IF op = "push" /\ rows[i].status = "ready" THEN "send" ELSE FirstStep(op)]]
          BY <2>3, <4>2, ZenonT(30) DEF StartsRepoCall
        <5> QED BY <1>1, <5>1 DEF NoRepoCall
      <4> QED BY <4>1, <4>2
    <3> QED BY <3>1, <2>2
  <2>4. CASE MakesStorage(c)
    BY <1>1, <1>2, <2>1, <2>4 DEF MakesStorage, RepoCallEnds, NoRepoCall, CallShape
  <2>5. CASE Pushes(c)
    <3>1. repoCall[c].storage \in Names /\ made' = made
      BY <1>1, <2>5 DEF Pushes, CallOK, OfARow
    <3>2. store[repoCall[c].storage].number <= made
      BY <1>1, <3>1
    <3>3. repoCall'[c].number \in {0, store[repoCall[c].storage].number}
      BY <1>1, <2>5 DEF Pushes, RepoCallEnds, NoRepoCall, CallShape
    <3> QED BY <1>1, <3>1, <3>2, <3>3
  <2>6. CASE ~StartsRepoCall(c) /\ ~MakesStorage(c) /\ ~Pushes(c)
    <3>1. RepoCallEnds(c) \/ \E at : RepoCallGoesTo(c, at)
      BY <2>6 DEF RepoStep, ChecksName, InsertsRow, CountsFork, RenamesRow, DeletesRow,
                  DeletesStorage, AsksStorage, MarksReady, RecordsPush, Stars, CountsStars, FailsRepoCall
    <3>2. repoCall'[c].number \in {0, repoCall[c].number}
      BY <1>1, <3>1 DEF RepoCallEnds, RepoCallGoesTo, NoRepoCall, CallShape
    <3> QED BY <3>2, <2>2
  <2> QED BY <2>3, <2>4, <2>5, <2>6
<1>6. \A d \in RepoCalls : repoCall'[d].number <= made'
  <2> SUFFICES ASSUME NEW d \in RepoCalls, d # c PROVE repoCall'[d].number <= made'
    BY <1>5
  <2>1. repoCall'[d] = repoCall[d] /\ repoCall[d].number <= made /\ repoCall[d].number \in Nat
    BY OthersStay DEF SizeInv, NumbersInv, RepoInv, CallsInv, CallOK, CallShape
  <2> QED BY <1>1, <1>2, <2>1
<1>7. \A i \in DOMAIN rows' : rows'[i].parent <= made'
  <2>1. \A i \in DOMAIN rows : rows[i] \in RowShape /\ rows[i].parent <= made /\ rows[i].parent \in Nat
    BY DEF SizeInv, RepoInv, StoreInv, NumbersInv, RowShape
  <2>2. CASE InsertsRow(c)
    <3>1. repoCall[c].row <= made /\ repoCall[c].row \in Nat /\ made' = made
      BY <1>1, <2>2 DEF InsertsRow, CallOK, CallShape
    <3>2. \A i \in DOMAIN rows' : \/ i \in DOMAIN rows /\ rows'[i] = rows[i]
                                  \/ rows'[i].parent = repoCall[c].row
      BY <2>2 DEF InsertsRow, NewRow
    <3> QED BY <2>1, <3>1, <3>2
  <2>3. CASE ~InsertsRow(c)
    <3>1. \A i \in DOMAIN rows' : i \in DOMAIN rows /\ (rows'[i].parent = 0 \/ rows'[i].parent = rows[i].parent)
      <4>1. CASE CountsFork(c) \/ RenamesRow(c) \/ DeletesRow(c) \/ MarksReady(c) \/ CountsStars(c)
        BY <2>1, <4>1 DEF CountsFork, RenamesRow, DeletesRow, MarksReady, CountsStars, RowShape
      <4>2. CASE Stars(c)
        BY <2>1, <4>2 DEF Stars, RowShape, SizeInv, RepoInv, StoreInv
      <4>3. CASE UNCHANGED rows
        BY <4>3
      <4> QED BY <4>1, <4>2, <4>3, <2>3
             DEF RepoStep, StartsRepoCall, ChecksName, MakesStorage, DeletesStorage, AsksStorage, Pushes,
                 RecordsPush, FailsRepoCall
    <3> QED BY <1>1, <1>2, <2>1, <3>1
  <2> QED BY <2>2, <2>3
<1> QED BY <1>3, <1>4, <1>6, <1>7 DEF NumbersInv

LEMMA SizeInvHolds == ReposSpec => []SizeInv
<1>1. ASSUME SizeInv, ReposNext
      PROVE  SizeInv'
  <2>1. RepoInv'
    BY <1>1, NextRepo DEF SizeInv
  <2>2. CASE \E c \in RepoCalls : RepoStep(c)
    BY <1>1, <2>1, <2>2, CountsKeep, NumbersKeep DEF SizeInv
  <2>3. CASE \E n \in Names : Settles(n)
    <3>1. UNCHANGED <<rows, made, collateral, lost, repoCall, repoStarted>>
      BY <2>3 DEF Settles
    <3>2. CountInv' /\ NumbersInv'
      BY <1>1, <3>1 DEF SizeInv, CountInv, NumbersInv, Owing
    <3> QED BY <2>1, <3>2 DEF SizeInv
  <2> QED BY <1>1, <2>2, <2>3 DEF ReposNext
<1>2. ASSUME SizeInv, UNCHANGED reposVars
      PROVE  SizeInv'
  <2>1. RepoInv'
    BY <1>2, NextRepo DEF SizeInv
  <2>2. CountInv' /\ NumbersInv'
    BY <1>2 DEF SizeInv, CountInv, NumbersInv, Owing, reposVars
  <2> QED BY <2>1, <2>2 DEF SizeInv
<1> QED BY <1>1, <1>2, InitSize, PTL DEF ReposSpec

\* Rows, storages and calls have their types for any constants: no number is given
\* that the bound on calls does not allow, and no row has a parent or a storage
\* that was never made.
THEOREM ReposAreTyped == ReposSpec => []ReposTypeOK
<1>1. ASSUME SizeInv
      PROVE  ReposTypeOK
  <2>1. made \in Nat /\ made <= MaxRepoCalls + 1 /\ MaxRepoCalls \in Nat /\ repoStarted \in 0 .. MaxRepoCalls
    BY <1>1, ReposAssumption, FS_CardinalityType DEF SizeInv, CountInv, RepoInv, StoreInv
  <2>2. 0 .. made \subseteq Number /\ made \in Number
    BY <2>1 DEF Number
  <2>3. DOMAIN rows \subseteq Number \ {0} /\ collateral \subseteq Number /\ lost \in BOOLEAN
    BY <1>1, <2>1 DEF SizeInv, RepoInv, StoreInv, NumbersInv, Number
  <2>4. rows \in [DOMAIN rows -> Row]
    <3>1. rows \in [DOMAIN rows -> RowShape]
      BY <1>1 DEF SizeInv, RepoInv, StoreInv
    <3>2. ASSUME NEW i \in DOMAIN rows PROVE rows[i] \in Row
      <4>1. rows[i] \in RowShape /\ rows[i].parent <= made
        BY <1>1, <3>1 DEF SizeInv, NumbersInv
      <4>2. rows[i].parent \in Number
        BY <2>1, <4>1 DEF RowShape, Number
      <4> QED BY <4>1, <4>2 DEF Row, RowShape
    <3> QED BY <3>1, <3>2
  <2>5. store \in [Names -> [state : {"none", "working", "ready"}, number : Number]]
    <3>1. /\ store \in [Names -> [state : {"none", "working", "ready"}, number : Nat]]
          /\ \A n \in Names : store[n].number <= made
      BY <1>1 DEF SizeInv, RepoInv, StoreInv
    <3>2. \A n \in Names : store[n].number \in Number
      BY <2>1, <3>1 DEF Number
    <3> QED BY <3>1, <3>2
  <2>6. repoCall \in [RepoCalls -> RepoCall]
    <3>1. repoCall = [c \in RepoCalls |-> repoCall[c]]
      BY <1>1 DEF SizeInv, RepoInv, CallsInv
    <3>2. ASSUME NEW c \in RepoCalls PROVE repoCall[c] \in RepoCall
      <4>1. repoCall[c] \in CallShape /\ repoCall[c].row <= made /\ repoCall[c].number <= made
        BY <1>1 DEF SizeInv, RepoInv, CallsInv, CallOK, NumbersInv
      <4>2. repoCall[c].row \in Number /\ repoCall[c].number \in Number
        BY <2>1, <4>1 DEF CallShape, Number
      <4> QED BY <4>1, <4>2 DEF RepoCall, CallShape
    <3> QED BY <3>1, <3>2
  <2> QED BY <2>1, <2>2, <2>3, <2>4, <2>5, <2>6 DEF ReposTypeOK
<1> QED BY <1>1, SizeInvHolds, PTL

-----------------------------------------------------------------------------
(***************************************************************************)
(* Wiki.  Edits that race never undo one another.  First, its types.       *)
(***************************************************************************)

LEMMA AChange ==
  ASSUME WikiTypeOK, NEW e \in Edits
  PROVE  /\ Tip \in Nat
         /\ Current \in Tree
         /\ Changed(e) \in Tree
<1>1. Tip \in Nat
  BY DEF WikiTypeOK, Tip
<1>2. EmptyTree \in Tree
  BY DEF EmptyTree, Tree
<1>3. Current \in Tree
  BY <1>1, <1>2 DEF WikiTypeOK, Current, Tip, NoCommit
<1>4. edit[e].page \in Pages /\ edit[e].text \in Texts \cup {Absent}
  BY DEF WikiTypeOK, Edit
<1>5. Changed(e) \in Tree
  BY <1>3, <1>4 DEF Changed, Tree
<1> QED BY <1>1, <1>3, <1>5

\* Every reachable state has its type: the model of services/wiki.ts never makes a
\* tree of anything but pages, nor counts edits beyond the bound.
THEOREM WikiIsTyped == WikiSpec => []WikiTypeOK
<1>0. NoEdit \in Edit
  BY WikiAssumption DEF NoEdit, Edit, NoCommit, EmptyTree, Tree
<1>1. WikiInit => WikiTypeOK
  <2>1. <<>> \in Seq(Tree)
    OBVIOUS
  <2>2. ASSUME NEW page \in Pages, NEW text \in Texts
        PROVE  <<[EmptyTree EXCEPT ![page] = text]>> \in Seq(Tree)
    <3>1. [EmptyTree EXCEPT ![page] = text] \in Tree
      BY DEF EmptyTree, Tree
    <3> QED BY <3>1
  <2>3. WikiInit => wikiLog \in Seq(Tree)
    BY <2>1, <2>2 DEF WikiInit
  <2> QED BY <1>0, <2>3, WikiAssumption DEF WikiInit, WikiTypeOK
<1>2. WikiTypeOK /\ [WikiNext]_wikiVars => WikiTypeOK'
  <2> SUFFICES ASSUME WikiTypeOK, [WikiNext]_wikiVars PROVE WikiTypeOK'
    OBVIOUS
  <2>1. CASE UNCHANGED wikiVars
    BY <2>1 DEF wikiVars, WikiTypeOK
  <2>2. ASSUME NEW e \in Edits, StartsEdit(e) PROVE WikiTypeOK'
    <3>1. PICK page \in Pages, text \in Texts \cup {Absent} :
            \E expected \in IF text = Absent THEN {NoCommit} ELSE {NoCommit, Unknown} \cup DOMAIN wikiLog :
              edit' = [edit EXCEPT ![e] = [NoEdit EXCEPT !.at = "find", !.page = page, !.text = text,
                                                         !.expected = expected]]
      BY <2>2 DEF StartsEdit
    <3>2. PICK expected \in IF text = Absent THEN {NoCommit} ELSE {NoCommit, Unknown} \cup DOMAIN wikiLog :
            edit' = [edit EXCEPT ![e] = [NoEdit EXCEPT !.at = "find", !.page = page, !.text = text,
                                                       !.expected = expected]]
      BY <3>1
    <3>3. expected \in Nat
      BY WikiAssumption DEF NoCommit, Unknown, WikiTypeOK
    <3>4. [NoEdit EXCEPT !.at = "find", !.page = page, !.text = text, !.expected = expected] \in Edit
      BY <1>0, <3>3 DEF Edit
    <3> QED BY <2>2, <3>2, <3>4, WikiAssumption DEF StartsEdit, WikiTypeOK
  <2>3. ASSUME NEW e \in Edits, FindsWiki(e) PROVE WikiTypeOK'
    BY <2>3, ZenonT(30) DEF FindsWiki, WikiTypeOK, Edit
  <2>4. ASSUME NEW e \in Edits, CreatesWiki(e) PROVE WikiTypeOK'
    <3>1. edit' = [edit EXCEPT ![e].at = "read"] \/ edit' = [edit EXCEPT ![e] = NoEdit]
      BY <2>4 DEF CreatesWiki, EditEnds
    <3>2. [edit EXCEPT ![e].at = "read"] \in [Edits -> Edit]
      BY DEF WikiTypeOK, Edit
    <3>3. [edit EXCEPT ![e] = NoEdit] \in [Edits -> Edit]
      BY <1>0 DEF WikiTypeOK
    <3> QED BY <2>4, <3>1, <3>2, <3>3 DEF CreatesWiki, WikiTypeOK
  <2>5. ASSUME NEW e \in Edits, ReadsHead(e) PROVE WikiTypeOK'
    <3>1. PICK tip \in Nat, tree \in Tree : tip = Tip /\ tree = Changed(e)
      BY AChange
    <3>2. [edit EXCEPT ![e].at = "push", ![e].base = Tip, ![e].tree = Changed(e)] \in [Edits -> Edit]
      <4>1. PICK r \in Edit : r = edit[e]
        BY DEF WikiTypeOK
      <4>2. [r EXCEPT !.at = "push", !.base = tip, !.tree = tree] \in Edit
        BY DEF Edit
      <4>3. [edit EXCEPT ![e] = [r EXCEPT !.at = "push", !.base = tip, !.tree = tree]] \in [Edits -> Edit]
        BY <4>2 DEF WikiTypeOK
      <4>4. [edit EXCEPT ![e].at = "push", ![e].base = tip, ![e].tree = tree]
              = [edit EXCEPT ![e] = [r EXCEPT !.at = "push", !.base = tip, !.tree = tree]]
        BY <4>1 DEF WikiTypeOK
      <4> QED BY <3>1, <4>3, <4>4
    <3>3. [edit EXCEPT ![e] = NoEdit] \in [Edits -> Edit]
      BY <1>0 DEF WikiTypeOK
    <3> QED BY <2>5, <3>2, <3>3 DEF ReadsHead, EditEnds, WikiTypeOK
  <2>6. ASSUME NEW e \in Edits, PushesEdit(e) PROVE WikiTypeOK'
    <3>1. edit[e].tree \in Tree
      BY DEF WikiTypeOK, Edit
    <3> QED BY <1>0, <2>6, <3>1 DEF PushesEdit, EditEnds, WikiTypeOK
  <2>7. ASSUME NEW e \in Edits, FailsEdit(e) PROVE WikiTypeOK'
    BY <1>0, <2>7 DEF FailsEdit, EditEnds, WikiTypeOK
  <2> QED BY <2>1, <2>2, <2>3, <2>4, <2>5, <2>6, <2>7 DEF WikiNext
<1> QED BY <1>1, <1>2, PTL DEF WikiSpec

-----------------------------------------------------------------------------
(***************************************************************************)
(* Wiki: edits.                                                            *)
(***************************************************************************)

TreeAt(log, n) == IF n = NoCommit THEN EmptyTree ELSE log[n]

\* What an edit is about to push is what its base held, changed as it was asked to;
\* commits do not change, so that this outlives the pushes of others.
EditInv ==
  \A e \in Edits : edit[e].at = "push" =>
    /\ edit[e].base \in 0 .. Tip
    /\ edit[e].tree = [TreeAt(wikiLog, edit[e].base) EXCEPT ![edit[e].page] = edit[e].text]
    /\ edit[e].tree # EmptyTree
    /\ edit[e].base # NoCommit => edit[e].expected \in {NoCommit, edit[e].base}

LEMMA EditsKeep ==
  ASSUME WikiTypeOK, EditInv, [WikiNext]_wikiVars
  PROVE  EditInv'
<1> USE DEF NoCommit
<1>0. NoEdit.at = "idle"
  BY DEF NoEdit
<1>1. CASE UNCHANGED wikiVars
  BY <1>1 DEF wikiVars, EditInv, Tip, TreeAt
<1>2. ASSUME NEW e \in Edits, UNCHANGED wikiLog,
             \A f \in Edits \ {e} : edit'[f] = edit[f],
             edit'[e].at # "push"
      PROVE  EditInv'
  BY <1>2 DEF EditInv, Tip, TreeAt
<1>3. ASSUME NEW e \in Edits, StartsEdit(e) PROVE EditInv'
  <2>1. edit'[e].at = "find" /\ wikiLog' = wikiLog /\ \A f \in Edits \ {e} : edit'[f] = edit[f]
    BY <1>3 DEF StartsEdit, WikiTypeOK, NoEdit
  <2> QED BY <1>2, <2>1
<1>4. ASSUME NEW e \in Edits, FindsWiki(e) PROVE EditInv'
  BY <1>2, <1>4 DEF FindsWiki, WikiTypeOK, Edit
<1>5. ASSUME NEW e \in Edits, CreatesWiki(e) PROVE EditInv'
  BY <1>0, <1>2, <1>5 DEF CreatesWiki, EditEnds, WikiTypeOK, Edit
<1>6. ASSUME NEW e \in Edits, ReadsHead(e) PROVE EditInv'
  <2>1. CASE Conflicts(e) \/ Changed(e) = EmptyTree
    BY <1>0, <1>2, <1>6, <2>1 DEF ReadsHead, EditEnds, WikiTypeOK
  <2>2. CASE ~(Conflicts(e) \/ Changed(e) = EmptyTree)
    <3>1. /\ edit' = [edit EXCEPT ![e].at = "push", ![e].base = Tip, ![e].tree = Changed(e)]
          /\ wikiLog' = wikiLog
      BY <1>6, <2>2 DEF ReadsHead
    <3>2. edit'[e].base = Tip /\ edit'[e].tree = Changed(e)
            /\ edit'[e].page = edit[e].page /\ edit'[e].text = edit[e].text
            /\ edit'[e].expected = edit[e].expected
      BY <3>1 DEF WikiTypeOK, Edit
    <3>3. TreeAt(wikiLog, Tip) = Current
      BY DEF TreeAt, Current
    <3>4. Changed(e) = [TreeAt(wikiLog, Tip) EXCEPT ![edit[e].page] = edit[e].text]
      BY <3>3 DEF Changed
    <3>5. Tip \in Nat
      BY DEF WikiTypeOK, Tip
    <3>6. Tip' = Tip /\ \A n : TreeAt(wikiLog', n) = TreeAt(wikiLog, n)
      BY <3>1 DEF Tip, TreeAt
    <3>7. ASSUME NEW f \in Edits, f # e PROVE edit'[f] = edit[f]
      BY <3>1, <3>7 DEF WikiTypeOK
    <3>8. Tip # NoCommit => edit[e].expected \in {NoCommit, Tip}
      BY <2>2 DEF Conflicts
    <3> SUFFICES ASSUME NEW f \in Edits, edit'[f].at = "push"
                 PROVE  /\ edit'[f].base \in 0 .. Tip
                        /\ edit'[f].tree = [TreeAt(wikiLog, edit'[f].base) EXCEPT ![edit'[f].page] = edit'[f].text]
                        /\ edit'[f].tree # EmptyTree
                        /\ edit'[f].base # NoCommit => edit'[f].expected \in {NoCommit, edit'[f].base}
      BY <3>6 DEF EditInv
    <3>9. CASE f = e
      <4>1. Tip \in 0 .. Tip
        BY <3>5
      <4>2. edit'[e].tree = [TreeAt(wikiLog, edit'[e].base) EXCEPT ![edit'[e].page] = edit'[e].text]
        BY <3>2, <3>4
      <4>3. edit'[e].tree # EmptyTree
        BY <2>2, <3>2
      <4>4. edit'[e].base # NoCommit => edit'[e].expected \in {NoCommit, edit'[e].base}
        BY <3>2, <3>8
      <4> QED BY <3>2, <3>9, <4>1, <4>2, <4>3, <4>4
    <3>10. CASE f # e
      BY <3>7, <3>10 DEF EditInv
    <3> QED BY <3>9, <3>10
  <2> QED BY <2>1, <2>2
<1>7. ASSUME NEW e \in Edits, PushesEdit(e) PROVE EditInv'
  <2>1. CASE ~Accepts(e)
    BY <1>0, <1>2, <1>7, <2>1 DEF PushesEdit, EditEnds, WikiTypeOK
  <2>2. CASE Accepts(e)
    <3>1. wikiLog' = Append(wikiLog, edit[e].tree)
      BY <1>7, <2>2 DEF PushesEdit
    <3>2. edit[e].tree \in Tree
      BY DEF WikiTypeOK, Edit
    <3>3. Tip \in Nat /\ Tip' = Tip + 1
      BY <3>1, <3>2 DEF WikiTypeOK, Tip
    <3>4. \A n \in 0 .. Tip : TreeAt(wikiLog', n) = TreeAt(wikiLog, n)
      BY <3>1, <3>2 DEF WikiTypeOK, Tip, TreeAt
    <3>5. ASSUME NEW f \in Edits, edit'[f].at = "push" PROVE edit'[f] = edit[f]
      BY <1>0, <1>7, <3>5 DEF PushesEdit, EditEnds, WikiTypeOK
    <3> SUFFICES ASSUME NEW f \in Edits, edit'[f].at = "push"
                 PROVE  /\ edit'[f].base \in 0 .. Tip'
                        /\ edit'[f].tree = [TreeAt(wikiLog', edit'[f].base) EXCEPT ![edit'[f].page] = edit'[f].text]
                        /\ edit'[f].tree # EmptyTree
                        /\ edit'[f].base # NoCommit => edit'[f].expected \in {NoCommit, edit'[f].base}
      BY DEF EditInv
    <3>6. edit'[f] = edit[f]
      BY <3>5
    <3>7. edit[f].base \in 0 .. Tip
      BY <3>6 DEF EditInv
    <3>8. TreeAt(wikiLog', edit'[f].base) = TreeAt(wikiLog, edit[f].base)
      BY <3>4, <3>6, <3>7
    <3> QED BY <3>3, <3>6, <3>7, <3>8 DEF EditInv
  <2> QED BY <2>1, <2>2
<1>8. ASSUME NEW e \in Edits, FailsEdit(e) PROVE EditInv'
  BY <1>0, <1>2, <1>8 DEF FailsEdit, EditEnds, WikiTypeOK
<1> QED BY <1>1, <1>3, <1>4, <1>5, <1>6, <1>7, <1>8 DEF WikiNext

\* What each step asks, saves or answers, with the clones and commits left out.
LEMMA EditsAskedKeep ==
  ASSUME WikiTypeOK, NEW e \in Edits, edit'[e].at # "idle", edit[e].at # "idle",
         \A f \in Edits \ {e} : edit'[f] = edit[f],
         edit'[e].page = edit[e].page, edit'[e].text = edit[e].text,
         edit'[e].expected = edit[e].expected
  PROVE  EditsAsked' = EditsAsked
<1>1. \A f \in Edits : EditAsked(f)' = EditAsked(f) /\ (edit'[f].at = "idle" <=> edit[f].at = "idle")
  BY DEF EditAsked
<1> QED BY <1>1 DEF EditsAsked

LEMMA EditIsAnswered ==
  ASSUME WikiTypeOK, NEW e \in Edits, edit[e].at # "idle", EditEnds(e)
  PROVE  /\ EditAsked(e) \in EditsAsked
         /\ EditsAsked' = EditsAsked \ {EditAsked(e)}
<1>1. edit'[e].at = "idle" /\ \A f \in Edits \ {e} : edit'[f] = edit[f]
  BY DEF EditEnds, NoEdit, WikiTypeOK
<1>2. \A f \in Edits : EditAsked(f).by = f
  BY DEF EditAsked
<1>3. \A f \in Edits \ {e} : EditAsked(f)' = EditAsked(f)
  BY <1>1 DEF EditAsked
<1>4. ASSUME NEW r \in EditsAsked', r # EditAsked(e) PROVE r \in EditsAsked
  <2>1. PICK f \in Edits : edit'[f].at # "idle" /\ r = EditAsked(f)'
    BY <1>4 DEF EditsAsked
  <2> QED BY <1>1, <1>3, <2>1 DEF EditsAsked
<1>5. EditAsked(e) \notin EditsAsked'
  <2> SUFFICES ASSUME NEW f \in Edits, edit'[f].at # "idle", EditAsked(e) = EditAsked(f)' PROVE FALSE
    BY DEF EditsAsked
  <2>1. f # e
    BY <1>1
  <2> QED BY <1>2, <1>3, <2>1
<1>6. ASSUME NEW r \in EditsAsked, r # EditAsked(e) PROVE r \in EditsAsked'
  <2>1. PICK f \in Edits : edit[f].at # "idle" /\ r = EditAsked(f)
    BY <1>6 DEF EditsAsked
  <2>2. f # e
    BY <1>6, <2>1
  <2> QED BY <1>1, <1>3, <2>1, <2>2 DEF EditsAsked
<1>7. EditAsked(e) \in EditsAsked
  BY DEF EditsAsked
<1>8. \A r \in EditsAsked' : r \in EditsAsked \ {EditAsked(e)}
  BY <1>4, <1>5
<1> QED BY <1>6, <1>7, <1>8

LEMMA EditIsAsked ==
  ASSUME WikiTypeOK, NEW e \in Edits, StartsEdit(e)
  PROVE  Pages0!Ask
<1>1. PICK page \in Pages, text \in Texts \cup {Absent} :
        \E expected \in IF text = Absent THEN {NoCommit} ELSE {NoCommit, Unknown} \cup DOMAIN wikiLog :
          edit' = [edit EXCEPT ![e] = [NoEdit EXCEPT !.at = "find", !.page = page, !.text = text,
                                                     !.expected = expected]]
  BY DEF StartsEdit
<1>2. PICK expected :
        edit' = [edit EXCEPT ![e] = [NoEdit EXCEPT !.at = "find", !.page = page, !.text = text,
                                                   !.expected = expected]]
  BY <1>1
<1>3. /\ edit'[e].at = "find" /\ edit'[e].page = page
      /\ \A f \in Edits \ {e} : edit'[f] = edit[f]
  BY <1>2 DEF WikiTypeOK, NoEdit
<1>4. \A f \in Edits \ {e} : EditAsked(f)' = EditAsked(f)
  BY <1>3 DEF EditAsked
<1>5. edit[e].at = "idle" /\ wikiLog' = wikiLog
  BY DEF StartsEdit
<1>6. EditsAsked' = EditsAsked \cup {EditAsked(e)'}
  <2>1. ASSUME NEW r \in EditsAsked' PROVE r \in EditsAsked \cup {EditAsked(e)'}
    <3>1. PICK f \in Edits : edit'[f].at # "idle" /\ r = EditAsked(f)'
      BY <2>1 DEF EditsAsked
    <3> QED BY <1>3, <1>4, <3>1 DEF EditsAsked
  <2>2. ASSUME NEW r \in EditsAsked PROVE r \in EditsAsked'
    <3>1. PICK f \in Edits : edit[f].at # "idle" /\ r = EditAsked(f)
      BY <2>2 DEF EditsAsked
    <3> QED BY <1>3, <1>4, <1>5, <3>1 DEF EditsAsked
  <2>3. EditAsked(e)' \in EditsAsked'
    BY <1>3 DEF EditsAsked
  <2> QED BY <2>1, <2>2, <2>3
<1>7. EditAsked(e)' \in EditsAsked'
  BY <1>6
<1>8. EditAsked(e)'.page \in Pages /\ EditAsked(e)'.by = e
  BY <1>3 DEF EditAsked
<1>9. \A q \in EditsAsked : q.by # e
  BY <1>5 DEF EditsAsked, EditAsked
<1> QED BY <1>5, <1>6, <1>7, <1>8, <1>9 DEF Pages0!Ask

\* The push that moves the branch saves one request; any other answers it without.
LEMMA PushIsAtomic ==
  ASSUME WikiTypeOK, EditInv, NEW e \in Edits, PushesEdit(e), Accepts(e)
  PROVE  Pages0!Save(EditAsked(e))
<1>1. wikiLog' = Append(wikiLog, edit[e].tree) /\ edit[e].at = "push"
  BY DEF PushesEdit
<1>2. Tip \in Nat /\ (Tip = NoCommit <=> wikiLog = <<>>)
  BY DEF WikiTypeOK, Tip, NoCommit
<1>3. TreeAt(wikiLog, edit[e].base) = Pages0!Latest
  BY <1>2 DEF Accepts, TreeAt, Tip, Pages0!Latest, Pages0!Blank, EmptyTree
<1>4. edit[e].tree = Pages0!Edited(EditAsked(e))
  BY <1>1, <1>3 DEF EditInv, EditAsked, Pages0!Edited
<1>5. Pages0!Edited(EditAsked(e)) # Pages0!Blank
  BY <1>1, <1>4 DEF EditInv, Pages0!Blank, EmptyTree
<1>6. wikiLog # <<>> => EditAsked(e).seen \in {NoCommit, Len(wikiLog)}
  BY <1>1, <1>2 DEF EditInv, Accepts, EditAsked, Tip
<1>7. EditsAsked' = EditsAsked \ {EditAsked(e)}
  BY <1>1, EditIsAnswered DEF PushesEdit
<1> QED BY <1>1, <1>4, <1>5, <1>6, <1>7 DEF Pages0!Save

LEMMA WikiNextIsAtomic ==
  ASSUME WikiTypeOK, EditInv, [WikiNext]_wikiVars
  PROVE  [Pages0!Next]_Pages0!vars
<1> USE DEF Pages0!vars
<1>1. CASE UNCHANGED wikiVars
  BY <1>1 DEF wikiVars, EditsAsked, EditAsked
<1>2. ASSUME NEW e \in Edits, edit[e].at # "idle", EditEnds(e), wikiLog' = wikiLog
      PROVE  Pages0!Next
  BY <1>2, EditIsAnswered DEF Pages0!Next, Pages0!Refuse
<1>3. ASSUME NEW e \in Edits, StartsEdit(e) PROVE Pages0!Next
  BY <1>3, EditIsAsked DEF Pages0!Next
<1>4. ASSUME NEW e \in Edits, FindsWiki(e) PROVE UNCHANGED Pages0!vars
  <2>1. /\ edit'[e].at # "idle" /\ edit[e].at # "idle" /\ wikiLog' = wikiLog
        /\ \A f \in Edits \ {e} : edit'[f] = edit[f]
        /\ edit'[e].page = edit[e].page /\ edit'[e].text = edit[e].text
        /\ edit'[e].expected = edit[e].expected
    BY <1>4 DEF FindsWiki, WikiTypeOK, Edit
  <2> QED BY <2>1, EditsAskedKeep
<1>5. ASSUME NEW e \in Edits, CreatesWiki(e) PROVE [Pages0!Next]_Pages0!vars
  <2>1. CASE edit' = [edit EXCEPT ![e].at = "read"]
    <3>1. /\ edit'[e].at # "idle" /\ edit[e].at # "idle" /\ wikiLog' = wikiLog
          /\ \A f \in Edits \ {e} : edit'[f] = edit[f]
          /\ edit'[e].page = edit[e].page /\ edit'[e].text = edit[e].text
          /\ edit'[e].expected = edit[e].expected
      BY <1>5, <2>1 DEF CreatesWiki, WikiTypeOK, Edit
    <3> QED BY <3>1, EditsAskedKeep
  <2>2. CASE EditEnds(e)
    BY <1>2, <1>5, <2>2 DEF CreatesWiki
  <2> QED BY <1>5, <2>1, <2>2 DEF CreatesWiki
<1>6. ASSUME NEW e \in Edits, ReadsHead(e) PROVE [Pages0!Next]_Pages0!vars
  <2>1. CASE edit' = [edit EXCEPT ![e].at = "push", ![e].base = Tip, ![e].tree = Changed(e)]
    <3>1. /\ edit'[e].at # "idle" /\ edit[e].at # "idle" /\ wikiLog' = wikiLog
          /\ \A f \in Edits \ {e} : edit'[f] = edit[f]
          /\ edit'[e].page = edit[e].page /\ edit'[e].text = edit[e].text
          /\ edit'[e].expected = edit[e].expected
      BY <1>6, <2>1 DEF ReadsHead, WikiTypeOK, Edit
    <3> QED BY <3>1, EditsAskedKeep
  <2>2. CASE EditEnds(e)
    BY <1>2, <1>6, <2>2 DEF ReadsHead
  <2> QED BY <1>6, <2>1, <2>2 DEF ReadsHead
<1>7. ASSUME NEW e \in Edits, PushesEdit(e) PROVE Pages0!Next
  <2>1. edit[e].at # "idle" /\ EditEnds(e)
    BY <1>7 DEF PushesEdit
  <2>2. CASE Accepts(e)
    BY <1>7, <2>1, <2>2, PushIsAtomic, EditIsAnswered DEF Pages0!Next
  <2>3. CASE ~Accepts(e)
    BY <1>2, <1>7, <2>1, <2>3 DEF PushesEdit
  <2> QED BY <2>2, <2>3
<1>8. ASSUME NEW e \in Edits, FailsEdit(e) PROVE Pages0!Next
  BY <1>2, <1>8 DEF FailsEdit
<1> QED BY <1>1, <1>3, <1>4, <1>5, <1>6, <1>7, <1>8 DEF WikiNext

\* However many edits of any pages race or fail, each is made at one instant, on what
\* is there at that instant, or not at all: writeWikiTree loses no edit.
THEOREM WikiKeepsItsPromise == WikiSpec => EditsAreAtomic
<1>1. WikiInit => EditInv
  BY DEF WikiInit, EditInv, NoEdit
<1>2. WikiInit => Pages0!Init
  BY DEF WikiInit, NoEdit, EditsAsked, Pages0!Init
<1>3. WikiTypeOK /\ EditInv /\ [WikiNext]_wikiVars => EditInv'
  BY EditsKeep
<1>4. WikiTypeOK /\ EditInv /\ [WikiNext]_wikiVars => [Pages0!Next]_Pages0!vars
  BY WikiNextIsAtomic
<1> QED BY <1>1, <1>2, <1>3, <1>4, WikiIsTyped, PTL DEF WikiSpec, EditsAreAtomic, Pages0!Spec

-----------------------------------------------------------------------------
(***************************************************************************)
(* Releases.  However calls interleave or fail, a published release has    *)
(* its date and its event.  First, the inductive invariant.                *)
(***************************************************************************)

Said(i) ==
  \/ i \in announced \cup unannounced
  \/ \E c \in ReleaseCalls : releaseCall[c].at = "emit" /\ releaseCall[c].id = i

Dated(row) == row.draft <=> row.published = Never

RowInv == \A i \in DOMAIN releases : Dated(releases[i]) /\ (releases[i].draft \/ Said(i))

\* What a handler read may be stale, but not what it says of the announcement.
CallInv ==
  \A c \in ReleaseCalls : releaseCall[c].at # "idle" =>
    /\ Dated(releaseCall[c].row)
    /\ releaseCall[c].id \in Ids
    /\ releaseCall[c].op \in {"updateRelease", "createAssetUpload"} => releaseCall[c].asset \in Ids
    /\ releaseCall[c].op = "updateRelease" => releaseCall[c].row.draft \/ Said(releaseCall[c].id)
         \/ releaseCall[c].at = "emit"

IInv == ReleasesTypeOK /\ RowInv /\ CallInv

LEMMA IInvIsEnough == IInv => PublishedIsAnnounced
BY DEF IInv, RowInv, Dated, Said, PublishedIsAnnounced

LEMMA NoCallIsIdle == NoReleaseCall \in ReleaseCall /\ NoReleaseCall.at = "idle"
<1>1. SomeTag \in Tags /\ SomeFile \in Files
  BY ReleasesAssumption DEF SomeTag, SomeFile
<1>2. [tag |-> SomeTag, draft |-> TRUE, published |-> Never] \in Release
  BY <1>1 DEF Release
<1> QED BY <1>1, <1>2 DEF NoReleaseCall, ReleaseCall

LEMMA CallHasFields ==
  ASSUME ReleasesTypeOK, NEW c \in ReleaseCalls
  PROVE  /\ DOMAIN releaseCall = ReleaseCalls
         /\ releaseCall[c] \in ReleaseCall
         /\ DOMAIN releaseCall[c] = {"op", "at", "id", "row", "file", "asset"}
         /\ releaseCall[c].row \in Release
         /\ releaseCall[c].file \in Files
         /\ releaseCall[c].id \in {0} \cup Ids
BY DEF ReleasesTypeOK, ReleaseCall

-----------------------------------------------------------------------------
(***************************************************************************)
(* Releases: starting a call.                                              *)
(***************************************************************************)

\* A call knows what its row said; with that it may be late, but not wrong.
LEMMA StartKeepsIInv ==
  ASSUME IInv, NEW c \in ReleaseCalls, StartsReleaseCall(c)
  PROVE  IInv'
<1> USE CallHasFields DEF IInv
<1>1. releaseStarted + 1 \in Ids /\ releaseStarted' = releaseStarted + 1 /\ releaseStarted' \in 0 .. MaxReleaseCalls
  <2>1. releaseStarted \in 0 .. MaxReleaseCalls
    BY DEF ReleasesTypeOK
  <2>2. releaseStarted < MaxReleaseCalls /\ releaseStarted' = releaseStarted + 1
    BY DEF StartsReleaseCall
  <2> QED BY <2>1, <2>2, ReleasesAssumption DEF Ids
<1>2. UNCHANGED <<releases, assets, announced, unannounced>>
  BY DEF StartsReleaseCall, releaseTables
<1>3. SomeTag \in Tags /\ SomeFile \in Files
  BY ReleasesAssumption DEF SomeTag, SomeFile
<1>4. \A i \in DOMAIN releases : i \in Ids /\ releases[i] \in Release
  BY DEF ReleasesTypeOK
<1> DEFINE Fits(r) ==
      /\ r \in ReleaseCall
      /\ r.at = "write"
      /\ Dated(r.row)
      /\ r.id \in Ids
      /\ r.op \in {"updateRelease", "createAssetUpload"} => r.asset \in Ids
      /\ r.op = "updateRelease" => r.row.draft \/ Said(r.id)
<1>5. \E r : releaseCall' = [releaseCall EXCEPT ![c] = r] /\ Fits(r)
  <2>1. ASSUME NEW t \in Tags, NEW draft \in BOOLEAN,
               releaseCall' = [releaseCall EXCEPT ![c] =
                 [op |-> "createRelease", at |-> "write", id |-> releaseStarted + 1,
                  row |-> [tag |-> t, draft |-> draft, published |-> IF draft THEN Never ELSE releaseStarted + 1],
                  file |-> SomeFile, asset |-> 0]]
        PROVE  \E r : releaseCall' = [releaseCall EXCEPT ![c] = r] /\ Fits(r)
    <3> DEFINE row == [tag |-> t, draft |-> draft, published |-> IF draft THEN Never ELSE releaseStarted + 1]
               r == [op |-> "createRelease", at |-> "write", id |-> releaseStarted + 1,
                     row |-> row, file |-> SomeFile, asset |-> 0]
    <3>1. row \in Release /\ Dated(row)
      BY <1>1 DEF Release, Dated, Ids, Never
    <3> HIDE DEF row
    <3>2. Fits(r)
      BY <1>1, <1>3, <3>1 DEF ReleaseCall, ReleaseOps
    <3> QED BY <2>1, <3>2 DEF row
  <2>2. ASSUME NEW op \in {"updateRelease", "deleteRelease"}, NEW i \in DOMAIN releases,
               releaseCall' = [releaseCall EXCEPT ![c] =
                 [op |-> op, at |-> "write", id |-> i, row |-> releases[i],
                  file |-> SomeFile, asset |-> releaseStarted + 1]]
        PROVE  \E r : releaseCall' = [releaseCall EXCEPT ![c] = r] /\ Fits(r)
    <3> DEFINE r == [op |-> op, at |-> "write", id |-> i, row |-> releases[i],
                     file |-> SomeFile, asset |-> releaseStarted + 1]
    <3>1. Dated(releases[i]) /\ (releases[i].draft \/ Said(i))
      BY DEF RowInv
    <3>2. Fits(r)
      BY <1>1, <1>3, <1>4, <3>1 DEF ReleaseCall, ReleaseOps
    <3> QED BY <2>2, <3>2
  <2>3. ASSUME NEW i \in DOMAIN releases, NEW f \in Files,
               releaseCall' = [releaseCall EXCEPT ![c] =
                 [op |-> "createAssetUpload", at |-> "write", id |-> i, row |-> releases[i],
                  file |-> f, asset |-> releaseStarted + 1]]
        PROVE  \E r : releaseCall' = [releaseCall EXCEPT ![c] = r] /\ Fits(r)
    <3> DEFINE r == [op |-> "createAssetUpload", at |-> "write", id |-> i, row |-> releases[i],
                     file |-> f, asset |-> releaseStarted + 1]
    <3>1. Dated(releases[i])
      BY DEF RowInv
    <3>2. Fits(r)
      BY <1>1, <1>4, <3>1 DEF ReleaseCall, ReleaseOps
    <3> QED BY <2>3, <3>2
  <2>4. ASSUME NEW k \in DOMAIN assets,
               releaseCall' = [releaseCall EXCEPT ![c] =
                 [op |-> "deleteAsset", at |-> "write", id |-> k[1], row |-> releases[k[1]],
                  file |-> k[2], asset |-> assets[k]]]
        PROVE  \E r : releaseCall' = [releaseCall EXCEPT ![c] = r] /\ Fits(r)
    <3> DEFINE r == [op |-> "deleteAsset", at |-> "write", id |-> k[1], row |-> releases[k[1]],
                     file |-> k[2], asset |-> assets[k]]
    <3>1. k[1] \in DOMAIN releases /\ k[2] \in Files /\ assets[k] \in Ids
      BY DEF ReleasesTypeOK
    <3>2. Dated(releases[k[1]])
      BY <3>1 DEF RowInv
    <3>3. Fits(r)
      BY <1>4, <3>1, <3>2 DEF ReleaseCall, ReleaseOps
    <3> QED BY <2>4, <3>3
  <2> QED BY <2>1, <2>2, <2>3, <2>4 DEF StartsReleaseCall
<1>6. PICK r : releaseCall' = [releaseCall EXCEPT ![c] = r] /\ Fits(r)
  BY <1>5
<1>7. ASSUME NEW i, Said(i) PROVE Said(i)'
  BY <1>2, <1>6, <1>7 DEF Said, StartsReleaseCall
<1>8. ReleasesTypeOK'
  BY <1>1, <1>2, <1>6 DEF ReleasesTypeOK
<1>9. RowInv'
  BY <1>2, <1>7 DEF RowInv
<1>10. CallInv'
  BY <1>6, <1>7 DEF CallInv
<1> QED BY <1>8, <1>9, <1>10

-----------------------------------------------------------------------------
(***************************************************************************)
(* Releases: going on.                                                     *)
(***************************************************************************)

Proceeds(c) ==
  \/ InsertsRelease(c) \/ RewritesRelease(c) \/ Announces(c) \/ DeletesRelease(c)
  \/ UpsertsAsset(c) \/ DeletesAsset(c) \/ FailsReleaseCall(c)

\* A call ends, or has its event left to emit.
LEMMA OnlyOneMoves ==
  ASSUME IInv, NEW c \in ReleaseCalls, Proceeds(c)
  PROVE  /\ releaseCall[c].at # "idle"
         /\ releaseStarted' = releaseStarted
         /\ \/ releaseCall' = [releaseCall EXCEPT ![c] = NoReleaseCall]
            \/ releaseCall[c].at = "write" /\ releaseCall' = [releaseCall EXCEPT ![c].at = "emit"]
BY DEF Proceeds, InsertsRelease, RewritesRelease, Announces, DeletesRelease, UpsertsAsset, DeletesAsset,
   FailsReleaseCall, ReleaseCallEnds

\* What was said stays said: a call about to emit does so, or goes and is on record.
LEMMA SaidStays ==
  ASSUME IInv, NEW c \in ReleaseCalls, Proceeds(c), NEW i, Said(i)
  PROVE  Said(i)'
<1> USE CallHasFields, NoCallIsIdle DEF IInv
<1>1. announced \subseteq announced' /\ unannounced \subseteq unannounced'
  BY DEF Proceeds, InsertsRelease, RewritesRelease, Announces, DeletesRelease, UpsertsAsset, DeletesAsset,
     FailsReleaseCall
<1>2. CASE i \in announced \cup unannounced
  BY <1>1, <1>2 DEF Said
<1>3. ASSUME NEW d \in ReleaseCalls, releaseCall[d].at = "emit", releaseCall[d].id = i
      PROVE  Said(i)'
  <2>1. CASE d # c
    <3>1. releaseCall'[d] = releaseCall[d]
      BY <2>1, OnlyOneMoves
    <3> QED BY <1>3, <3>1 DEF Said
  <2>2. CASE d = c
    <3>1. i \in announced' \cup unannounced'
      BY <1>3, <2>2 DEF Proceeds, InsertsRelease, RewritesRelease, Announces, DeletesRelease, UpsertsAsset,
         DeletesAsset, FailsReleaseCall
    <3> QED BY <3>1 DEF Said
  <2> QED BY <2>1, <2>2
<1> QED BY <1>2, <1>3 DEF Said

LEMMA CallInvKept ==
  ASSUME IInv, NEW c \in ReleaseCalls, Proceeds(c)
  PROVE  CallInv' /\ releaseCall' \in [ReleaseCalls -> ReleaseCall]
<1> USE CallHasFields, NoCallIsIdle DEF IInv
<1>1. releaseCall' \in [ReleaseCalls -> ReleaseCall]
  <2>1. [releaseCall[c] EXCEPT !.at = "emit"] \in ReleaseCall
    BY DEF ReleaseCall
  <2> QED BY <2>1, OnlyOneMoves DEF ReleasesTypeOK
<1>2. ASSUME NEW d \in ReleaseCalls, releaseCall'[d].at # "idle"
      PROVE  /\ Dated(releaseCall'[d].row)
             /\ releaseCall'[d].id \in Ids
             /\ releaseCall'[d].op \in {"updateRelease", "createAssetUpload"} => releaseCall'[d].asset \in Ids
             /\ releaseCall'[d].op = "updateRelease" => releaseCall'[d].row.draft \/ Said(releaseCall[d].id)'
                  \/ releaseCall'[d].at = "emit"
  <2>1. CASE releaseCall'[d] = releaseCall[d]
    BY <1>2, <2>1, SaidStays DEF CallInv
  <2>2. CASE d = c /\ releaseCall'[d] = [releaseCall[d] EXCEPT !.at = "emit"]
    BY <1>2, <2>2, OnlyOneMoves DEF CallInv
  <2> QED BY <1>2, <2>1, <2>2, OnlyOneMoves
<1>3. \A d \in ReleaseCalls : releaseCall'[d].at # "idle" => releaseCall'[d].id = releaseCall[d].id
  BY OnlyOneMoves
<1>4. CallInv'
  BY <1>2, <1>3 DEF CallInv, Dated, Said
<1> QED BY <1>1, <1>4

\* A row that is written over says of its announcement what its writer knew of it.
LEMMA RowInvKept ==
  ASSUME IInv, NEW c \in ReleaseCalls, Proceeds(c)
  PROVE  /\ RowInv'
         /\ DOMAIN releases' \subseteq Ids
         /\ releases' \in [DOMAIN releases' -> Release]
<1> USE CallHasFields DEF IInv
<1>0. \A i \in DOMAIN releases : releases[i] \in Release /\ DOMAIN releases[i] = {"tag", "draft", "published"}
  BY DEF ReleasesTypeOK, Release
<1>1. CASE UNCHANGED releases
  BY <1>1, SaidStays DEF RowInv, Dated, ReleasesTypeOK
<1>2. CASE InsertsRelease(c) /\ ~ UNCHANGED releases
  <2> DEFINE row == releaseCall[c].row
  <2>0. PICK i : i = releaseCall[c].id
    OBVIOUS
  <2>1. /\ releases' = [j \in DOMAIN releases \cup {i} |-> IF j = i THEN row ELSE releases[j]]
        /\ row.draft \/ releaseCall' = [releaseCall EXCEPT ![c].at = "emit"]
        /\ releaseCall[c].at # "idle"
    BY <1>2, <2>0 DEF InsertsRelease
  <2>2. i \in Ids /\ Dated(row)
    BY <2>0, <2>1 DEF CallInv
  <2>3. row.draft \/ Said(i)'
    BY <2>0, <2>1 DEF Said
  <2>4. RowInv'
    BY <2>1, <2>2, <2>3, SaidStays DEF RowInv, Dated
  <2> QED BY <1>0, <2>1, <2>2, <2>4 DEF ReleasesTypeOK
<1>3. CASE RewritesRelease(c)
  <2> DEFINE was == releaseCall[c].row
  <2>0. PICK i : i = releaseCall[c].id
    OBVIOUS
  <2>1. PICK nowDraft \in BOOLEAN :
          /\ releases' = [j \in DOMAIN releases |->
               IF j = i THEN [releases[j] EXCEPT !.draft = nowDraft,
                                                 !.published = PublishedAt(was, nowDraft, releaseCall[c].asset)]
               ELSE releases[j]]
          /\ was.draft /\ ~nowDraft => releaseCall' = [releaseCall EXCEPT ![c].at = "emit"]
    BY <1>3, <2>0 DEF RewritesRelease
  <2>2. /\ releaseCall[c].asset \in Ids
        /\ Dated(was)
        /\ was.draft \/ Said(i)
    BY <1>3, <2>0 DEF RewritesRelease, CallInv
  <2>3. /\ PublishedAt(was, nowDraft, releaseCall[c].asset) \in {Never} \cup Ids
        /\ nowDraft <=> PublishedAt(was, nowDraft, releaseCall[c].asset) = Never
    BY <2>2 DEF PublishedAt, Dated, Never, Ids, Release
  <2>4. nowDraft \/ Said(i)'
    <3>1. CASE was.draft /\ ~nowDraft
      <4>1. releaseCall'[c].at = "emit" /\ releaseCall'[c].id = i
        BY <2>0, <2>1, <3>1
      <4> QED BY <4>1 DEF Said
    <3>2. CASE Said(i)
      BY <3>2, SaidStays
    <3> QED BY <2>2, <3>1, <3>2
  <2>5. ASSUME NEW j \in DOMAIN releases'
        PROVE  releases'[j] \in Release /\ Dated(releases'[j]) /\ (releases'[j].draft \/ Said(j)')
    <3>1. CASE j = i
      <4>1. releases'[j] = [releases[j] EXCEPT !.draft = nowDraft,
                                                !.published = PublishedAt(was, nowDraft, releaseCall[c].asset)]
        BY <2>1, <3>1
      <4>2. /\ releases'[j].draft = nowDraft
            /\ releases'[j].published = PublishedAt(was, nowDraft, releaseCall[c].asset)
            /\ releases'[j].tag = releases[j].tag
        BY <1>0, <2>1, <4>1
      <4>3. releases'[j] \in Release
        BY <1>0, <2>1, <2>3, <4>1 DEF Release
      <4> QED BY <2>3, <2>4, <3>1, <4>2, <4>3 DEF Dated
    <3>2. CASE j # i
      BY <1>0, <2>1, <3>2, SaidStays DEF RowInv
    <3> QED BY <3>1, <3>2
  <2>6. DOMAIN releases' = DOMAIN releases /\ releases' = [j \in DOMAIN releases' |-> releases'[j]]
    BY <2>1
  <2> QED BY <2>5, <2>6 DEF RowInv, Dated, ReleasesTypeOK
<1>4. CASE DeletesRelease(c)
  BY <1>0, <1>4, SaidStays DEF DeletesRelease, RowInv, Dated, ReleasesTypeOK
<1>5. CASE Announces(c) \/ UpsertsAsset(c) \/ DeletesAsset(c) \/ FailsReleaseCall(c)
  BY <1>1, <1>5 DEF Announces, UpsertsAsset, DeletesAsset, FailsReleaseCall
<1> QED BY <1>1, <1>2, <1>3, <1>4, <1>5 DEF Proceeds

LEMMA TypeKept ==
  ASSUME IInv, NEW c \in ReleaseCalls, Proceeds(c)
  PROVE  ReleasesTypeOK'
<1> USE CallHasFields DEF IInv
<1>1. announced' \subseteq Ids /\ unannounced' \subseteq Ids
  BY DEF Proceeds, InsertsRelease, RewritesRelease, Announces, DeletesRelease, UpsertsAsset, DeletesAsset,
     FailsReleaseCall, CallInv, ReleasesTypeOK
<1>2. DOMAIN assets' \subseteq (DOMAIN releases') \X Files /\ assets' \in [DOMAIN assets' -> Ids]
  <2>1. CASE UNCHANGED assets /\ DOMAIN releases \subseteq DOMAIN releases'
    BY <2>1 DEF ReleasesTypeOK
  <2>2. CASE InsertsRelease(c) \/ RewritesRelease(c) \/ Announces(c) \/ FailsReleaseCall(c)
    BY <2>1, <2>2 DEF InsertsRelease, RewritesRelease, Announces, FailsReleaseCall
  <2>3. CASE DeletesRelease(c)
    <3>1. /\ DOMAIN releases' = DOMAIN releases \ {releaseCall[c].id}
          /\ assets' = [k \in {l \in DOMAIN assets : l[1] # releaseCall[c].id} |-> assets[k]]
      BY <2>3 DEF DeletesRelease
    <3> QED BY <3>1 DEF ReleasesTypeOK
  <2>4. CASE UpsertsAsset(c)
    <3> DEFINE key == <<releaseCall[c].id, releaseCall[c].file>>
    <3>1. CASE UNCHANGED assets
      BY <2>1, <2>4, <3>1 DEF UpsertsAsset
    <3>2. CASE ~ UNCHANGED assets
      <4>1. /\ key[1] \in DOMAIN releases
            /\ assets' = [k \in DOMAIN assets \cup {key} |-> IF k = key THEN releaseCall[c].asset ELSE assets[k]]
            /\ UNCHANGED releases
        BY <2>4, <3>2 DEF UpsertsAsset
      <4>2. releaseCall[c].asset \in Ids
        BY <2>4 DEF UpsertsAsset, CallInv
      <4> QED BY <4>1, <4>2 DEF ReleasesTypeOK
    <3> QED BY <3>1, <3>2
  <2>5. CASE DeletesAsset(c)
    BY <2>5 DEF DeletesAsset, ReleasesTypeOK
  <2> QED BY <2>2, <2>3, <2>4, <2>5 DEF Proceeds
<1> QED BY <1>1, <1>2, RowInvKept, CallInvKept, OnlyOneMoves DEF ReleasesTypeOK

-----------------------------------------------------------------------------
(***************************************************************************)
(* Releases: the theorems.                                                 *)
(***************************************************************************)

LEMMA IInvHolds == ReleasesSpec => []IInv
<1>1. ReleasesInit => IInv
  <2> SUFFICES ASSUME ReleasesInit PROVE IInv
    OBVIOUS
  <2>1. DOMAIN releases = {} /\ DOMAIN assets = {} /\ \A c \in ReleaseCalls : releaseCall[c].at = "idle"
    BY NoCallIsIdle DEF ReleasesInit
  <2>2. ReleasesTypeOK
    BY NoCallIsIdle, ReleasesAssumption DEF ReleasesInit, ReleasesTypeOK
  <2> QED BY <2>1, <2>2 DEF IInv, RowInv, CallInv
<1>2. IInv /\ [ReleasesNext]_releasesVars => IInv'
  <2> SUFFICES ASSUME IInv, [ReleasesNext]_releasesVars PROVE IInv'
    OBVIOUS
  <2>1. CASE UNCHANGED releasesVars
    BY <2>1 DEF releasesVars, IInv, ReleasesTypeOK, RowInv, CallInv, Said, Dated
  <2>2. ASSUME NEW c \in ReleaseCalls, StartsReleaseCall(c) PROVE IInv'
    BY <2>2, StartKeepsIInv
  <2>3. ASSUME NEW c \in ReleaseCalls, Proceeds(c) PROVE IInv'
    BY <2>3, TypeKept, RowInvKept, CallInvKept DEF IInv
  <2> QED BY <2>1, <2>2, <2>3 DEF ReleasesNext, Proceeds
<1> QED BY <1>1, <1>2, PTL DEF ReleasesSpec

\* Every reachable state has its type: in particular no asset's row outlives its
\* release, whose deletion takes them along.
THEOREM ReleasesAreTyped == ReleasesSpec => []ReleasesTypeOK
<1>1. IInv => ReleasesTypeOK
  BY DEF IInv
<1> QED BY <1>1, IInvHolds, PTL

\* updateRelease writes back a row it read earlier, yet no release is ever public
\* without a date, or without its event unless the call that published it failed.
THEOREM PublishingIsTold == ReleasesSpec => []PublishedIsAnnounced
BY IInvHolds, IInvIsEnough, PTL
=============================================================================
