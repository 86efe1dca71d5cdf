-------------------------------- MODULE Feed --------------------------------
(***************************************************************************)
(* Lists that are read page by page while they change: the activity feed   *)
(* (listActivity, newest first), issues (newest first) and the comments of *)
(* an issue (oldest first).  Rows have ids made by newId, which sort by    *)
(* the time they were made; the isolate that makes one inserts the row     *)
(* later.  A row of activity records whether the repository was public     *)
(* when the handler loaded it.                                             *)
(***************************************************************************)
EXTENDS Naturals, FiniteSets

CONSTANTS
  Posters,      \* handlers that record activity
  MaxEntries,   \* bound: ids made
  PageLimit     \* limit of a request

ASSUME FeedAssumption == MaxEntries \in Nat /\ PageLimit \in Nat \ {0}

VARIABLES
  visibility,   \* of the repository the entries are about
  order,        \* of the list
  nextEntry,    \* the next id
  entries,      \* rows: id -> is_public
  poster,       \* Posters -> where it stands
  reader        \* somebody who follows nextCursor to the end

feedVars == <<visibility, order, nextEntry, entries, poster, reader>>

EntryId == 1 .. MaxEntries
FeedTypeOK ==
  /\ visibility \in {"public", "private"}
  /\ order \in {"newest", "oldest"}
  /\ nextEntry \in 1 .. MaxEntries + 1
  /\ DOMAIN entries \subseteq EntryId
  /\ entries \in [DOMAIN entries -> BOOLEAN]
  /\ poster \in [Posters -> [at : {"idle", "loaded", "made"}, public : BOOLEAN, id : 0 .. MaxEntries]]
  /\ reader \in [at : {"idle", "reading", "done"}, admitted : BOOLEAN, cursor : 0 .. MaxEntries,
                 seen : SUBSET EntryId, twice : BOOLEAN, stable : SUBSET EntryId]

IdlePoster == [at |-> "idle", public |-> FALSE, id |-> 0]

FeedInit ==
  /\ visibility \in {"public", "private"}
  /\ order \in {"newest", "oldest"}
  /\ \E n \in 0 .. MaxEntries - 1 : nextEntry = n + 1 /\ entries = [i \in 1 .. n |-> visibility = "public"]
  /\ poster = [p \in Posters |-> IdlePoster]
  /\ reader \in [at : {"idle"}, admitted : BOOLEAN, cursor : {0}, seen : {{}}, twice : {FALSE}, stable : {{}}]

\* updateRepo.
ChangesVisibility ==
  /\ visibility' = IF visibility = "public" THEN "private" ELSE "public"
  /\ UNCHANGED <<order, nextEntry, entries, poster, reader>>

\* The handler loads the repository, and hands what it found to a task.
Loads(p) ==
  /\ poster[p].at = "idle"
  /\ poster' = [poster EXCEPT ![p] = [IdlePoster EXCEPT !.at = "loaded", !.public = visibility = "public"]]
  /\ UNCHANGED <<visibility, order, nextEntry, entries, reader>>

\* recordActivity: newId, and the insertion.
MakesId(p) ==
  /\ poster[p].at = "loaded"
  /\ nextEntry <= MaxEntries
  /\ nextEntry' = nextEntry + 1
  /\ poster' = [poster EXCEPT ![p].at = "made", ![p].id = nextEntry]
  /\ UNCHANGED <<visibility, order, entries, reader>>

Records(p) ==
  /\ poster[p].at = "made"
  /\ entries' = [i \in DOMAIN entries \cup {poster[p].id} |->
                   IF i = poster[p].id THEN poster[p].public ELSE entries[i]]
  /\ poster' = [poster EXCEPT ![p] = IdlePoster]
  /\ UNCHANGED <<visibility, order, nextEntry, reader>>

\* The task fails, which is dropped.
PosterFails(p) ==
  /\ poster[p].at # "idle"
  /\ poster' = [poster EXCEPT ![p] = IdlePoster]
  /\ UNCHANGED <<visibility, order, nextEntry, entries, reader>>

\* A comment is deleted, or an entry goes with its repository.
DropsEntry(i) ==
  /\ entries' = [j \in DOMAIN entries \ {i} |-> entries[j]]
  /\ reader' = [reader EXCEPT !.stable = @ \ {i}]
  /\ UNCHANGED <<visibility, order, nextEntry, poster>>

\* The filter of listActivity: outsiders see what was recorded as public.
Visible(i) == entries[i] \/ reader.admitted
VisibleEntries == {i \in DOMAIN entries : Visible(i)}

Precedes(i, j) == IF order = "newest" THEN i > j ELSE i < j

MutantAfter(cursor) == {i \in VisibleEntries : cursor # 0 => ~Precedes(i, cursor)}

After(cursor) == {i \in VisibleEntries : cursor # 0 => Precedes(cursor, i)}

FirstOf(S, n) == {i \in S : Cardinality({j \in S : Precedes(j, i)}) < n}
LastOf(S) == CHOOSE i \in S : \A j \in S : ~Precedes(i, j)

\* One row more than the limit is fetched, to know whether to give a cursor.
FetchesPage ==
  /\ reader.at # "done"
  /\ LET rows == FirstOf(After(reader.cursor), PageLimit + 1)
         page == FirstOf(rows, PageLimit)
         more == Cardinality(rows) > PageLimit
     IN  reader' = [reader EXCEPT
           !.at = IF more THEN "reading" ELSE "done",
           !.cursor = IF more THEN LastOf(page) ELSE 0,
           !.seen = @ \cup page,
           !.twice = @ \/ reader.seen \cap page # {},
           !.stable = IF reader.at = "idle" THEN VisibleEntries ELSE @]
  /\ UNCHANGED <<visibility, order, nextEntry, entries, poster>>

FeedNext ==
  \/ ChangesVisibility
  \/ \E p \in Posters : Loads(p) \/ MakesId(p) \/ Records(p) \/ PosterFails(p)
  \/ \E i \in DOMAIN entries : DropsEntry(i)
  \/ FetchesPage

FeedSpec == FeedInit /\ [][FeedNext]_feedVars

-----------------------------------------------------------------------------
(***************************************************************************)
(* Properties.                                                             *)
(***************************************************************************)

\* Whoever follows the cursors to the end saw every row that was there all the
\* time, and none twice, whatever was inserted out of order or deleted meanwhile
\* (the row the cursor names included).
EachEntryOnce ==
  /\ ~reader.twice
  /\ reader.at = "done" => reader.stable \subseteq reader.seen

\* services/notification.ts:151 says that a repository that goes private stops
\* appearing, so outsiders find nothing of a private repository in the feed.
PrivateIsHidden ==
  visibility = "private" /\ ~reader.admitted => VisibleEntries = {}
=============================================================================
