------------------------------ MODULE Releases ------------------------------
(***************************************************************************)
(* Releases of a repository and the rows of their assets: the handlers of  *)
(* services/release.ts that write them, one statement of D1 at a time, and *)
(* the release event they emit when one is published.                      *)
(*                                                                         *)
(* Names, texts and targets are left out, and the objects in R2: no code   *)
(* writes one, so a deletion finds none.                                   *)
(***************************************************************************)
EXTENDS Naturals

CONSTANTS
  Tags,
  Files,            \* names of assets
  ReleaseCalls,     \* calls in progress at once
  MaxReleaseCalls   \* bound: calls started, so ids made, and a clock

ASSUME ReleasesAssumption == MaxReleaseCalls \in Nat /\ Tags # {} /\ Files # {}

VARIABLES
  releases,      \* rows: id -> tag, draft, when it was published
  assets,        \* rows: release and name -> id
  announced,     \* releases an event was emitted for
  unannounced,   \* history: releases whose call went between the row and the event
  releaseCall,
  releaseStarted

releaseTables == <<releases, assets, announced, unannounced>>
releasesVars == <<releases, assets, announced, unannounced, releaseCall, releaseStarted>>

Ids == 1 .. MaxReleaseCalls
Never == 0
ReleaseOps == {"createRelease", "updateRelease", "deleteRelease", "createAssetUpload", "deleteAsset"}
Release == [tag : Tags, draft : BOOLEAN, published : {Never} \cup Ids]
SomeTag == CHOOSE t \in Tags : TRUE
SomeFile == CHOOSE f \in Files : TRUE
ReleaseCall == [op : ReleaseOps \cup {"none"}, at : {"idle", "write", "emit"}, id : {0} \cup Ids,
                row : Release, file : Files, asset : {0} \cup Ids]
NoReleaseCall == [op |-> "none", at |-> "idle", id |-> 0,
                  row |-> [tag |-> SomeTag, draft |-> TRUE, published |-> Never],
                  file |-> SomeFile, asset |-> 0]

ReleasesTypeOK ==
  /\ DOMAIN releases \subseteq Ids
  /\ releases \in [DOMAIN releases -> Release]
  /\ DOMAIN assets \subseteq (DOMAIN releases) \X Files
  /\ assets \in [DOMAIN assets -> Ids]
  /\ announced \subseteq Ids
  /\ unannounced \subseteq Ids
  /\ releaseCall \in [ReleaseCalls -> ReleaseCall]
  /\ releaseStarted \in 0 .. MaxReleaseCalls

ReleasesInit ==
  /\ releases = [i \in {} |-> NoReleaseCall.row]
  /\ assets = [k \in {} |-> 0]
  /\ announced = {}
  /\ unannounced = {}
  /\ releaseCall = [c \in ReleaseCalls |-> NoReleaseCall]
  /\ releaseStarted = 0

ReleaseCallEnds(c) == releaseCall' = [releaseCall EXCEPT ![c] = NoReleaseCall]

\* The handler reads the row it is about and finds the caller allowed; a new id is
\* the number of the call, which is also when it was.
StartsReleaseCall(c) ==
  /\ releaseCall[c].at = "idle"
  /\ releaseStarted < MaxReleaseCalls
  /\ releaseStarted' = releaseStarted + 1
  /\ LET now == releaseStarted + 1
         Asks(op, i, row, f, a) == releaseCall' = [releaseCall EXCEPT ![c] =
           [op |-> op, at |-> "write", id |-> i, row |-> row, file |-> f, asset |-> a]]
     IN \/ \E t \in Tags, draft \in BOOLEAN :
             Asks("createRelease", now,
                  [tag |-> t, draft |-> draft, published |-> IF draft THEN Never ELSE now], SomeFile, 0)
        \/ \E op \in {"updateRelease", "deleteRelease"}, i \in DOMAIN releases :
             Asks(op, i, releases[i], SomeFile, now)
        \/ \E i \in DOMAIN releases, f \in Files :
             Asks("createAssetUpload", i, releases[i], f, now)
        \/ \E k \in DOMAIN assets :
             Asks("deleteAsset", k[1], releases[k[1]], k[2], assets[k])
  /\ UNCHANGED releaseTables

\* The insertion; one release for a tag.
InsertsRelease(c) ==
  /\ releaseCall[c].at = "write" /\ releaseCall[c].op = "createRelease"
  /\ LET i == releaseCall[c].id
         row == releaseCall[c].row
     IN  IF \E j \in DOMAIN releases : releases[j].tag = row.tag
         THEN ReleaseCallEnds(c) /\ UNCHANGED releases
         ELSE /\ releases' = [j \in DOMAIN releases \cup {i} |-> IF j = i THEN row ELSE releases[j]]
              /\ IF row.draft THEN ReleaseCallEnds(c) ELSE releaseCall' = [releaseCall EXCEPT ![c].at = "emit"]
  /\ UNCHANGED <<assets, announced, unannounced, releaseStarted>>

MutantPublishedAt(was, nowDraft, now) ==
  IF was.published # Never THEN was.published ELSE IF nowDraft THEN Never ELSE now

\* A release keeps the date it was first published on, a draft has none.
PublishedAt(was, nowDraft, now) ==
  IF nowDraft THEN Never ELSE IF was.published = Never THEN now ELSE was.published

\* The whole row: what the request leaves out, as it was read.  asset is the time.
RewritesRelease(c) ==
  /\ releaseCall[c].at = "write" /\ releaseCall[c].op = "updateRelease"
  /\ \E nowDraft \in BOOLEAN :
       LET i == releaseCall[c].id
           was == releaseCall[c].row
           published == PublishedAt(was, nowDraft, releaseCall[c].asset)
       IN  /\ releases' = [j \in DOMAIN releases |->
                IF j = i THEN [releases[j] EXCEPT !.draft = nowDraft, !.published = published] ELSE releases[j]]
           /\ IF was.draft /\ ~nowDraft
              THEN releaseCall' = [releaseCall EXCEPT ![c].at = "emit"]
              ELSE ReleaseCallEnds(c)
  /\ UNCHANGED <<assets, announced, unannounced, releaseStarted>>

Announces(c) ==
  /\ releaseCall[c].at = "emit"
  /\ announced' = announced \cup {releaseCall[c].id}
  /\ ReleaseCallEnds(c)
  /\ UNCHANGED <<releases, assets, unannounced, releaseStarted>>

\* The rows of its assets go with it.
DeletesRelease(c) ==
  /\ releaseCall[c].at = "write" /\ releaseCall[c].op = "deleteRelease"
  /\ releases' = [j \in DOMAIN releases \ {releaseCall[c].id} |-> releases[j]]
  /\ assets' = [k \in {l \in DOMAIN assets : l[1] # releaseCall[c].id} |-> assets[k]]
  /\ ReleaseCallEnds(c)
  /\ UNCHANGED <<announced, unannounced, releaseStarted>>

\* A name the release has keeps its row, id included.
UpsertsAsset(c) ==
  /\ releaseCall[c].at = "write" /\ releaseCall[c].op = "createAssetUpload"
  /\ LET key == <<releaseCall[c].id, releaseCall[c].file>> IN
       assets' = IF key[1] \notin DOMAIN releases \/ key \in DOMAIN assets THEN assets
                 ELSE [k \in DOMAIN assets \cup {key} |-> IF k = key THEN releaseCall[c].asset ELSE assets[k]]
  /\ ReleaseCallEnds(c)
  /\ UNCHANGED <<releases, announced, unannounced, releaseStarted>>

DeletesAsset(c) ==
  /\ releaseCall[c].at = "write" /\ releaseCall[c].op = "deleteAsset"
  /\ assets' = [k \in {l \in DOMAIN assets : assets[l] # releaseCall[c].asset} |-> assets[k]]
  /\ ReleaseCallEnds(c)
  /\ UNCHANGED <<releases, announced, unannounced, releaseStarted>>

\* A statement fails, or the isolate goes.
FailsReleaseCall(c) ==
  /\ releaseCall[c].at # "idle"
  /\ unannounced' = IF releaseCall[c].at = "emit" THEN unannounced \cup {releaseCall[c].id} ELSE unannounced
  /\ ReleaseCallEnds(c)
  /\ UNCHANGED <<releases, assets, announced, releaseStarted>>

ReleasesNext ==
  \E c \in ReleaseCalls :
    \/ StartsReleaseCall(c) \/ InsertsRelease(c) \/ RewritesRelease(c) \/ Announces(c)
    \/ DeletesRelease(c) \/ UpsertsAsset(c) \/ DeletesAsset(c) \/ FailsReleaseCall(c)

ReleasesSpec == ReleasesInit /\ [][ReleasesNext]_releasesVars

-----------------------------------------------------------------------------
(***************************************************************************)
(* Properties.                                                             *)
(***************************************************************************)

\* Whatever was written over a newer row, a release that is no draft has a date, and
\* was announced, unless the call that published it has not got there or went on the
\* way; and a draft has no date.
PublishedIsAnnounced ==
  \A i \in DOMAIN releases :
    /\ releases[i].draft <=> releases[i].published = Never
    /\ releases[i].draft \/ i \in announced \cup unannounced
         \/ \E c \in ReleaseCalls : releaseCall[c].at = "emit" /\ releaseCall[c].id = i
=============================================================================
