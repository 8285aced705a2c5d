---------------------------- MODULE LibraryDelete ----------------------------
(***************************************************************************)
(* A librarian deletes a release (deleteAlbumFromDB), while plays of it    *)
(* are written, a rotation entry is linked to it, the linkage job resolves *)
(* plays that know only its legacy id, and jobs/library-etl imports it     *)
(* again from upstream, where it still exists.  All run at READ COMMITTED, *)
(* and one action is one statement, with the row locks it takes; a release *)
(* that is imported again has a new library.id.                            *)
(***************************************************************************)
EXTENDS Naturals

CONSTANTS Plays,  \* plays of the release
          MaxId   \* bound: library rows, and rotation entries, it has in turn

ASSUME DeleteAssumption == MaxId \in Nat \ {0}

NoAlbum == 0
NoEntry == 0

VARIABLES
  first,     \* the foreign key of flowsheet that is checked first
  lib,       \* the row of the release in library, or NoAlbum
  ids,       \* history: the last library.id
  denied,    \* the release is in library_delete_denylist
  rotation,  \* its rotation entry, or NoEntry, and the album it is linked to
  entries,   \* history: the last rotation id
  plays,     \* the stored plays
  writer,    \* per play, the statement that writes it
  delete,    \* the delete's next statement
  etl,       \* the import's next statement, and what it holds
  reported   \* the import that put the row there complained of it

vars == <<first, lib, ids, denied, rotation, entries, plays, writer, delete, etl, reported>>

\* "by" is who wrote the play; the webhook writes the legacy id of the release.
NoPlay == [by |-> "nobody", album |-> NoAlbum, rotation |-> NoEntry]
NoWriter == [play |-> NoPlay, checks |-> {}, holds |-> {}]

\* Rows of library: "seen" by the pre-flight SELECT, "locked" by an UPDATE,
\* inserted and not committed, and reported as stranded.
NoImport == [at |-> "idle", seen |-> NoAlbum, locked |-> NoAlbum, row |-> NoAlbum,
             stranded |-> NoAlbum]

Stored(p) == plays[p].by # "nobody"
Legacy(p) == plays[p].by = "webhook"
Writing(p) == writer[p].play.by # "nobody"

Init ==
  /\ first \in {"album", "rotation"}
  /\ lib \in {NoAlbum, 1}
  /\ ids = lib
  /\ denied = FALSE
  /\ entries \in {NoEntry, 1}
  /\ rotation \in [id : {entries}, album : IF entries = NoEntry THEN {NoAlbum} ELSE {NoAlbum, lib}]
  /\ plays = [p \in Plays |-> NoPlay]
  /\ writer = [p \in Plays |-> NoWriter]
  /\ delete = "idle"
  /\ etl = NoImport
  /\ reported = FALSE

-----------------------------------------------------------------------------
(* Row locks.  A foreign-key check takes FOR KEY SHARE on the parent, which *)
(* only the delete's FOR UPDATE conflicts with.                             *)

Linked == rotation.id # NoEntry /\ lib # NoAlbum /\ rotation.album = lib

DeleteHolds(row) ==
  IF row = "album" THEN delete \in {"lockRotation", "countLinked", "countLegacy", "commit"}
  ELSE Linked /\ delete \in {"countLinked", "countLegacy", "commit"}

\* Mutant: FOR NO KEY UPDATE, which KEY SHARE does not conflict with.
ShareIgnored(row) == row # row

\* A writer holds what its checks have locked until it commits.
Shared(row) == \E p \in Plays : row \in writer[p].holds

-----------------------------------------------------------------------------
(* The writers of flowsheet                                                *)

\* The columns that are set are checked.
ChecksOf(play) ==
  (IF play.album # NoAlbum THEN {"album"} ELSE {})
    \cup (IF play.rotation # NoEntry THEN {"rotation"} ELSE {})

Write(p, play, checks) ==
  writer' = [writer EXCEPT ![p] =
    [play |-> play, checks |-> checks, holds |-> {}]]

\* A DJ's entry or the webhook's: the ids have been resolved by reads.
InsertPlay(p, viaWebhook) ==
  /\ ~Stored(p) /\ ~Writing(p)
  /\ \E album \in {NoAlbum, lib}, rot \in {NoEntry, rotation.id} :
       /\ viaWebhook => album = lib
       /\ LET play == [by |-> IF viaWebhook THEN "webhook" ELSE "dj",
                       album |-> album, rotation |-> rot]
          IN Write(p, play, ChecksOf(play))
  /\ UNCHANGED <<first, lib, ids, denied, rotation, entries, plays, delete, etl, reported>>

\* legacy-linkage-resolve, resolveFlowsheetAlbumIds: an UPDATE of album_id
\* checks that column only.
ResolvePlay(p) ==
  /\ Legacy(p) /\ plays[p].album = NoAlbum
  /\ ~Writing(p)
  /\ lib # NoAlbum
  /\ Write(p, [plays[p] EXCEPT !.album = lib], {"album"})
  /\ UNCHANGED <<first, lib, ids, denied, rotation, entries, plays, delete, etl, reported>>

ParentExists(p, row) ==
  IF row = "album" THEN writer[p].play.album = lib
  ELSE writer[p].play.rotation = rotation.id

NextCheck(p) ==
  IF first \in writer[p].checks THEN first
  ELSE IF "album" \in writer[p].checks THEN "album" ELSE "rotation"

Checked(p) ==
  [writer[p] EXCEPT !.checks = @ \ {NextCheck(p)}, !.holds = @ \cup {NextCheck(p)}]

\* A check waits for the delete's lock; without the parent the statement fails.
ForeignKeyCheck(p) ==
  /\ writer[p].checks # {}
  /\ ~DeleteHolds(NextCheck(p))
  /\ writer' = [writer EXCEPT ![p] =
       IF ParentExists(p, NextCheck(p)) THEN Checked(p) ELSE NoWriter]
  /\ UNCHANGED <<first, lib, ids, denied, rotation, entries, plays, delete, etl, reported>>

StorePlay(p) ==
  /\ Writing(p) /\ writer[p].checks = {}
  /\ plays' = [plays EXCEPT ![p] = writer[p].play]
  /\ writer' = [writer EXCEPT ![p] = NoWriter]
  /\ UNCHANGED <<first, lib, ids, denied, rotation, entries, delete, etl, reported>>

\* A rotation entry is added for the release, or linked to it.
LinkRotation ==
  /\ lib # NoAlbum /\ ~Linked
  /\ ~DeleteHolds("album")
  /\ IF rotation.id # NoEntry
     THEN rotation' = [rotation EXCEPT !.album = lib] /\ UNCHANGED entries
     ELSE /\ entries < MaxId
          /\ entries' = entries + 1
          /\ rotation' = [id |-> entries', album |-> lib]
  /\ UNCHANGED <<first, lib, ids, denied, plays, writer, delete, etl, reported>>

-----------------------------------------------------------------------------
(* deleteAlbumFromDB                                                       *)

DeleteGoes(to) ==
  /\ delete' = to
  /\ UNCHANGED <<first, lib, ids, denied, rotation, entries, plays, writer, etl, reported>>

DeleteBegins == delete = "idle" /\ DeleteGoes("lockAlbum")

AlbumIsFree == ~Shared("album") /\ etl.locked = NoAlbum
RotationIsFree == Linked => ~Shared("rotation")

DeleteLocksAlbum ==
  /\ delete = "lockAlbum" /\ AlbumIsFree
  /\ DeleteGoes(IF lib = NoAlbum THEN "idle" ELSE "lockRotation")

DeleteLocksRotation ==
  delete = "lockRotation" /\ RotationIsFree /\ DeleteGoes("countLinked")

\* Mutant: no lock_timeout.
WaitsForever == etl # etl

WaitsTooLong ==
  \/ delete = "lockAlbum" /\ ~AlbumIsFree
  \/ delete = "lockRotation" /\ ~RotationIsFree

\* lock_timeout: the delete stands down, and the transaction is rolled back.
DeleteStandsDown == WaitsTooLong /\ DeleteGoes("idle")

LinkedPlays ==
  {p \in Plays : /\ Stored(p)
                 /\ plays[p].album = lib \/ (Linked /\ plays[p].rotation = rotation.id)}
LegacyPlays == {p \in Plays : Legacy(p)}

DeleteCountsLinked ==
  delete = "countLinked" /\ DeleteGoes(IF LinkedPlays # {} THEN "idle" ELSE "countLegacy")

DeleteCountsLegacy ==
  delete = "countLegacy" /\ DeleteGoes(IF LegacyPlays # {} THEN "idle" ELSE "commit")

\* The tombstone and the delete commit as one, with what cascades: the rotation
\* entry goes, and the plays' columns are set to NULL.
DeleteCommits ==
  /\ delete = "commit"
  /\ lib' = NoAlbum
  /\ denied' = TRUE
  /\ rotation' = IF Linked THEN [id |-> NoEntry, album |-> NoAlbum] ELSE rotation
  /\ plays' = [p \in Plays |->
       [plays[p] EXCEPT !.album = IF @ = lib THEN NoAlbum ELSE @,
                        !.rotation = IF Linked /\ @ = rotation.id THEN NoEntry ELSE @]]
  /\ reported' = FALSE
  /\ delete' = "idle"
  /\ UNCHANGED <<first, ids, entries, writer, etl>>

Delete ==
  \/ DeleteLocksAlbum \/ DeleteLocksRotation \/ DeleteCountsLinked \/ DeleteCountsLegacy
  \/ DeleteCommits

-----------------------------------------------------------------------------
(* library-etl: one transaction, of which this is the part of the release  *)

EtlGoes(to) == etl' = [etl EXCEPT !.at = to]

StillEtl == UNCHANGED <<first, lib, ids, denied, rotation, entries, plays, writer, delete, reported>>

\* A run that selects the release loads the denylist; one that selects nothing
\* only reconciles.
EtlBegins ==
  /\ etl.at = "idle"
  /\ \E to \in {IF denied THEN "reconcile" ELSE "check", "reconcile"} : EtlGoes(to)
  /\ StillEtl

\* isDeniedAtWriteTime
EtlChecks ==
  /\ etl.at = "check"
  /\ EtlGoes(IF denied THEN "reconcile" ELSE "find")
  /\ StillEtl

\* findExistingRelease looks for the artist, title and number, which may have
\* been edited upstream; a row that has them is updated where it differs.
EtlFinds ==
  /\ etl.at = "find"
  /\ \E to \in IF lib = NoAlbum THEN {"preflight"} ELSE {"preflight", "update", "reconcile"} :
       EtlGoes(to)
  /\ StillEtl

EtlUpdates ==
  /\ etl.at = "update" /\ ~DeleteHolds("album")
  /\ etl' = [etl EXCEPT !.at = "reconcile", !.locked = lib]
  /\ StillEtl

\* Is the legacy id in the catalog, so that the upsert will be an update?
EtlPreflight ==
  /\ etl.at = "preflight"
  /\ etl' = [etl EXCEPT !.at = "upsert", !.seen = lib]
  /\ StillEtl

\* ON CONFLICT (legacy_release_id): the row is locked, or inserted if a delete
\* that held it has committed.
EtlUpserts ==
  /\ etl.at = "upsert" /\ ~DeleteHolds("album")
  /\ IF lib # NoAlbum
     THEN etl' = [etl EXCEPT !.at = "reconcile", !.locked = lib] /\ UNCHANGED ids
     ELSE /\ ids < MaxId
          /\ ids' = ids + 1
          /\ etl' = [etl EXCEPT !.at = "reconcile", !.row = ids']
  /\ UNCHANGED <<first, lib, denied, rotation, entries, plays, writer, delete, reported>>

\* Mutant: only what the loop has skipped is looked at.
StrandedOld == lib

\* Present, and not among the ids that the run counts as inserted.
Stranded == IF lib # NoAlbum THEN lib ELSE IF etl.seen # NoAlbum THEN etl.row ELSE NoAlbum

\* reconcileDenylistedInserts: what this run inserted is removed again, what
\* else is in the catalog is reported.
EtlReconciles ==
  /\ etl.at = "reconcile"
  /\ etl' = IF denied THEN [etl EXCEPT !.at = "commit", !.stranded = Stranded,
                                       !.row = IF etl.seen = NoAlbum THEN NoAlbum ELSE @]
            ELSE [etl EXCEPT !.at = "commit"]
  /\ StillEtl

EtlCommits ==
  /\ etl.at = "commit"
  /\ lib' = IF etl.row # NoAlbum THEN etl.row ELSE lib
  /\ reported' = (reported \/ etl.stranded # NoAlbum)
  /\ etl' = NoImport
  /\ UNCHANGED <<first, ids, denied, rotation, entries, plays, writer, delete>>

EtlFails ==
  /\ etl.at # "idle"
  /\ etl' = NoImport
  /\ StillEtl

Etl ==
  \/ EtlBegins \/ EtlChecks \/ EtlFinds \/ EtlUpdates \/ EtlPreflight \/ EtlUpserts
  \/ EtlReconciles \/ EtlCommits \/ EtlFails

Next ==
  \/ \E p \in Plays :
       \/ \E viaWebhook \in BOOLEAN : InsertPlay(p, viaWebhook)
       \/ ResolvePlay(p) \/ ForeignKeyCheck(p) \/ StorePlay(p)
  \/ LinkRotation
  \/ DeleteBegins \/ Delete \/ DeleteStandsDown
  \/ Etl

Spec == Init /\ [][Next]_vars

\* A transaction that can go on goes on, the lock queue is first come, first
\* served, and lock_timeout fires.
Fairness ==
  /\ \A p \in Plays : SF_vars(ForeignKeyCheck(p)) /\ WF_vars(StorePlay(p))
  /\ WF_vars(Delete) /\ WF_vars(DeleteStandsDown)

FairSpec == Spec /\ Fairness

-----------------------------------------------------------------------------
(* Properties                                                              *)

\* The type invariant.
Keys == {"album", "rotation"}
Ids == 0 .. MaxId
PlayRows == [by : {"nobody", "dj", "webhook"}, album : Ids, rotation : Ids]
Writers == [play : PlayRows, checks : SUBSET Keys, holds : SUBSET Keys]
EtlSteps == {"idle", "check", "find", "update", "preflight", "upsert", "reconcile", "commit"}
Imports == [at : EtlSteps, seen : Ids, locked : Ids, row : Ids, stranded : Ids]
TypeOK ==
  /\ first \in Keys
  /\ ids \in Ids /\ lib \in Ids /\ entries \in Ids
  /\ denied \in BOOLEAN /\ reported \in BOOLEAN
  /\ rotation \in [id : Ids, album : Ids]
  /\ plays \in [Plays -> PlayRows]
  /\ writer \in [Plays -> Writers]
  /\ delete \in {"idle", "lockAlbum", "lockRotation", "countLinked", "countLegacy", "commit"}
  /\ etl \in Imports

\* A play that is stored keeps its release and its rotation entry: no delete
\* slips between the count and a write that was under way.
PlaysKeepTheirLinks ==
  [][\A p \in Plays : Stored(p) =>
       /\ plays[p].album # NoAlbum => plays'[p].album = plays[p].album
       /\ plays[p].rotation # NoEntry => plays'[p].rotation = plays[p].rotation]_vars

\* A deleted release that is back in the catalog does not hide: the import
\* that brought it back has complained.
ResurrectionIsReported == denied /\ lib # NoAlbum => reported

\* The write of a play ends, whatever the order of its checks: when it and the
\* delete wait for each other, it is the delete that gives up.
PlayIsNotStuck == \A p \in Plays : Writing(p) ~> ~Writing(p)

\* library-etl/job.ts: what a delete in the gap before the upsert lets through
\* is "deleted here"; a deleted release stays deleted.
DeletedStaysDeleted == denied => lib = NoAlbum
=============================================================================
