------------------------------ MODULE UpkeepProofs ------------------------------
(***************************************************************************)
(* Proofs about what keeps the catalog and the flowsheet in step with      *)
(* tubafrenzy: the delete of a release beside the import (LibraryDelete),  *)
(* for any plays and any number of ids; the sweep of the rows that are     *)
(* gone upstream (GhostSweep), for any finite table, any files and any     *)
(* size of the pages; and the mirror's queue of SQL commands               *)
(* (MirrorQueue), for any number of commands, attempts and queues.  The    *)
(* last section is about the run MCUpkeep, which puts them side by side.   *)
(***************************************************************************)
EXTENDS MCUpkeep, FiniteSetTheorems, SequenceTheorems, TLAPS

(***************************************************************************)
(* The delete of a release.                                                *)
(***************************************************************************)
\* Ids are natural numbers that start from "none".
LEMMA IdsFacts ==
  /\ 0 \in Ids /\ 1 \in Ids
  /\ \A i \in Ids : i < MaxId => i + 1 \in Ids
  BY DeleteAssumption DEF Ids

LEMMA RowFacts ==
  /\ NoPlay \in PlayRows /\ NoWriter \in Writers /\ NoImport \in Imports
  /\ \A row \in PlayRows, i \in Ids :
       [row EXCEPT !.album = i] \in PlayRows /\ [row EXCEPT !.rotation = i] \in PlayRows
  BY IdsFacts DEF NoPlay, NoWriter, NoImport, PlayRows, Writers, Imports, EtlSteps, Keys,
     NoAlbum, NoEntry

\* What a step of the import may assign.
LEMMA ImportFacts ==
  ASSUME NEW e \in Imports, NEW to \in EtlSteps, NEW i \in Ids, NEW j \in Ids
  PROVE  /\ [e EXCEPT !.at = to] \in Imports
         /\ [e EXCEPT !.at = to, !.seen = i] \in Imports
         /\ [e EXCEPT !.at = to, !.locked = i] \in Imports
         /\ [e EXCEPT !.at = to, !.row = i] \in Imports
         /\ [e EXCEPT !.at = to, !.stranded = i, !.row = j] \in Imports
  BY DEF Imports

LEMMA RotationFacts ==
  ASSUME NEW i \in Ids, NEW j \in Ids
  PROVE  [id |-> i, album |-> j] \in [id : Ids, album : Ids]
  OBVIOUS

LEMMA TypeInit == Init => TypeOK
<1> SUFFICES ASSUME Init PROVE TypeOK
  OBVIOUS
<1>1. lib \in Ids /\ entries \in Ids
  BY IdsFacts DEF Init, NoAlbum, NoEntry
<1>2. rotation \in [id : Ids, album : Ids]
  BY <1>1, IdsFacts DEF Init, NoAlbum
<1> QED
  BY <1>1, <1>2, RowFacts DEF TypeOK, Init, Keys

LEMMA TypeStep == TypeOK /\ [Next]_vars => TypeOK'
<1> SUFFICES ASSUME TypeOK, [Next]_vars PROVE TypeOK'
  OBVIOUS
<1> USE DEF TypeOK
<1>1. CASE UNCHANGED vars
  BY <1>1 DEF vars
<1>2. ASSUME NEW p \in Plays, NEW viaWebhook \in BOOLEAN, InsertPlay(p, viaWebhook)
      PROVE  TypeOK'
  <2>1. PICK album \in Ids, rot \in Ids, by \in {"nobody", "dj", "webhook"} :
          LET play == [by |-> by, album |-> album, rotation |-> rot]
          IN  Write(p, play, ChecksOf(play))
    BY <1>2, IdsFacts DEF InsertPlay, NoAlbum, NoEntry
  <2>2. [by |-> by, album |-> album, rotation |-> rot] \in PlayRows
    BY DEF PlayRows
  <2>3. writer' \in [Plays -> Writers]
    BY <2>1, <2>2 DEF Write, ChecksOf, Writers, Keys
  <2> QED
    BY <1>2, <2>3 DEF InsertPlay
<1>3. ASSUME NEW p \in Plays, ResolvePlay(p) PROVE TypeOK'
  <2>1. writer' \in [Plays -> Writers]
    BY <1>3, RowFacts DEF ResolvePlay, Write, Writers, Keys
  <2> QED
    BY <1>3, <2>1 DEF ResolvePlay
<1>4. ASSUME NEW p \in Plays, ForeignKeyCheck(p) PROVE TypeOK'
  <2>1. NextCheck(p) \in Keys
    BY DEF NextCheck, Keys
  <2>2. Checked(p) \in Writers
    BY <2>1 DEF Checked, Writers
  <2>4. writer' \in [Plays -> Writers]
    BY <1>4, <2>2, RowFacts DEF ForeignKeyCheck
  <2> QED
    BY <1>4, <2>4 DEF ForeignKeyCheck
<1>5. ASSUME NEW p \in Plays, StorePlay(p) PROVE TypeOK'
  BY <1>5, RowFacts DEF StorePlay, Writers
<1>6. CASE LinkRotation
  <2>1. entries' \in Ids
    BY <1>6, IdsFacts DEF LinkRotation
  <2> QED
    BY <1>6, <2>1, RotationFacts DEF LinkRotation
<1>7. CASE DeleteBegins \/ DeleteStandsDown \/ (Delete /\ ~DeleteCommits)
  BY <1>7 DEF DeleteBegins, Delete, DeleteStandsDown, DeleteGoes, DeleteLocksAlbum,
     DeleteLocksRotation, DeleteCountsLinked, DeleteCountsLegacy
<1>8. CASE DeleteCommits
  <2>1. plays' \in [Plays -> PlayRows]
    <3> DEFINE Unlinked(row) ==
          [row EXCEPT !.album = IF @ = lib THEN NoAlbum ELSE @,
                      !.rotation = IF Linked /\ @ = rotation.id THEN NoEntry ELSE @]
    <3>1. \A row \in PlayRows : Unlinked(row) \in PlayRows
      BY IdsFacts DEF PlayRows, NoAlbum, NoEntry
    <3>2. plays' = [p \in Plays |-> Unlinked(plays[p])]
      BY <1>8 DEF DeleteCommits
    <3> HIDE DEF Unlinked
    <3> QED
      BY <3>1, <3>2
  <2>2. lib' \in Ids /\ rotation' \in [id : Ids, album : Ids]
    BY <1>8, IdsFacts DEF DeleteCommits, NoAlbum, NoEntry
  <2> QED
    BY <1>8, <2>1, <2>2 DEF DeleteCommits
<1>9. CASE EtlUpserts
  <2>1. ids' \in Ids
    BY <1>9, IdsFacts DEF EtlUpserts
  <2>2. /\ [etl EXCEPT !.at = "reconcile", !.locked = lib] \in Imports
        /\ [etl EXCEPT !.at = "reconcile", !.row = ids'] \in Imports
    BY <2>1, ImportFacts DEF EtlSteps
  <2>3. etl' \in Imports
    BY <1>9, <2>2 DEF EtlUpserts
  <2> QED
    BY <1>9, <2>1, <2>3 DEF EtlUpserts
<1>10. CASE EtlReconciles
  <2>1. etl.row \in Ids /\ etl.seen \in Ids
    BY DEF Imports
  <2>2. Stranded \in Ids
    BY <2>1, IdsFacts DEF Stranded, NoAlbum
  <2>3. etl' \in Imports
    <3>1. (IF etl.seen = NoAlbum THEN NoAlbum ELSE etl.row) \in Ids
      BY <2>1, IdsFacts DEF NoAlbum
    <3>2. "commit" \in EtlSteps
      BY DEF EtlSteps
    <3> QED
      BY <1>10, <2>2, <3>1, <3>2, ImportFacts DEF EtlReconciles
  <2> QED
    BY <1>10, <2>3 DEF EtlReconciles, StillEtl
<1>11. CASE EtlCommits
  BY <1>11, RowFacts DEF EtlCommits, Imports
<1>12. CASE EtlBegins \/ EtlChecks \/ EtlFinds
  <2>1. PICK to \in EtlSteps : EtlGoes(to)
    BY <1>12 DEF EtlBegins, EtlChecks, EtlFinds, EtlSteps
  <2>2. etl' \in Imports
    BY <2>1, ImportFacts, IdsFacts DEF EtlGoes
  <2> QED
    BY <1>12, <2>2 DEF EtlBegins, EtlChecks, EtlFinds, StillEtl
<1>13. CASE EtlUpdates \/ EtlPreflight \/ EtlFails
  <2>1. /\ [etl EXCEPT !.at = "reconcile", !.locked = lib] \in Imports
        /\ [etl EXCEPT !.at = "upsert", !.seen = lib] \in Imports
    BY ImportFacts DEF EtlSteps
  <2>2. etl' \in Imports
    BY <1>13, <2>1, RowFacts DEF EtlUpdates, EtlPreflight, EtlFails
  <2> QED
    BY <1>13, <2>2 DEF EtlUpdates, EtlPreflight, EtlFails, StillEtl
<1> QED
  BY <1>1, <1>2, <1>3, <1>4, <1>5, <1>6, <1>7, <1>8, <1>9, <1>10, <1>11, <1>12, <1>13
  DEF Next, Delete, Etl

\* The type invariant.
THEOREM DeleteTypeCorrect == Spec => []TypeOK
  BY TypeInit, TypeStep, PTL DEF Spec

-----------------------------------------------------------------------------
(* The invariant: the locks of the writers and of the delete exclude each    *)
(* other, so that what has been checked, or counted, is still so at the end. *)

\* A lock on a parent keeps it as the check has found it.
HoldsParent(p) ==
  /\ "album" \in writer[p].holds => writer[p].play.album = lib
  /\ "rotation" \in writer[p].holds => writer[p].play.rotation = rotation.id

\* What a statement sets, and no more, is checked or still to be checked; an
\* UPDATE keeps the entry that the play has, and sets an album where there is none.
IsChecked(p) ==
  LET w == writer[p]
  IN  /\ w.checks \cup w.holds \subseteq ChecksOf(w.play)
      /\ Writing(p) =>
           /\ w.play.album # NoAlbum => "album" \in w.checks \cup w.holds
           /\ Stored(p) => plays[p].album = NoAlbum /\ w.play.rotation = plays[p].rotation
           /\ ~Stored(p) /\ w.play.rotation # NoEntry => "rotation" \in w.checks \cup w.holds

\* From the lock of each row on nobody else has it, and from the count on no
\* stored play has a link.
DeleteExcludes ==
  /\ delete \in {"lockRotation", "countLinked", "countLegacy", "commit"} =>
       lib # NoAlbum /\ ~Shared("album")
  /\ delete \in {"countLinked", "countLegacy", "commit"} /\ Linked => ~Shared("rotation")
  /\ delete \in {"countLegacy", "commit"} => LinkedPlays = {}

\* An import inserts only what is not there, and complains of what it leaves.
ImportInserts ==
  /\ etl.row # NoAlbum => lib = NoAlbum
  /\ etl.at = "commit" /\ etl.row # NoAlbum /\ denied => etl.stranded # NoAlbum

Inv ==
  /\ TypeOK
  /\ \A p \in Plays : HoldsParent(p) /\ IsChecked(p)
  /\ DeleteExcludes
  /\ ImportInserts
  /\ ResurrectionIsReported

LEMMA InvInit == Init => Inv
<1> SUFFICES ASSUME Init PROVE Inv
  OBVIOUS
<1>1. ASSUME NEW p \in Plays PROVE HoldsParent(p) /\ IsChecked(p)
  BY <1>1 DEF Init, HoldsParent, IsChecked, Writing, NoWriter, NoPlay
<1> QED
  BY <1>1, TypeInit DEF Inv, Init, DeleteExcludes, ImportInserts, ResurrectionIsReported, NoImport

\* A step that only starts or ends a writer p, which then holds no lock.
LEMMA WriterStep ==
  ASSUME Inv, NEW p \in Plays, NEW w \in Writers, w.holds = {},
         writer' = [writer EXCEPT ![p] = w],
         UNCHANGED <<first, lib, ids, denied, rotation, entries, plays, delete, etl, reported>>
  PROVE  /\ \A q \in Plays : HoldsParent(q)'
         /\ \A q \in Plays \ {p} : IsChecked(q)'
         /\ DeleteExcludes' /\ ImportInserts' /\ ResurrectionIsReported'
<1>1. writer'[p] = w /\ \A q \in Plays \ {p} : writer'[q] = writer[q]
  BY DEF Inv, TypeOK
<1>2. ASSUME NEW q \in Plays PROVE HoldsParent(q)'
  BY <1>1 DEF Inv, HoldsParent
<1>3. ASSUME NEW q \in Plays \ {p} PROVE IsChecked(q)'
  BY <1>1 DEF Inv, IsChecked, Writing, Stored
<1>4. ASSUME NEW row PROVE Shared(row)' => Shared(row)
  BY <1>1 DEF Shared
<1>5. DeleteExcludes'
  BY <1>4 DEF Inv, DeleteExcludes, Linked, LinkedPlays, Stored
<1> QED
  BY <1>2, <1>3, <1>5 DEF Inv, ImportInserts, ResurrectionIsReported

\* A step that changes no more than these variables keeps what the writers know.
LEMMA WritersStill ==
  ASSUME Inv, UNCHANGED <<lib, rotation, plays, writer>>
  PROVE  \A p \in Plays : HoldsParent(p)' /\ IsChecked(p)'
  BY DEF Inv, HoldsParent, IsChecked, Writing, Stored

SameLinks(p) ==
  plays'[p].album = plays[p].album /\ plays'[p].rotation = plays[p].rotation

\* The delete sets no column of a stored play to NULL: it has counted none.
LEMMA DeleteUnlinksNothing ==
  ASSUME Inv, DeleteCommits, NEW p \in Plays
  PROVE  Stored(p)' = Stored(p) /\ (Stored(p) => SameLinks(p))
<1>1. LinkedPlays = {}
  BY DEF Inv, DeleteCommits, DeleteExcludes
<1>2. /\ plays'[p].by = plays[p].by
      /\ plays'[p].album = IF plays[p].album = lib THEN NoAlbum ELSE plays[p].album
      /\ plays'[p].rotation =
           IF Linked /\ plays[p].rotation = rotation.id THEN NoEntry ELSE plays[p].rotation
  BY DEF Inv, TypeOK, PlayRows, DeleteCommits
<1> QED
  BY <1>1, <1>2 DEF Stored, SameLinks, LinkedPlays

LEMMA InvStep == Inv /\ [Next]_vars => Inv'
<1> SUFFICES ASSUME Inv, [Next]_vars PROVE Inv'
  OBVIOUS
<1>0. TypeOK /\ TypeOK'
  BY TypeStep DEF Inv
<1>1. CASE UNCHANGED vars
  BY <1>1, <1>0 DEF vars, Inv, HoldsParent, IsChecked, Writing, Stored, DeleteExcludes, Shared,
     Linked, LinkedPlays, ImportInserts, ResurrectionIsReported
<1>2. ASSUME NEW p \in Plays, NEW viaWebhook \in BOOLEAN, InsertPlay(p, viaWebhook)
      PROVE  Inv'
  <2>1. PICK album \in Ids, rot \in Ids, by \in {"dj", "webhook"} :
          LET play == [by |-> by, album |-> album, rotation |-> rot]
          IN  Write(p, play, ChecksOf(play))
    BY <1>0, <1>2, IdsFacts DEF InsertPlay, TypeOK, NoAlbum, NoEntry
  <2> DEFINE play == [by |-> by, album |-> album, rotation |-> rot]
             w == [play |-> play, checks |-> ChecksOf(play), holds |-> {}]
  <2>2. w \in Writers /\ writer' = [writer EXCEPT ![p] = w]
    <3>1. play \in PlayRows
      BY DEF PlayRows
    <3> QED
      BY <2>1, <3>1 DEF Write, ChecksOf, Writers, Keys
  <2>3. IsChecked(p)'
    BY <1>0, <1>2, <2>2 DEF InsertPlay, IsChecked, Writing, Stored, ChecksOf, TypeOK
  <2> QED
    BY <1>0, <1>2, <2>2, <2>3, WriterStep DEF InsertPlay, Inv
<1>3. ASSUME NEW p \in Plays, ResolvePlay(p) PROVE Inv'
  <2> DEFINE w == [play |-> [plays[p] EXCEPT !.album = lib], checks |-> {"album"}, holds |-> {}]
  <2>1. w \in Writers /\ writer' = [writer EXCEPT ![p] = w]
    BY <1>0, <1>3, RowFacts DEF ResolvePlay, Write, TypeOK, Writers, Keys
  <2>2. IsChecked(p)'
    BY <1>0, <1>3, <2>1 DEF ResolvePlay, IsChecked, Writing, Stored, Legacy, TypeOK, PlayRows,
       ChecksOf
  <2> QED
    BY <1>0, <1>3, <2>1, <2>2, WriterStep DEF ResolvePlay, Inv
<1>4. ASSUME NEW p \in Plays, ForeignKeyCheck(p) PROVE Inv'
  <2> DEFINE k == NextCheck(p)
  <2>1. k \in writer[p].checks /\ k \in Keys
    BY <1>0, <1>4 DEF ForeignKeyCheck, NextCheck, TypeOK, Writers, Keys
  <2>2. CASE ~ParentExists(p, k)
    <3>1. writer' = [writer EXCEPT ![p] = NoWriter]
      BY <1>4, <2>2 DEF ForeignKeyCheck
    <3>2. IsChecked(p)'
      BY <1>0, <3>1 DEF IsChecked, Writing, NoWriter, NoPlay, TypeOK
    <3>3. NoWriter \in Writers /\ NoWriter.holds = {}
      BY RowFacts DEF NoWriter
    <3> QED
      BY <1>0, <1>4, <3>1, <3>2, <3>3, WriterStep DEF ForeignKeyCheck, Inv
  <2>3. CASE ParentExists(p, k)
    <3>1. /\ writer'[p] = Checked(p)
          /\ \A q \in Plays \ {p} : writer'[q] = writer[q]
          /\ UNCHANGED <<lib, denied, rotation, plays, delete, etl, reported>>
      BY <1>0, <1>4, <2>3 DEF ForeignKeyCheck, TypeOK
    <3>2. /\ Checked(p).play = writer[p].play
          /\ Checked(p).checks = writer[p].checks \ {k}
          /\ Checked(p).holds = writer[p].holds \cup {k}
      BY <1>0 DEF Checked, TypeOK, Writers
    <3>3. ASSUME NEW q \in Plays PROVE HoldsParent(q)'
      <4>1. CASE q # p
        BY <3>1, <4>1 DEF Inv, HoldsParent
      <4>2. CASE q = p /\ k = "album"
        BY <2>3, <3>1, <3>2, <4>2 DEF Inv, HoldsParent, ParentExists
      <4>3. CASE q = p /\ k = "rotation"
        BY <2>3, <3>1, <3>2, <4>3 DEF Inv, HoldsParent, ParentExists
      <4> QED
        BY <2>1, <4>1, <4>2, <4>3 DEF Keys
    <3>4. ASSUME NEW q \in Plays PROVE IsChecked(q)'
      <4>1. /\ writer'[q].checks \cup writer'[q].holds = writer[q].checks \cup writer[q].holds
            /\ writer'[q].play = writer[q].play
        BY <2>1, <3>1, <3>2
      <4> QED
        BY <3>1, <4>1 DEF Inv, IsChecked, ChecksOf, Writing, Stored
    <3>5. ASSUME NEW row PROVE Shared(row)' => Shared(row) \/ row = k
      BY <3>1, <3>2 DEF Shared
    <3>6. ~DeleteHolds(k)
      BY <1>4 DEF ForeignKeyCheck
    <3>7. DeleteExcludes'
      BY <2>1, <3>1, <3>5, <3>6 DEF Inv, DeleteExcludes, DeleteHolds, Linked, LinkedPlays, Stored,
         Keys
    <3> QED
      BY <1>0, <3>1, <3>3, <3>4, <3>7 DEF Inv, ImportInserts, ResurrectionIsReported
  <2> QED
    BY <2>2, <2>3
<1>5. ASSUME NEW p \in Plays, StorePlay(p) PROVE Inv'
  <2>1. /\ plays'[p] = writer[p].play /\ writer'[p] = NoWriter
        /\ \A q \in Plays \ {p} : plays'[q] = plays[q] /\ writer'[q] = writer[q]
        /\ UNCHANGED <<lib, denied, rotation, delete, etl, reported>>
    BY <1>0, <1>5 DEF StorePlay, TypeOK
  <2>2. ASSUME NEW q \in Plays PROVE HoldsParent(q)' /\ IsChecked(q)'
    <3>1. CASE q = p
      BY <2>1, <3>1 DEF HoldsParent, IsChecked, Writing, NoWriter, NoPlay
    <3>2. CASE q # p
      BY <2>1, <3>2 DEF Inv, HoldsParent, IsChecked, Writing, Stored
    <3> QED
      BY <3>1, <3>2
  <2>3. ASSUME NEW row PROVE Shared(row)' => Shared(row)
    BY <2>1 DEF Shared, NoWriter
  <2>4. ASSUME delete \in {"countLegacy", "commit"} PROVE p \notin LinkedPlays'
    <3>1. lib # NoAlbum /\ ~Shared("album") /\ (Linked => ~Shared("rotation")) /\ LinkedPlays = {}
      BY <2>4 DEF Inv, DeleteExcludes
    <3>2. Writing(p) /\ writer[p].checks = {}
      BY <1>5 DEF StorePlay
    <3>3. writer[p].play.album # lib
      BY <3>1, <3>2 DEF Inv, IsChecked, Shared
    <3>4. ~(Linked /\ writer[p].play.rotation = rotation.id)
      <4>1. CASE Stored(p)
        BY <3>1, <3>2, <4>1 DEF Inv, IsChecked, LinkedPlays
      <4>2. CASE ~Stored(p)
        BY <3>1, <3>2, <4>2 DEF Inv, IsChecked, Shared, Linked
      <4> QED
        BY <4>1, <4>2
    <3> QED
      BY <2>1, <3>3, <3>4 DEF LinkedPlays, Linked
  <2>5. DeleteExcludes'
    BY <2>1, <2>3, <2>4 DEF Inv, DeleteExcludes, LinkedPlays, Linked, Stored
  <2> QED
    BY <1>0, <2>1, <2>2, <2>5 DEF Inv, ImportInserts, ResurrectionIsReported
<1>6. CASE LinkRotation
  <2>1. /\ UNCHANGED <<lib, denied, plays, writer, delete, etl, reported>>
        /\ rotation.id # NoEntry => rotation'.id = rotation.id
        /\ delete \notin {"lockRotation", "countLinked", "countLegacy", "commit"}
    BY <1>0, <1>6 DEF LinkRotation, DeleteHolds, TypeOK
  <2>2. ASSUME NEW p \in Plays PROVE HoldsParent(p)' /\ IsChecked(p)'
    BY <2>1 DEF Inv, HoldsParent, IsChecked, ChecksOf, Writing, Stored
  <2> QED
    BY <1>0, <2>1, <2>2 DEF Inv, DeleteExcludes, ImportInserts, ResurrectionIsReported
<1>7. CASE DeleteBegins \/ DeleteStandsDown \/ (Delete /\ ~DeleteCommits)
  <2>1. UNCHANGED <<lib, denied, rotation, plays, writer, etl, reported>>
    BY <1>7 DEF DeleteBegins, Delete, DeleteStandsDown, DeleteGoes, DeleteLocksAlbum,
       DeleteLocksRotation, DeleteCountsLinked, DeleteCountsLegacy
  <2>2. /\ delete' \in {"lockRotation", "countLinked", "countLegacy", "commit"} =>
             lib # NoAlbum /\ ~Shared("album")
        /\ delete' \in {"countLinked", "countLegacy", "commit"} /\ Linked => ~Shared("rotation")
        /\ delete' \in {"countLegacy", "commit"} => LinkedPlays = {}
    BY <1>7 DEF Inv, DeleteExcludes, DeleteBegins, Delete, DeleteStandsDown, DeleteGoes,
       DeleteLocksAlbum, DeleteLocksRotation, DeleteCountsLinked, DeleteCountsLegacy,
       AlbumIsFree, RotationIsFree
  <2>3. DeleteExcludes'
    BY <2>1, <2>2 DEF DeleteExcludes, Shared, Linked, LinkedPlays, Stored
  <2> QED
    BY <1>0, <2>1, <2>3, WritersStill DEF Inv, ImportInserts, ResurrectionIsReported
<1>8. CASE DeleteCommits
  <2>1. /\ lib # NoAlbum /\ ~Shared("album") /\ (Linked => ~Shared("rotation"))
        /\ LinkedPlays = {} /\ etl.row = NoAlbum
    BY <1>8 DEF Inv, DeleteCommits, DeleteExcludes, ImportInserts
  <2>2. /\ lib' = NoAlbum /\ delete' = "idle" /\ UNCHANGED <<writer, etl>>
        /\ ~Linked => rotation' = rotation
    BY <1>8 DEF DeleteCommits
  <2>3. ASSUME NEW p \in Plays
        PROVE  Stored(p)' = Stored(p) /\ (Stored(p) => SameLinks(p))
    BY <1>8, DeleteUnlinksNothing
  <2>4. ASSUME NEW p \in Plays PROVE HoldsParent(p)' /\ IsChecked(p)'
    <3>1. HoldsParent(p)'
      BY <2>1, <2>2 DEF Inv, HoldsParent, Shared
    <3>2. IsChecked(p)'
      BY <2>2, <2>3 DEF Inv, IsChecked, Writing, SameLinks
    <3> QED
      BY <3>1, <3>2
  <2> QED
    BY <1>0, <2>1, <2>2, <2>4 DEF Inv, DeleteExcludes, ImportInserts, ResurrectionIsReported
<1>9. CASE Etl /\ ~EtlCommits
  <2>1. UNCHANGED <<lib, denied, rotation, plays, writer, delete, reported>>
    BY <1>9 DEF Etl, EtlBegins, EtlChecks, EtlFinds, EtlUpdates, EtlPreflight, EtlUpserts,
       EtlReconciles, EtlFails, StillEtl
  <2>2. ImportInserts'
    <3>1. CASE EtlBegins \/ EtlChecks \/ EtlFinds \/ EtlUpdates \/ EtlPreflight \/ EtlFails
      <4>1. etl'.at # "commit" /\ (etl'.row = etl.row \/ etl'.row = NoAlbum)
        <5>1. CASE EtlBegins \/ EtlChecks \/ EtlFinds
          BY <1>0, <5>1 DEF EtlBegins, EtlChecks, EtlFinds, EtlGoes, TypeOK, Imports
        <5>2. CASE EtlUpdates \/ EtlPreflight
          BY <1>0, <5>2 DEF EtlUpdates, EtlPreflight, TypeOK, Imports
        <5>3. CASE EtlFails
          BY <5>3 DEF EtlFails, NoImport
        <5> QED
          BY <3>1, <5>1, <5>2, <5>3
      <4> QED
        BY <2>1, <4>1 DEF Inv, ImportInserts
    <3>2. CASE EtlUpserts
      <4>1. etl'.at = "reconcile" /\ (lib # NoAlbum => etl'.row = etl.row)
        BY <1>0, <3>2 DEF EtlUpserts, TypeOK, Imports
      <4> QED
        BY <2>1, <4>1 DEF Inv, ImportInserts
    <3>3. CASE EtlReconciles
      <4>1. CASE denied
        <5>1. etl'.stranded = Stranded /\ etl'.row = IF etl.seen = NoAlbum THEN NoAlbum ELSE etl.row
          BY <1>0, <3>3, <4>1 DEF EtlReconciles, TypeOK, Imports
        <5> QED
          BY <2>1, <5>1 DEF Inv, ImportInserts, Stranded
      <4>2. CASE ~denied
        <5>1. etl'.row = etl.row
          BY <1>0, <3>3, <4>2 DEF EtlReconciles, TypeOK, Imports
        <5> QED
          BY <2>1, <4>2, <5>1 DEF Inv, ImportInserts
      <4> QED
        BY <4>1, <4>2
    <3> QED
      BY <1>9, <3>1, <3>2, <3>3 DEF Etl
  <2>3. DeleteExcludes'
    BY <2>1 DEF Inv, DeleteExcludes, Shared, Linked, LinkedPlays, Stored
  <2> QED
    BY <1>0, <2>1, <2>2, <2>3, WritersStill DEF Inv, ResurrectionIsReported
<1>10. CASE EtlCommits
  <2>1. CASE etl.row = NoAlbum
    <3>1. UNCHANGED <<lib, denied, rotation, plays, writer, delete>> /\ (reported => reported')
      BY <1>10, <2>1 DEF EtlCommits
    <3>2. DeleteExcludes'
      BY <3>1 DEF Inv, DeleteExcludes, Shared, Linked, LinkedPlays, Stored
    <3>3. ImportInserts'
      BY <1>10 DEF EtlCommits, ImportInserts, NoImport
    <3> QED
      BY <1>0, <3>1, <3>2, <3>3, WritersStill DEF Inv, ResurrectionIsReported
  <2>2. CASE etl.row # NoAlbum
    <3>1. lib = NoAlbum /\ lib' = etl.row
      BY <1>10, <2>2 DEF EtlCommits, Inv, ImportInserts
    <3>2. delete \notin {"lockRotation", "countLinked", "countLegacy", "commit"}
      BY <3>1 DEF Inv, DeleteExcludes
    <3>3. UNCHANGED <<rotation, plays, writer, delete, denied>>
      BY <1>10 DEF EtlCommits
    <3>4. ASSUME NEW p \in Plays PROVE HoldsParent(p)' /\ IsChecked(p)'
      BY <3>1, <3>3 DEF Inv, HoldsParent, IsChecked, ChecksOf, Writing, Stored
    <3>5. denied => reported'
      BY <1>10, <2>2 DEF EtlCommits, Inv, ImportInserts
    <3> QED
      BY <1>0, <1>10, <3>2, <3>3, <3>4, <3>5
      DEF EtlCommits, Inv, DeleteExcludes, ImportInserts, NoImport, ResurrectionIsReported
  <2> QED
    BY <2>1, <2>2
<1> QED
  BY <1>1, <1>2, <1>3, <1>4, <1>5, <1>6, <1>7, <1>8, <1>9, <1>10 DEF Next, Delete

LEMMA InvHolds == Spec => []Inv
  BY InvInit, InvStep, PTL DEF Spec

\* A deleted release that is back in the catalog has been complained of by the
\* import that brought it back.
THEOREM DeletedIsReported == Spec => []ResurrectionIsReported
<1>1. Inv => ResurrectionIsReported
  BY DEF Inv
<1> QED
  BY <1>1, InvHolds, PTL

\* No delete clears the release or the rotation entry of a play, and no other
\* writer does: a play that is stored keeps its links.
THEOREM LinksAreKept == Spec => PlaysKeepTheirLinks
<1> DEFINE Kept ==
      \A p \in Plays : Stored(p) =>
        /\ plays[p].album # NoAlbum => plays'[p].album = plays[p].album
        /\ plays[p].rotation # NoEntry => plays'[p].rotation = plays[p].rotation
<1>1. Inv /\ [Next]_vars => Kept
  <2> SUFFICES ASSUME Inv, [Next]_vars, NEW p \in Plays, Stored(p), ~SameLinks(p)
               PROVE  plays[p].album = NoAlbum /\ plays'[p].rotation = plays[p].rotation
    BY DEF SameLinks
  <2>1. ~UNCHANGED plays
    BY DEF SameLinks
  <2>2. ~DeleteCommits
    BY DeleteUnlinksNothing
  <2>3. PICK q \in Plays : StorePlay(q)
    BY <2>1, <2>2 DEF Next, vars, InsertPlay, ResolvePlay, ForeignKeyCheck, LinkRotation,
       DeleteBegins, Delete, DeleteStandsDown, DeleteGoes, DeleteLocksAlbum, DeleteLocksRotation,
       DeleteCountsLinked, DeleteCountsLegacy, Etl, EtlBegins, EtlChecks, EtlFinds, EtlUpdates,
       EtlPreflight, EtlUpserts, EtlReconciles, EtlCommits, EtlFails, StillEtl
  <2>4. q = p /\ plays'[p] = writer[p].play
    BY <2>3 DEF Inv, TypeOK, StorePlay, SameLinks
  <2> QED
    BY <2>3, <2>4 DEF Inv, IsChecked, StorePlay
<1>2. Kept => [Kept]_vars
  OBVIOUS
<1> QED
  BY <1>1, InvHolds, PTL DEF Spec, PlaysKeepTheirLinks

(***************************************************************************)
(* The sweep of rows that are gone upstream.                               *)
(***************************************************************************)
-----------------------------------------------------------------------------
(* The order of the ids                                                    *)

LEMMA RowSets ==
  ASSUME NEW S \in SUBSET Rows
  PROVE  IsFiniteSet(S) /\ Cardinality(S) \in Nat /\ S \in SUBSET Nat
  BY SweepAssumption, FS_Subset, FS_CardinalityType

\* A finite set of ids has a least and a greatest one: the sets of the ids below
\* them, or above, are ordered by inclusion.
LEMMA LeastExists ==
  ASSUME NEW S \in SUBSET Rows, S # {}
  PROVE  \E m \in S : \A r \in S : m <= r
<1> DEFINE Below(m) == {r \in S : r < m}
           T == {Below(m) : m \in S}
<1>1. IsWellFoundedOn(StrictSubsetOrdering(Rows), FiniteSubsetsOf(Rows))
  BY FS_StrictSubsetOrderingWellFounded
<1>2. T \subseteq FiniteSubsetsOf(Rows) /\ T # {}
  BY RowSets DEF FiniteSubsetsOf
<1>3. \E x \in T : \A y \in T : ~ (<<y, x>> \in StrictSubsetOrdering(Rows))
  <2> HIDE DEF T
  <2> QED BY <1>1, <1>2, WFMin
<1>4. PICK m \in S : \A y \in T : ~ (<<y, Below(m)>> \in StrictSubsetOrdering(Rows))
  BY <1>3
<1>5. ASSUME NEW r \in S, r < m PROVE FALSE
  <2>0. \A q \in S : q \in Nat
    BY RowSets
  <2>1. Below(r) \in T /\ Below(r) \subseteq Below(m) /\ r \in Below(m) /\ r \notin Below(r)
    <3>1. Below(r) \in T
      OBVIOUS
    <3>2. Below(r) \subseteq Below(m) /\ r \in Below(m) /\ r \notin Below(r)
      BY <1>5, <2>0
    <3> QED BY <3>1, <3>2
  <2>2. <<Below(r), Below(m)>> \in StrictSubsetOrdering(Rows)
    <3>1. Below(r) \in SUBSET Rows /\ Below(m) \in SUBSET Rows
      OBVIOUS
    <3> HIDE DEF Below
    <3> QED BY <2>1, <3>1 DEF StrictSubsetOrdering
  <2> QED
    BY <1>4, <2>1, <2>2
<1> QED
  BY <1>5, RowSets

LEMMA GreatestExists ==
  ASSUME NEW S \in SUBSET Rows, S # {}
  PROVE  Max(S) \in S /\ \A r \in S : r <= Max(S)
<1> DEFINE Above(m) == {r \in S : m < r}
           T == {Above(m) : m \in S}
<1>1. IsWellFoundedOn(StrictSubsetOrdering(Rows), FiniteSubsetsOf(Rows))
  BY FS_StrictSubsetOrderingWellFounded
<1>2. T \subseteq FiniteSubsetsOf(Rows) /\ T # {}
  BY RowSets DEF FiniteSubsetsOf
<1>3. \E x \in T : \A y \in T : ~ (<<y, x>> \in StrictSubsetOrdering(Rows))
  <2> HIDE DEF T
  <2> QED BY <1>1, <1>2, WFMin
<1>4. PICK m \in S : \A y \in T : ~ (<<y, Above(m)>> \in StrictSubsetOrdering(Rows))
  BY <1>3
<1>5. ASSUME NEW r \in S, m < r PROVE FALSE
  <2>0. \A q \in S : q \in Nat
    BY RowSets
  <2>1. Above(r) \in T /\ Above(r) \subseteq Above(m) /\ r \in Above(m) /\ r \notin Above(r)
    <3>1. Above(r) \in T
      OBVIOUS
    <3>2. Above(r) \subseteq Above(m) /\ r \in Above(m) /\ r \notin Above(r)
      BY <1>5, <2>0
    <3> QED BY <3>1, <3>2
  <2>2. <<Above(r), Above(m)>> \in StrictSubsetOrdering(Rows)
    <3>1. Above(r) \in SUBSET Rows /\ Above(m) \in SUBSET Rows
      OBVIOUS
    <3> HIDE DEF Above
    <3> QED BY <2>1, <3>1 DEF StrictSubsetOrdering
  <2> QED
    BY <1>4, <2>1, <2>2
<1>6. \A r \in S : m >= r
  BY <1>5, RowSets
<1> QED
  BY <1>6, RowSets DEF Max

\* A page has all rows up to its last one, and a short one has all there are.
LEMMA PageFacts ==
  ASSUME table \in SUBSET Rows, NEW id \in Rows \cup {0}
  PROVE  /\ PageAfter(id) \subseteq After(id) /\ After(id) \subseteq table
         /\ PageAfter(id) # {} =>
              /\ Max(PageAfter(id)) \in PageAfter(id) /\ Max(PageAfter(id)) > id
              /\ \A r \in table : id < r /\ r <= Max(PageAfter(id)) => r \in PageAfter(id)
         /\ Cardinality(PageAfter(id)) < BatchSize => PageAfter(id) = After(id)
<1> DEFINE P == PageAfter(id)
           A == After(id)
           Below(r) == {q \in A : q < r}
<1>1. P \subseteq A /\ A \subseteq table /\ P \in SUBSET Rows /\ id \in Nat
  <2>1. P \subseteq A /\ A \subseteq table
    BY DEF PageAfter, After
  <2>2. id \in Nat
    BY SweepAssumption
  <2> HIDE DEF A, P
  <2> QED BY <2>1, <2>2
<1>2. \A r \in A : r \in P <=> Cardinality(Below(r)) < BatchSize
  BY DEF PageAfter
<1>3. \A r \in A : Below(r) \in SUBSET Rows
  BY <1>1
<1>4. ASSUME P # {} PROVE /\ Max(P) \in P /\ Max(P) > id
                          /\ \A r \in table : id < r /\ r <= Max(P) => r \in P
  <2>1. Max(P) \in P
    BY <1>1, <1>4, GreatestExists
  <2>2. Max(P) > id
    BY <1>1, <2>1 DEF After
  <2>3. ASSUME NEW r \in table, id < r, r <= Max(P) PROVE r \in P
    <3>1. r \in A
      BY <2>3 DEF After
    <3>2. Below(r) \subseteq Below(Max(P))
      <4>1. \A q \in A : q \in Nat
        BY <1>1, SweepAssumption
      <4>2. r \in Nat /\ Max(P) \in Nat
        BY <1>1, <2>1, <3>1, <4>1
      <4>3. ASSUME NEW q \in A, q < r PROVE q < Max(P)
        BY <2>3, <4>1, <4>2, <4>3
      <4> HIDE DEF A, P
      <4> QED BY <4>3
    <3>3. Cardinality(Below(r)) <= Cardinality(Below(Max(P)))
      <4>1. Below(Max(P)) \in SUBSET Rows /\ Below(r) \in SUBSET Below(Max(P))
        BY <1>1, <3>2
      <4> HIDE DEF Below
      <4> QED BY <4>1, RowSets, FS_Subset
    <3>4. Cardinality(Below(Max(P))) < BatchSize /\ Cardinality(Below(Max(P))) \in Nat
      BY <1>1, <1>2, <1>3, <2>1, RowSets
    <3>5. Cardinality(Below(r)) \in Nat
      BY <1>3, <3>1, RowSets
    <3> HIDE DEF A, P, Below
    <3> QED
      BY <1>2, <3>1, <3>3, <3>4, <3>5, SweepAssumption
  <2> QED
    BY <2>1, <2>2, <2>3
<1>5. ASSUME Cardinality(P) < BatchSize PROVE P = A
  <2> SUFFICES ASSUME A \ P # {} PROVE FALSE
    BY <1>1
  <2>1. PICK m \in A \ P : \A r \in A \ P : m <= r
    <3>1. A \ P \in SUBSET Rows
      BY <1>1
    <3> HIDE DEF A, P
    <3> QED BY <3>1, LeastExists
  <2>2. Below(m) \subseteq P
    <3>1. \A q \in A : q \in Nat
      BY <1>1, SweepAssumption
    <3>2. ASSUME NEW q \in A, q < m PROVE q \in P
      BY <2>1, <3>1, <3>2
    <3> HIDE DEF A, P
    <3> QED BY <3>2
  <2>3. Cardinality(Below(m)) <= Cardinality(P) /\ Cardinality(P) \in Nat
    <3>1. P \in SUBSET Rows /\ Below(m) \in SUBSET P
      BY <1>1, <2>2
    <3> HIDE DEF Below, P
    <3> QED BY <3>1, RowSets, FS_Subset
  <2>4. Cardinality(Below(m)) \in Nat
    BY <1>3, <2>1, RowSets
  <2> HIDE DEF A, P, Below
  <2> QED
    BY <1>2, <1>5, <2>1, <2>3, <2>4, SweepAssumption
<1> QED
  BY <1>1, <1>4, <1>5

-----------------------------------------------------------------------------
(* The type invariant                                                      *)

SweepShape == SweepTypeOK /\ (pc = "delete" => page # {})

LEMMA SweepTypeInit == SweepInit => SweepShape
<1> SUFFICES ASSUME SweepInit PROVE SweepShape
  OBVIOUS
<1>1. scanned \in Nat /\ flagged \in 0 .. scanned /\ crashes \in 0 .. MaxCrashes
  BY SweepAssumption DEF SweepInit
<1>2. wrote \in BOOLEAN /\ stopping \in BOOLEAN /\ shaken \in BOOLEAN
  BY Zenon DEF SweepInit
<1> QED
  BY <1>1, <1>2 DEF SweepInit, SweepTypeOK, SweepShape

LEMMA SweepTypeStep == SweepShape /\ [SweepNext]_sweepVars => SweepShape'
<1> SUFFICES ASSUME SweepShape, [SweepNext]_sweepVars PROVE SweepShape'
  OBVIOUS
<1> USE DEF SweepShape, SweepTypeOK, totals, files
<1>1. CASE UNCHANGED sweepVars
  BY <1>1 DEF sweepVars
<1>2. ASSUME NEW file \in Keyspaces, NEW id \in {0, lastId}, StartRun(file, id)
      PROVE  SweepShape'
  <2>1. scanned' \in Nat /\ flagged' \in 0 .. scanned'
    BY <1>2 DEF StartRun
  <2>2. wrote' \in BOOLEAN /\ stopping' \in BOOLEAN /\ shaken' \in BOOLEAN
    BY <1>2, Zenon DEF StartRun
  <2>3. /\ afterId' \in Rows \cup {0} /\ lastId' \in Rows \cup {0}
        /\ verified' \in Rows \cup {0} /\ keyspace' \in Keyspaces \cup {{}}
    BY <1>2 DEF StartRun
  <2>4. pc' \in {"idle", "scan"} /\ result' \in {"none", "failed"}
    BY <1>2 DEF StartRun
  <2> QED
    BY <1>2, <2>1, <2>2, <2>3, <2>4 DEF StartRun
<1>3. CASE RequestStop \/ Stops \/ LoadFails
  <2>1. stopping' \in BOOLEAN
    BY <1>3, Zenon DEF RequestStop, Stops, LoadFails
  <2> QED
    BY <1>3, <2>1 DEF RequestStop, Stops, LoadFails, End
<1>4. CASE ScanPage
  <2>1. page' \subseteq Rows /\ Cardinality(page') \in Nat
    BY <1>4, PageFacts, RowSets DEF ScanPage
  <2>2. Cardinality(GhostsOf(page')) \in 0 .. Cardinality(page')
    BY <2>1, RowSets, FS_Subset DEF GhostsOf
  <2>3. scanned' \in Nat /\ flagged' \in 0 .. scanned'
    BY <1>4, <2>1, <2>2 DEF ScanPage
  <2> QED
    BY <1>4, <2>1, <2>3 DEF ScanPage, End
<1>5. CASE DeletePage
  <2>1. lastId' \in Rows
    BY <1>5, GreatestExists DEF DeletePage
  <2>2. wrote' \in BOOLEAN
    BY <1>5, Zenon DEF DeletePage
  <2> QED
    BY <1>5, <2>1, <2>2 DEF DeletePage
<1>6. CASE DeleteFails
  BY <1>6 DEF DeleteFails, FailBehind, End
<1>7. CASE ScanEnds
  <2>1. shaken' \in BOOLEAN
    BY <1>7, Zenon DEF ScanEnds
  <2> QED
    BY <1>7, <2>1 DEF ScanEnds, End
<1>8. CASE VerifyPage
  <2>1. verified' \in Rows /\ remaining' \subseteq Rows
    BY <1>8, PageFacts DEF VerifyPage, GhostsOf
  <2> QED
    BY <1>8, <2>1 DEF VerifyPage
<1>9. CASE VerifyEnds
  BY <1>9 DEF VerifyEnds, End
<1>10. CASE WalFlush
  BY <1>10 DEF WalFlush
<1>11. CASE Crash
  <2>1. shaken' \in BOOLEAN
    BY <1>11, Zenon DEF Crash
  <2>2. crashes' \in 0 .. MaxCrashes
    BY <1>11, SweepAssumption DEF Crash
  <2>3. /\ pc' \in {"idle", "scan", "delete", "verify"} /\ page' \subseteq Rows
        /\ result' \in {"none", "stopped", "failed", "refused", "finished"}
        /\ lastId' = lastId /\ (pc' = "delete" => page' # {})
    BY <1>11 DEF Crash, FailBehind, End
  <2> QED
    BY <1>11, <2>1, <2>2, <2>3 DEF Crash
<1> QED
  BY <1>1, <1>2, <1>3, <1>4, <1>5, <1>6, <1>7, <1>8, <1>9, <1>10, <1>11 DEF SweepNext

LEMMA SweepShapeHolds == SweepSpec => []SweepShape
  BY SweepTypeInit, SweepTypeStep, PTL DEF SweepSpec

THEOREM SweepTypeCorrect == SweepSpec => []SweepTypeOK
<1>1. SweepShape => SweepTypeOK
  BY DEF SweepShape
<1> QED
  BY <1>1, SweepShapeHolds, PTL

-----------------------------------------------------------------------------
(* The cursor                                                              *)

\* While no crash has brought rows back, the page has all rows up to its end.
CursorInv ==
  /\ NothingBehindCursor
  /\ pc = "delete" /\ crashes = 0 =>
       \A r \in table : lastId < r /\ r <= Max(page) => r \in page

LEMMA CursorStep == SweepShape /\ CursorInv /\ [SweepNext]_sweepVars => CursorInv'
<1> SUFFICES ASSUME SweepShape, CursorInv, [SweepNext]_sweepVars PROVE CursorInv'
  OBVIOUS
<1>0. /\ table \subseteq Rows /\ keyspace \subseteq Upstream /\ lastId \in Rows \cup {0}
      /\ \A r \in Rows : r \in Nat /\ r > 0
  BY SweepAssumption DEF SweepShape, SweepTypeOK
<1> USE DEF CursorInv, NothingBehindCursor, totals, files
<1>1. CASE UNCHANGED sweepVars
  BY <1>1 DEF sweepVars
<1>2. ASSUME NEW file \in Keyspaces, NEW id \in {0, lastId}, StartRun(file, id)
      PROVE  CursorInv'
  BY <1>0, <1>2 DEF StartRun
<1>3. CASE RequestStop \/ Stops \/ LoadFails \/ ScanEnds \/ VerifyPage \/ VerifyEnds \/ WalFlush
  BY <1>3 DEF RequestStop, Stops, LoadFails, ScanEnds, VerifyPage, VerifyEnds, WalFlush, End
<1>4. CASE ScanPage
  BY <1>0, <1>4, PageFacts DEF ScanPage, End
<1>5. CASE DeletePage
  <2>1. /\ table' = table \ GhostsOf(page) /\ lastId' = Max(page) /\ pc' = "scan"
        /\ crashes' = crashes /\ pc = "delete"
    BY <1>5 DEF DeletePage
  <2>2. Max(page) \in Nat
    BY <1>0, <2>1, GreatestExists DEF SweepShape, SweepTypeOK
  <2>3. ASSUME crashes = 0, NEW r \in table' \ Upstream PROVE r > Max(page)
    <3>1. r \in table /\ r \notin page /\ r > lastId
      BY <1>0, <2>1, <2>3 DEF GhostsOf
    <3>2. ~(r <= Max(page))
      BY <1>0, <2>1, <2>3, <3>1
    <3> QED
      BY <1>0, <2>2, <3>1, <3>2
  <2> QED
    BY <2>1, <2>3
<1>6. CASE DeleteFails
  BY <1>6 DEF DeleteFails, FailBehind, End
<1>7. CASE Crash
  BY <1>7 DEF Crash, SweepShape, SweepTypeOK
<1> QED
  BY <1>1, <1>2, <1>3, <1>4, <1>5, <1>6, <1>7 DEF SweepNext

-----------------------------------------------------------------------------
(* The re-scan                                                             *)

CleanInv ==
  /\ result # "none" => pc = "idle"
  /\ pc = "verify" /\ ~shaken =>
       \A r \in GhostsOf(table) : r <= afterId \/ r > verified \/ r \in remaining
  /\ FinishedIsClean

LEMMA CleanStep == SweepShape /\ CleanInv /\ [SweepNext]_sweepVars => CleanInv'
<1> SUFFICES ASSUME SweepShape, CleanInv, [SweepNext]_sweepVars PROVE CleanInv'
  OBVIOUS
<1>0. /\ table \subseteq Rows /\ afterId \in Rows \cup {0} /\ verified \in Rows \cup {0}
      /\ \A r \in Rows : r \in Nat
  BY SweepAssumption DEF SweepShape, SweepTypeOK
<1> USE DEF CleanInv, FinishedIsClean, GhostsOf, totals, files
<1>1. CASE UNCHANGED sweepVars
  BY <1>1 DEF sweepVars
<1>2. ASSUME NEW file \in Keyspaces, NEW id \in {0, lastId}, StartRun(file, id)
      PROVE  CleanInv'
  BY <1>2 DEF StartRun
<1>3. CASE RequestStop \/ Stops \/ LoadFails \/ WalFlush
  BY <1>3 DEF RequestStop, Stops, LoadFails, WalFlush, End
<1>4. CASE ScanPage
  BY <1>4 DEF ScanPage, End
<1>5. CASE DeletePage
  BY <1>5 DEF DeletePage
<1>6. CASE DeleteFails
  BY <1>6 DEF DeleteFails, FailBehind, End
<1>7. CASE ScanEnds
  BY <1>0, <1>7 DEF ScanEnds, End
<1>8. CASE VerifyPage
  <2> DEFINE P == PageAfter(verified)
  <2>1. /\ pc = "verify" /\ P # {} /\ remaining' = remaining \cup GhostsOf(P)
        /\ verified' = Max(P)
        /\ UNCHANGED <<table, keyspace, afterId, pc, result, wrote, shaken>>
    BY <1>8 DEF VerifyPage
  <2>2. Max(P) \in Nat /\ \A r \in table : verified < r /\ r <= Max(P) => r \in P
    BY <1>0, <2>1, PageFacts
  <2> HIDE DEF P
  <2>3. ASSUME ~shaken, NEW r \in GhostsOf(table)
        PROVE  r <= afterId \/ r > Max(P) \/ r \in remaining'
    <3>1. r <= afterId \/ r > verified \/ r \in remaining
      BY <2>1, <2>3
    <3>2. r \in table /\ r \in Nat
      BY <1>0, <2>3
    <3> QED
      BY <1>0, <2>1, <2>2, <2>3, <3>1, <3>2
  <2> QED
    BY <2>1, <2>3
<1>9. CASE VerifyEnds
  <2>1. After(verified) = {}
    <3>1. Cardinality(PageAfter(verified)) < BatchSize
      BY <1>9, FS_EmptySet, SweepAssumption DEF VerifyEnds
    <3> QED
      BY <1>0, <1>9, <3>1, PageFacts DEF VerifyEnds
  <2>2. \A r \in table : ~(r > verified)
    BY <2>1 DEF After
  <2> QED
    BY <1>9, <2>2 DEF VerifyEnds, End
<1>10. CASE Crash
  BY <1>10 DEF Crash, FailBehind, End
<1> QED
  BY <1>1, <1>2, <1>3, <1>4, <1>5, <1>6, <1>7, <1>8, <1>9, <1>10 DEF SweepNext

-----------------------------------------------------------------------------
(* The ceiling                                                             *)

\* Without a crash a run that has read less than a page is at the end of the
\* table, so that what it deleted without a ceiling is all it will delete.
HalfInv ==
  /\ Cardinality(removed) <= flagged
  /\ pc = "delete" =>
       /\ Cardinality(removed) + Cardinality(GhostsOf(page)) <= flagged
       /\ scanned >= BatchSize => 2 * flagged <= scanned
  /\ crashes = 0 /\ pc = "scan" /\ scanned < BatchSize =>
       (scanned = 0 /\ removed = {}) \/ After(lastId) = {}
  /\ crashes = 0 /\ pc = "delete" /\ scanned < BatchSize => page = After(lastId)
  /\ HalfAtMost

\* A DELETE, done or failed, takes no more than the ghosts of its page.
LEMMA TakenFacts ==
  ASSUME SweepShape, NEW S \in SUBSET GhostsOf(page)
  PROVE  /\ Cardinality(removed) \in Nat /\ Cardinality(GhostsOf(page)) \in Nat
         /\ Cardinality(removed \cup S) \in Nat
         /\ Cardinality(removed \cup S) <= Cardinality(removed) + Cardinality(GhostsOf(page))
<1>1. /\ removed \in SUBSET Rows /\ S \in SUBSET Rows /\ GhostsOf(page) \in SUBSET Rows
      /\ removed \cup S \in SUBSET Rows /\ removed \cap S \in SUBSET Rows
  BY DEF SweepShape, SweepTypeOK, GhostsOf
<1>2. Cardinality(removed \cup S)
        = Cardinality(removed) + Cardinality(S) - Cardinality(removed \cap S)
  BY <1>1, RowSets, FS_Union
<1>3. Cardinality(S) <= Cardinality(GhostsOf(page))
  BY <1>1, RowSets, FS_Subset
<1>4. /\ Cardinality(removed) \in Nat /\ Cardinality(GhostsOf(page)) \in Nat
      /\ Cardinality(removed \cup S) \in Nat /\ Cardinality(S) \in Nat
      /\ Cardinality(removed \cap S) \in Nat
  BY <1>1, RowSets
<1> QED
  BY <1>2, <1>3, <1>4

LEMMA HalfStep == SweepShape /\ HalfInv /\ [SweepNext]_sweepVars => HalfInv'
<1> SUFFICES ASSUME SweepShape, HalfInv, [SweepNext]_sweepVars PROVE HalfInv'
  OBVIOUS
<1>0. /\ table \subseteq Rows /\ lastId \in Rows \cup {0} /\ page \subseteq Rows
      /\ scanned \in Nat /\ flagged \in Nat /\ BatchSize \in Nat \ {0}
      /\ Cardinality(removed) \in Nat /\ \A r \in Rows : r \in Nat
  BY SweepAssumption, RowSets DEF SweepShape, SweepTypeOK
<1> USE DEF HalfInv, HalfAtMost, After
<1>1. CASE UNCHANGED sweepVars
  BY <1>1 DEF sweepVars, GhostsOf
<1>2. ASSUME NEW file \in Keyspaces, NEW id \in {0, lastId}, StartRun(file, id)
      PROVE  HalfInv'
  <2>1. scanned' = 0 /\ flagged' = 0 /\ removed' = {} /\ pc' # "delete"
    BY <1>2 DEF StartRun
  <2> QED
    BY <1>0, <2>1, FS_EmptySet
<1>3. CASE RequestStop
  BY <1>3 DEF RequestStop, totals, files, GhostsOf
<1>4. CASE Stops \/ LoadFails \/ ScanEnds \/ VerifyPage \/ VerifyEnds
  <2>1. /\ pc' # "delete" /\ pc' # "scan"
        /\ UNCHANGED <<scanned, flagged, removed, crashes>>
    BY <1>4 DEF Stops, LoadFails, ScanEnds, VerifyPage, VerifyEnds, End, totals
  <2> QED
    BY <2>1
<1>5. CASE ScanPage
  <2> DEFINE P == PageAfter(lastId)
             G == GhostsOf(P)
  <2>1. /\ page' = P /\ P # {} /\ scanned' = scanned + Cardinality(P)
        /\ flagged' = flagged + Cardinality(G) /\ pc = "scan"
        /\ UNCHANGED <<table, keyspace, lastId, removed, crashes>>
        /\ IF TooMany(scanned', flagged') THEN pc' = "idle" ELSE pc' = "delete"
    BY <1>5 DEF ScanPage, End, files
  <2>2. Cardinality(P) \in Nat /\ Cardinality(G) \in Nat
    <3>1. P \in SUBSET Rows
      BY <1>0, PageFacts
    <3>2. G \in SUBSET Rows
      BY <3>1 DEF GhostsOf
    <3> HIDE DEF P, G
    <3> QED BY <3>1, <3>2, RowSets
  <2>3. GhostsOf(page)' = G
    BY <2>1 DEF GhostsOf
  <2>4. After(lastId) # {}
    BY <1>0, <2>1, PageFacts
  <2>5. Cardinality(P) < BatchSize => P = After(lastId)
    BY <1>0, PageFacts
  <2>6. After(lastId)' = After(lastId)
    BY <2>1
  <2> HIDE DEF P, G
  <2>7. crashes' = 0 /\ scanned' >= BatchSize => 2 * Cardinality(removed') <= scanned'
    <3>1. CASE scanned >= BatchSize
      BY <1>0, <2>1, <2>2, <3>1
    <3>2. CASE scanned < BatchSize
      <4>1. Cardinality({}) = 0
        BY FS_EmptySet
      <4>2. crashes = 0 => removed = {}
        BY <2>1, <2>4, <3>2
      <4>3. crashes = 0 => Cardinality(removed') = 0
        BY <2>1, <4>1, <4>2
      <4> QED
        BY <1>0, <2>1, <2>2, <4>3
    <3> QED
      BY <1>0, <3>1, <3>2
  <2>8. pc' = "delete" /\ scanned' >= BatchSize => 2 * flagged' <= scanned'
    BY <1>0, <2>1, <2>2 DEF TooMany
  <2>9. crashes' = 0 /\ pc' = "delete" /\ scanned' < BatchSize => page' = After(lastId)'
    BY <1>0, <2>1, <2>2, <2>5, <2>6
  <2>10. Cardinality(removed') + Cardinality(GhostsOf(page)') <= flagged'
    BY <1>0, <2>1, <2>2, <2>3
  <2>11. Cardinality(removed') <= flagged'
    BY <1>0, <2>1, <2>2
  <2> QED
    BY <2>1, <2>7, <2>8, <2>9, <2>10, <2>11
<1>6. CASE DeletePage
  <2> DEFINE S == table \cap GhostsOf(page)
  <2>1. /\ removed' = removed \cup S /\ table' = table \ GhostsOf(page)
        /\ lastId' = Max(page) /\ pc = "delete" /\ pc' = "scan"
        /\ UNCHANGED <<scanned, flagged, crashes>>
    BY <1>6 DEF DeletePage
  <2>2. S \in SUBSET GhostsOf(page)
    OBVIOUS
  <2>3. Cardinality(removed') \in Nat /\ Cardinality(removed') <= flagged
    <3>1. Cardinality(removed) + Cardinality(GhostsOf(page)) <= flagged
      BY <2>1
    <3>2. /\ Cardinality(removed \cup S) \in Nat /\ Cardinality(GhostsOf(page)) \in Nat
          /\ Cardinality(removed \cup S) <= Cardinality(removed) + Cardinality(GhostsOf(page))
      BY <2>2, TakenFacts
    <3> HIDE DEF S
    <3> QED BY <1>0, <2>1, <3>1, <3>2
  <2>4. ASSUME crashes = 0, scanned < BatchSize PROVE After(lastId)' = {}
    <3>1. page = After(lastId) /\ page # {}
      BY <2>1, <2>4 DEF SweepShape
    <3>2. Max(page) \in page /\ \A r \in page : r <= Max(page)
      BY <1>0, <3>1, GreatestExists
    <3>3. ASSUME NEW r \in table, r > Max(page) PROVE FALSE
      <4>1. r \in page
        BY <1>0, <3>1, <3>2, <3>3
      <4> QED
        BY <1>0, <3>2, <3>3, <4>1
    <3> QED
      BY <2>1, <3>3
  <2>5. scanned >= BatchSize => 2 * Cardinality(removed') <= scanned
    BY <1>0, <2>1, <2>3
  <2> QED
    BY <2>1, <2>3, <2>4, <2>5
<1>7. CASE DeleteFails
  <2> DEFINE S == table \ table'
  <2>1. /\ removed' = removed \cup S /\ pc = "delete" /\ pc' = "idle"
        /\ UNCHANGED <<scanned, flagged, crashes>>
    BY <1>7 DEF DeleteFails, FailBehind, End
  <2>2. S \in SUBSET GhostsOf(page)
    BY <1>7 DEF DeleteFails
  <2>3. Cardinality(removed') \in Nat /\ Cardinality(removed') <= flagged
    <3>1. Cardinality(removed) + Cardinality(GhostsOf(page)) <= flagged
      BY <2>1
    <3>2. /\ Cardinality(removed \cup S) \in Nat /\ Cardinality(GhostsOf(page)) \in Nat
          /\ Cardinality(removed \cup S) <= Cardinality(removed) + Cardinality(GhostsOf(page))
      BY <2>2, TakenFacts
    <3> HIDE DEF S
    <3> QED BY <1>0, <2>1, <3>1, <3>2
  <2>4. scanned >= BatchSize => 2 * Cardinality(removed') <= scanned
    BY <1>0, <2>1, <2>3
  <2> QED
    BY <2>1, <2>3, <2>4
<1>8. CASE WalFlush
  BY <1>8 DEF WalFlush, totals, files, GhostsOf
<1>9. CASE Crash
  <2>1. /\ crashes' # 0 /\ UNCHANGED <<scanned, flagged, removed, keyspace>>
        /\ pc' = "delete" => pc = "delete" /\ page' = page
    <3>1. crashes' # 0
      BY <1>9 DEF Crash, SweepShape, SweepTypeOK
    <3> QED
      BY <1>9, <3>1 DEF Crash, FailBehind, End, totals, files
  <2> QED
    BY <2>1 DEF GhostsOf
<1> QED
  BY <1>1, <1>2, <1>3, <1>4, <1>5, <1>6, <1>7, <1>8, <1>9 DEF SweepNext

-----------------------------------------------------------------------------

\* Over any sequence of runs, stopped, failed, refused or truncated: no ghost is
\* behind the logged cursor unless Postgres crashed, a run that says it finished
\* left none, and without a crash the ceiling bounds what a wrong file costs.
THEOREM SweepSound == SweepSpec => []SweepIsSound
<1>1. SweepInit => CursorInv /\ CleanInv /\ HalfInv
  <2> SUFFICES ASSUME SweepInit PROVE CursorInv /\ CleanInv /\ HalfInv
    OBVIOUS
  <2>1. CursorInv
    BY SweepAssumption DEF SweepInit, CursorInv, NothingBehindCursor
  <2>2. CleanInv
    BY DEF SweepInit, CleanInv, FinishedIsClean
  <2>3. HalfInv
    BY SweepAssumption, FS_EmptySet DEF SweepInit, HalfInv, HalfAtMost
  <2> QED
    BY <2>1, <2>2, <2>3
<1>2. CursorInv /\ CleanInv /\ HalfInv => SweepIsSound
  BY DEF CursorInv, CleanInv, HalfInv, SweepIsSound
<1> QED
  BY <1>1, <1>2, SweepShapeHolds, CursorStep, CleanStep, HalfStep, PTL DEF SweepSpec

-----------------------------------------------------------------------------
(***************************************************************************)
(* The mirror's queue of SQL commands.                                     *)
(***************************************************************************)
LoopRecs == [alive : BOOLEAN, at : Loops, cmd : Commands \cup {0}, queue : Seq(Commands)]

\* What is in the place of command c in queue i, and left to do.
LoopFits(i, q) ==
  /\ q \in LoopRecs
  /\ q.at = "idle" => q.cmd = 0 /\ (q.alive => q.queue = << >>)
  /\ q.at \in {"send", "sent", "report"} => q.cmd \in Commands /\ q.alive
  /\ q.at = "fatal" => q.cmd \in Commands /\ ~q.alive
  /\ q.cmd # 0 => home[q.cmd] = i /\ q.cmd \notin Range(q.queue) /\ q.cmd \notin backoff
  /\ \A c \in Range(q.queue) :
       home[c] = i /\ c \notin backoff /\ attempts[c] < MaxAttempts
  /\ IsInjective(q.queue)
  /\ q.at = "report" => attempts[q.cmd] < MaxAttempts
  /\ q.at = "send" => runs[q.cmd] < attempts[q.cmd]
  /\ q.at = "sent" => runs[q.cmd] > 0

\* Every command waits for a timer, stands in line or is under way, once and in
\* the queue that took it, with attempts left; and only the last queue lives.
QueueInv ==
  /\ QueueTypeOK
  /\ \A i \in DOMAIN queues : i < Len(queues) => ~queues[i].alive
  /\ \A i \in DOMAIN queues : LoopFits(i, queues[i])
  /\ \A c \in backoff : home[c] # 0 /\ attempts[c] < MaxAttempts
  /\ \A c \in Commands : /\ runs[c] <= attempts[c]
                         /\ home[c] = 0 => attempts[c] = 0 /\ c \notin backoff

\* The commands are numbered from 1.
LEMMA CommandFacts == Commands \subseteq Nat /\ 0 \notin Commands
BY QueueAssumption DEF Commands

\* What is left when the head of a line without repetitions is taken.
LEMMA TailFacts ==
    ASSUME NEW q \in Seq(Commands), q # << >>, IsInjective(q)
    PROVE  /\ Head(q) \in Commands /\ Head(q) \in Range(q)
           /\ Tail(q) \in Seq(Commands) /\ IsInjective(Tail(q))
           /\ Range(Tail(q)) = Range(q) \ {Head(q)}
<1>1. /\ Len(q) \in Nat \ {0} /\ DOMAIN q = 1 .. Len(q) /\ Head(q) = q[1]
      /\ Tail(q) \in Seq(Commands) /\ DOMAIN Tail(q) = 1 .. Len(q) - 1
      /\ \A k \in 1 .. Len(q) - 1 : Tail(q)[k] = q[k + 1]
  <2>1. Len(q) \in Nat \ {0}
    BY EmptySeq
  <2>2. /\ Tail(q) \in Seq(Commands) /\ Len(Tail(q)) = Len(q) - 1
        /\ \A k \in 1 .. Len(Tail(q)) : Tail(q)[k] = q[k + 1]
    BY HeadTailProperties
  <2> QED
    BY <2>1, <2>2
<1>2. Head(q) \in Commands /\ Head(q) \in Range(q)
  BY <1>1 DEF Range
<1>3. IsInjective(Tail(q))
  BY <1>1 DEF IsInjective
<1>4. Range(Tail(q)) \subseteq Range(q) \ {Head(q)}
  BY <1>1 DEF IsInjective, Range
<1>5. ASSUME NEW c \in Range(q), c # Head(q) PROVE c \in Range(Tail(q))
  <2>1. PICK k \in 1 .. Len(q) : c = q[k]
    BY <1>1 DEF Range
  <2>2. k - 1 \in DOMAIN Tail(q) /\ Tail(q)[k - 1] = c
    BY <1>1, <1>5, <2>1
  <2> QED
    BY <2>2 DEF Range
<1> QED
  BY <1>1, <1>2, <1>3, <1>4, <1>5

\* What a line is with one more command at its end.
LEMMA AppendFacts ==
    ASSUME NEW q \in Seq(Commands), IsInjective(q), NEW c \in Commands, c \notin Range(q)
    PROVE  /\ Append(q, c) \in Seq(Commands) /\ Append(q, c) # << >>
           /\ IsInjective(Append(q, c))
           /\ Range(Append(q, c)) = Range(q) \cup {c}
           /\ q = << >> => Head(Append(q, c)) = c /\ Tail(Append(q, c)) = << >>
<1> DEFINE s == Append(q, c)
<1>1. /\ Len(q) \in Nat /\ DOMAIN q = 1 .. Len(q) /\ s \in Seq(Commands)
      /\ Len(s) = Len(q) + 1 /\ DOMAIN s = 1 .. Len(q) + 1
      /\ s[Len(q) + 1] = c /\ \A k \in 1 .. Len(q) : s[k] = q[k]
  OBVIOUS
<1>2. s # << >>
  BY <1>1
<1>3. q = << >> => Head(s) = c /\ Tail(s) = << >>
  OBVIOUS
<1> HIDE DEF s
<1>4. IsInjective(s)
  BY <1>1 DEF IsInjective, Range
<1>5. Range(s) = Range(q) \cup {c}
  <2>1. Range(s) \subseteq Range(q) \cup {c}
    BY <1>1 DEF Range
  <2>2. c \in Range(s)
    BY <1>1 DEF Range
  <2>3. Range(q) \subseteq Range(s)
    BY <1>1 DEF Range
  <2> QED
    BY <2>1, <2>2, <2>3
<1> QED
  BY <1>1, <1>2, <1>3, <1>4, <1>5 DEF s

\* What a line is with one more command at its head.
LEMMA PushFacts ==
    ASSUME NEW q \in Seq(Commands), IsInjective(q), NEW c \in Commands, c \notin Range(q)
    PROVE  /\ <<c>> \o q \in Seq(Commands) /\ <<c>> \o q # << >>
           /\ IsInjective(<<c>> \o q)
           /\ Range(<<c>> \o q) = Range(q) \cup {c}
           /\ Head(<<c>> \o q) = c
<1> DEFINE s == <<c>> \o q
<1>1. /\ Len(q) \in Nat /\ DOMAIN q = 1 .. Len(q) /\ s \in Seq(Commands)
      /\ Len(s) = Len(q) + 1 /\ DOMAIN s = 1 .. Len(q) + 1
      /\ s[1] = c /\ \A k \in 1 .. Len(q) : s[k + 1] = q[k]
  OBVIOUS
<1>2. s # << >>
  BY <1>1
<1>3. Head(s) = c
  BY <1>1, <1>2
<1> HIDE DEF s
<1>a. \A k \in DOMAIN s : k = 1 \/ (k - 1 \in 1 .. Len(q) /\ s[k] = q[k - 1])
  <2> SUFFICES ASSUME NEW k \in DOMAIN s, k # 1
               PROVE  k - 1 \in 1 .. Len(q) /\ s[k] = q[k - 1]
    OBVIOUS
  <2>1. k - 1 \in 1 .. Len(q) /\ (k - 1) + 1 = k
    BY <1>1
  <2> QED
    BY <1>1, <2>1
<1>b. \A k \in DOMAIN s : k # 1 => s[k] \in Range(q) /\ s[k] # c
  BY <1>1, <1>a DEF Range
<1>4. IsInjective(s)
  <2> SUFFICES ASSUME NEW j \in DOMAIN s, NEW k \in DOMAIN s, s[j] = s[k] PROVE j = k
    BY DEF IsInjective
  <2>1. CASE j = 1 \/ k = 1
    BY <1>1, <1>b, <2>1
  <2>2. CASE j # 1 /\ k # 1
    <3>1. q[j - 1] = q[k - 1] /\ j - 1 \in 1 .. Len(q) /\ k - 1 \in 1 .. Len(q)
      BY <1>a, <2>2
    <3>2. j - 1 = k - 1
      BY <1>1, <3>1 DEF IsInjective
    <3> QED
      BY <1>1, <3>2
  <2> QED
    BY <2>1, <2>2
<1>5. Range(s) = Range(q) \cup {c}
  <2>1. Range(s) \subseteq Range(q) \cup {c}
    BY <1>1, <1>b DEF Range
  <2>2. c \in Range(s)
    BY <1>1 DEF Range
  <2>3. Range(q) \subseteq Range(s)
    <3> SUFFICES ASSUME NEW k \in 1 .. Len(q) PROVE q[k] \in Range(s)
      BY <1>1 DEF Range
    <3>1. k + 1 \in DOMAIN s /\ s[k + 1] = q[k]
      BY <1>1
    <3> QED
      BY <3>1 DEF Range
  <2> QED
    BY <2>1, <2>2, <2>3
<1> QED
  BY <1>1, <1>2, <1>3, <1>4, <1>5 DEF s

\* The head of workLoop: the next command is sent, or the loop is idle.
LEMMA WorkingFacts ==
    ASSUME NEW q \in LoopRecs, IsInjective(q.queue)
    PROVE  /\ Working(q) \in LoopRecs /\ Working(q).alive = q.alive
           /\ IsInjective(Working(q).queue)
           /\ \/ /\ q.alive /\ Working(q).at = "send"
                 /\ Working(q).cmd = Head(q.queue) /\ Working(q).cmd \in Range(q.queue)
                 /\ Range(Working(q).queue) = Range(q.queue) \ {Working(q).cmd}
              \/ /\ Working(q).at = "idle" /\ Working(q).cmd = 0
                 /\ Working(q).queue = q.queue
                 /\ q.alive => q.queue = << >>
<1>1. CASE q.alive /\ q.queue # << >>
  <2>1. Working(q) = [q EXCEPT !.at = "send", !.cmd = Head(q.queue), !.queue = Tail(q.queue)]
    BY <1>1 DEF Working, LoopRecs
  <2>2. q.queue \in Seq(Commands)
    BY DEF LoopRecs
  <2>3. Head(q.queue) \in Commands /\ Head(q.queue) \in Range(q.queue)
        /\ Tail(q.queue) \in Seq(Commands) /\ IsInjective(Tail(q.queue))
        /\ Range(Tail(q.queue)) = Range(q.queue) \ {Head(q.queue)}
    BY <1>1, <2>2, TailFacts
  <2> QED
    BY <1>1, <2>1, <2>3 DEF LoopRecs, Loops
<1>2. CASE ~(q.alive /\ q.queue # << >>)
  <2>1. Working(q) = [q EXCEPT !.at = "idle", !.cmd = 0]
    BY <1>2 DEF Working
  <2> QED
    BY <1>2, <2>1 DEF LoopRecs, Loops
<1> QED
  BY <1>1, <1>2

\* A queue that a step does not touch stays as it is.
LEMMA OthersStay ==
    ASSUME QueueInv, NEW j \in DOMAIN queues, queues'[j] = queues[j],
           \A c \in Commands : home[c] = j =>
             /\ home'[c] = j /\ attempts'[c] = attempts[c] /\ runs'[c] = runs[c]
             /\ c \in backoff' => c \in backoff
    PROVE  LoopFits(j, queues[j])'
<1> PICK q \in LoopRecs : q = queues[j]
  BY DEF QueueInv, LoopFits
<1>1. LoopFits(j, q)
  BY DEF QueueInv
<1>2. Range(q.queue) \subseteq Commands
  <2>1. q.queue \in Seq(Commands)
    BY DEF LoopRecs
  <2> QED
    BY <2>1 DEF Range
<1>3. LoopFits(j, q)'
  <2>1. q.cmd # 0 => q.cmd \in Commands /\ home[q.cmd] = j
    BY <1>1 DEF LoopFits, LoopRecs
  <2>2. \A c \in Range(q.queue) : c \in Commands /\ home[c] = j
    BY <1>1, <1>2 DEF LoopFits
  <2>3. 0 \notin Commands
    BY CommandFacts
  <2>4. /\ q \in LoopRecs
        /\ q.at = "idle" => q.cmd = 0 /\ (q.alive => q.queue = << >>)
        /\ q.at \in {"send", "sent", "report"} => q.cmd \in Commands /\ q.alive
        /\ q.at = "fatal" => q.cmd \in Commands /\ ~q.alive
        /\ IsInjective(q.queue)
    BY <1>1 DEF LoopFits
  <2>5. q.cmd # 0 => home'[q.cmd] = j /\ q.cmd \notin Range(q.queue) /\ q.cmd \notin backoff'
    BY <1>1, <2>1 DEF LoopFits
  <2>6. \A c \in Range(q.queue) :
          home'[c] = j /\ c \notin backoff' /\ attempts'[c] < MaxAttempts
    BY <1>1, <2>2 DEF LoopFits
  <2>7. /\ q.at = "report" => attempts'[q.cmd] < MaxAttempts
        /\ q.at = "send" => runs'[q.cmd] < attempts'[q.cmd]
        /\ q.at = "sent" => runs'[q.cmd] > 0
    BY <1>1, <2>1, <2>3, <2>4 DEF LoopFits
  <2> QED
    BY <2>4, <2>5, <2>6, <2>7 DEF LoopFits
<1> QED
  BY <1>3 DEF LoopFits

\* How QueueInv survives a step of queue i alone.
LEMMA OneMoves ==
    ASSUME QueueInv, NEW i \in DOMAIN queues, NEW q, queues' = [queues EXCEPT ![i] = q],
           q.alive => queues[i].alive, LoopFits(i, q)', home' = home,
           attempts' \in [Commands -> 0..MaxAttempts], runs' \in [Commands -> 0..MaxAttempts],
           backoff' \subseteq Commands,
           \A c \in Commands : home[c] # i =>
             /\ attempts'[c] = attempts[c] /\ runs'[c] = runs[c]
             /\ c \in backoff' => c \in backoff,
           \A c \in backoff' : home[c] # 0 /\ attempts'[c] < MaxAttempts,
           \A c \in Commands : runs'[c] <= attempts'[c]
    PROVE  QueueInv'
<1>1. queues \in Seq(LoopRecs) /\ Len(queues) \in 1..MaxQueues
      /\ home \in [Commands -> 0..Len(queues)] /\ i \in 1 .. Len(queues)
  BY DEF QueueInv, QueueTypeOK, LoopRecs
<1>2. q \in LoopRecs
  BY DEF LoopFits
<1>3. queues' \in Seq(LoopRecs) /\ Len(queues') = Len(queues) /\ DOMAIN queues' = DOMAIN queues
      /\ queues'[i] = q /\ \A j \in DOMAIN queues : j # i => queues'[j] = queues[j]
  BY <1>1, <1>2
<1>4. QueueTypeOK'
  BY <1>1, <1>3 DEF QueueTypeOK, LoopRecs
<1>5. \A j \in DOMAIN queues' : j < Len(queues') => ~queues'[j].alive
  BY <1>3 DEF QueueInv
<1>6. ASSUME NEW j \in DOMAIN queues PROVE LoopFits(j, queues[j])'
  <2>1. CASE j = i
    <3>1. queues'[j] = q
      BY <1>3, <2>1
    <3> QED
      BY <2>1, <3>1 DEF LoopFits
  <2>2. CASE j # i
    <3>1. queues'[j] = queues[j]
      BY <1>3, <2>2
    <3>2. \A c \in Commands : home[c] = j =>
             /\ home'[c] = j /\ attempts'[c] = attempts[c] /\ runs'[c] = runs[c]
             /\ c \in backoff' => c \in backoff
      BY <2>2
    <3> QED
      BY <3>1, <3>2, OthersStay
  <2> QED
    BY <2>1, <2>2
<1>7. \A c \in Commands : home[c] = 0 => attempts'[c] = 0 /\ c \notin backoff'
  <2> SUFFICES ASSUME NEW c \in Commands, home[c] = 0 PROVE attempts'[c] = 0 /\ c \notin backoff'
    OBVIOUS
  <2>1. home[c] # i
    BY <1>1
  <2> QED
    BY <2>1 DEF QueueInv
<1> QED
  BY <1>3, <1>4, <1>5, <1>6, <1>7 DEF QueueInv

\* What a queue of QueueInv is.
LEMMA QueueFacts ==
    ASSUME QueueInv, NEW i \in DOMAIN queues
    PROVE  /\ queues[i] \in LoopRecs /\ queues[i].queue \in Seq(Commands)
           /\ Range(queues[i].queue) \subseteq Commands
           /\ LoopFits(i, queues[i]) /\ i \in Nat \ {0}
           /\ queues[i].cmd # 0 => queues[i].cmd \in Commands
           /\ attempts \in [Commands -> 0..MaxAttempts]
           /\ runs \in [Commands -> 0..MaxAttempts] /\ backoff \subseteq Commands
<1>1. queues[i] \in LoopRecs /\ LoopFits(i, queues[i])
  BY DEF QueueInv, LoopFits
<1>2. queues[i].queue \in Seq(Commands) /\ (queues[i].cmd # 0 => queues[i].cmd \in Commands)
  BY <1>1 DEF LoopRecs
<1>3. Range(queues[i].queue) \subseteq Commands
  BY <1>2 DEF Range
<1>4. i \in Nat \ {0}
  BY DEF QueueInv, QueueTypeOK
<1> QED
  BY <1>1, <1>2, <1>3, <1>4 DEF QueueInv, QueueTypeOK

\* The loop goes on after a success, a failure or a report.
LEMMA WorkKeepsInv ==
    ASSUME QueueInv, NEW i \in DOMAIN queues, Becomes(i, Working(queues[i])),
           UNCHANGED <<home, runs>>,
           \/ backoff' = backoff
           \/ /\ backoff' = backoff \cup {queues[i].cmd} /\ queues[i].cmd \in Commands
              /\ attempts[queues[i].cmd] < MaxAttempts
    PROVE  QueueInv'
<1> PICK q0 \in LoopRecs : q0 = queues[i]
  BY QueueFacts
<1>1. LoopFits(i, q0) /\ IsInjective(q0.queue) /\ Range(q0.queue) \subseteq Commands
  BY QueueFacts DEF LoopFits
<1> PICK q : q = Working(q0)
  OBVIOUS
<1>2. /\ q \in LoopRecs /\ q.alive = q0.alive /\ IsInjective(q.queue)
      /\ \/ /\ q0.alive /\ q.at = "send" /\ q.cmd \in Range(q0.queue)
            /\ Range(q.queue) = Range(q0.queue) \ {q.cmd}
         \/ /\ q.at = "idle" /\ q.cmd = 0 /\ q.queue = q0.queue
            /\ q0.alive => q0.queue = << >>
  BY <1>1, WorkingFacts
<1>3. queues' = [queues EXCEPT ![i] = q] /\ home' = home /\ runs' = runs
  BY DEF Becomes
<1>4. /\ attempts \in [Commands -> 0..MaxAttempts] /\ runs \in [Commands -> 0..MaxAttempts]
      /\ backoff \subseteq Commands /\ MaxAttempts \in Nat
      /\ \A c \in Commands : runs[c] <= attempts[c]
      /\ \A c \in backoff : home[c] # 0 /\ attempts[c] < MaxAttempts
  BY QueueFacts, QueueAssumption DEF QueueInv
<1>5. \A c \in Range(q0.queue) :
        /\ c \in Commands /\ home[c] = i /\ c \notin backoff /\ attempts[c] < MaxAttempts
        /\ c # q0.cmd /\ c # 0
  BY <1>1, CommandFacts DEF LoopFits
<1>6. i # 0 /\ (q0.cmd # 0 => home[q0.cmd] = i)
  BY <1>1, QueueFacts DEF LoopFits
<1>a. backoff' \subseteq Commands /\ \A c \in Commands : home[c] # i =>
                                       (c \in backoff' => c \in backoff)
  BY <1>4, <1>6, CommandFacts
<1>b. \A c \in Range(q0.queue) : c \notin backoff'
  BY <1>5
<1>7. CASE q.at = "send"
  <2>1. /\ q.cmd \in Range(q0.queue) /\ Range(q.queue) = Range(q0.queue) \ {q.cmd} /\ q.alive
    BY <1>2, <1>7
  <2>2. q.cmd \in Commands /\ q.cmd # q0.cmd /\ q.cmd # 0 /\ home[q.cmd] = i
        /\ attempts[q.cmd] < MaxAttempts
    BY <1>5, <2>1
  <2>3. attempts' = [attempts EXCEPT ![q.cmd] = @ + 1]
    BY <1>7, <2>2 DEF Becomes
  <2>4. attempts' \in [Commands -> 0..MaxAttempts] /\ attempts'[q.cmd] = attempts[q.cmd] + 1
        /\ \A c \in Commands : c # q.cmd => attempts'[c] = attempts[c]
    BY <1>4, <2>2, <2>3
  <2>5. \A c \in Commands : runs'[c] <= attempts'[c]
    BY <1>3, <1>4, <2>4
  <2>6. runs'[q.cmd] < attempts'[q.cmd]
    BY <1>3, <1>4, <2>2, <2>4
  <2>7. LoopFits(i, q)'
    <3>1. \A c \in Range(q.queue) :
            home'[c] = i /\ c \notin backoff' /\ attempts'[c] < MaxAttempts
      BY <1>3, <1>5, <1>b, <2>1, <2>4
    <3> QED
      BY <1>2, <1>3, <1>7, <1>b, <2>1, <2>2, <2>6, <3>1 DEF LoopFits
  <2>8. \A c \in backoff' : home[c] # 0 /\ attempts'[c] < MaxAttempts
    <3> SUFFICES ASSUME NEW c \in backoff' PROVE home[c] # 0 /\ attempts'[c] < MaxAttempts
      OBVIOUS
    <3>1. c # q.cmd /\ c \in Commands
      BY <1>a, <1>b, <2>1
    <3> QED
      BY <1>4, <1>6, <2>4, <3>1, CommandFacts
  <2>9. \A c \in Commands : home[c] # i =>
             /\ attempts'[c] = attempts[c] /\ runs'[c] = runs[c]
             /\ c \in backoff' => c \in backoff
    BY <1>3, <1>a, <2>2, <2>4
  <2>10. q.alive => queues[i].alive
    BY <1>2
  <2>11. /\ attempts' \in [Commands -> 0..MaxAttempts] /\ runs' \in [Commands -> 0..MaxAttempts]
         /\ backoff' \subseteq Commands
    BY <1>3, <1>4, <1>a, <2>4
  <2> QED
    BY <1>3, <2>5, <2>7, <2>8, <2>9, <2>10, <2>11, OneMoves
<1>8. CASE q.at = "idle"
  <2>1. q.cmd = 0 /\ q.queue = q0.queue /\ (q.alive => q.queue = << >>)
    BY <1>2, <1>8
  <2>2. attempts' = attempts
    BY <1>8 DEF Becomes
  <2>3. LoopFits(i, q)'
    BY <1>2, <1>3, <1>5, <1>8, <1>b, <2>1, <2>2 DEF LoopFits
  <2>4. \A c \in backoff' : home[c] # 0 /\ attempts'[c] < MaxAttempts
    BY <1>4, <1>6, <2>2, CommandFacts
  <2>5. \A c \in Commands : home[c] # i =>
             /\ attempts'[c] = attempts[c] /\ runs'[c] = runs[c]
             /\ c \in backoff' => c \in backoff
    BY <1>3, <1>a, <2>2
  <2> QED
    BY <1>2, <1>3, <1>4, <1>a, <2>2, <2>3, <2>4, <2>5, OneMoves, ZenonT(40)
<1> QED
  BY <1>2, <1>7, <1>8

\* A live queue to which a command was added: an idle loop, which had no other,
\* sends it at once, and any other loop has it in line.
LEMMA KickFacts ==
    ASSUME NEW p \in LoopRecs, p.alive, IsInjective(p.queue), p.queue # << >>,
           NEW c, p.at = "idle" => Range(p.queue) = {c}
    PROVE  /\ Kick(p) \in LoopRecs /\ Kick(p).alive /\ IsInjective(Kick(p).queue)
           /\ p.at = "idle" => /\ Kick(p).at = "send" /\ Kick(p).cmd = c
                               /\ Range(Kick(p).queue) = {}
           /\ p.at # "idle" => Kick(p) = p
<1>1. CASE p.at = "idle"
  <2>1. Kick(p) = Working(p)
    BY <1>1 DEF Kick
  <2>2. /\ Working(p) \in LoopRecs /\ Working(p).alive = p.alive
        /\ IsInjective(Working(p).queue)
        /\ \/ /\ p.alive /\ Working(p).at = "send"
              /\ Working(p).cmd = Head(p.queue) /\ Working(p).cmd \in Range(p.queue)
              /\ Range(Working(p).queue) = Range(p.queue) \ {Working(p).cmd}
           \/ p.alive => p.queue = << >>
    BY WorkingFacts
  <2>3. Working(p).cmd = c /\ Range(Working(p).queue) = {} /\ Working(p).at = "send"
    BY <1>1, <2>2
  <2> QED
    BY <1>1, <2>1, <2>2, <2>3
<1>2. CASE p.at # "idle"
  BY <1>2 DEF Kick
<1> QED
  BY <1>1, <1>2

\* Queue q has become k, with command c in it.
Put(k, q, c) ==
  /\ k \in LoopRecs /\ (k.alive <=> q.alive) /\ IsInjective(k.queue)
  /\ q.at = "idle" /\ q.alive => k.at = "send" /\ k.cmd = c /\ Range(k.queue) = {}
  /\ ~(q.at = "idle" /\ q.alive) =>
       k.at = q.at /\ k.cmd = q.cmd /\ Range(k.queue) = Range(q.queue) \cup {c}

\* What command c finds in its queue i: c is new there, or comes back from its
\* timer.
LEMMA PutFits ==
    ASSUME QueueInv, NEW i \in Nat \ {0}, NEW q0 \in LoopRecs, LoopFits(i, q0),
           NEW c \in Commands, c \notin Range(q0.queue), c # q0.cmd, attempts[c] < MaxAttempts,
           NEW q, Put(q, q0, c),
           home' \in [Commands -> Nat], home'[c] = i,
           \A b \in Commands : b # c => home'[b] = home[b],
           attempts' = IF q.cmd = c THEN [attempts EXCEPT ![c] = @ + 1] ELSE attempts,
           backoff' = backoff \ {c}, runs' = runs
    PROVE  LoopFits(i, q)'
<1>0. q \in LoopRecs /\ (q.alive <=> q0.alive) /\ IsInjective(q.queue)
  BY DEF Put
<1>1. /\ attempts \in [Commands -> 0..MaxAttempts] /\ runs \in [Commands -> 0..MaxAttempts]
      /\ MaxAttempts \in Nat /\ \A b \in Commands : runs[b] <= attempts[b]
  BY QueueAssumption DEF QueueInv, QueueTypeOK
<1>2. Range(q0.queue) \subseteq Commands
  <2>1. q0.queue \in Seq(Commands)
    BY DEF LoopRecs
  <2> QED
    BY <2>1 DEF Range
<1>3. \A b \in Commands : b # c => attempts'[b] = attempts[b]
  BY <1>1
<1>4. \A b \in Range(q0.queue) :
        home'[b] = i /\ b \notin backoff' /\ attempts'[b] < MaxAttempts
  BY <1>2, <1>3 DEF LoopFits
<1>5. CASE q0.at = "idle" /\ q0.alive
  <2>1. q.at = "send" /\ q.cmd = c /\ Range(q.queue) = {} /\ q.alive /\ c # 0
    BY <1>5, CommandFacts DEF Put
  <2>2. attempts'[c] = attempts[c] + 1
    BY <1>1, <2>1
  <2>3. runs'[c] < attempts'[c]
    BY <1>1, <2>2
  <2> QED
    BY <1>0, <2>1, <2>3 DEF LoopFits
<1>6. CASE ~(q0.at = "idle" /\ q0.alive)
  <2>1. q.at = q0.at /\ q.cmd = q0.cmd /\ Range(q.queue) = Range(q0.queue) \cup {c}
    BY <1>6 DEF Put
  <2>2. attempts' = attempts
    BY <2>1
  <2>3. \A b \in Range(q.queue) :
          home'[b] = i /\ b \notin backoff' /\ attempts'[b] < MaxAttempts
    BY <1>4, <2>1, <2>2
  <2>4. q0.cmd # 0 => q0.cmd \in Commands /\ home'[q0.cmd] = i
    BY DEF LoopFits, LoopRecs
  <2>5. q.cmd # 0 => home'[q.cmd] = i /\ q.cmd \notin Range(q.queue) /\ q.cmd \notin backoff'
    BY <2>1, <2>4 DEF LoopFits
  <2>6. /\ q.at = "idle" => q.cmd = 0 /\ (q.alive => q.queue = << >>)
        /\ q.at \in {"send", "sent", "report"} => q.cmd \in Commands /\ q.alive
        /\ q.at = "fatal" => q.cmd \in Commands /\ ~q.alive
        /\ q.at = "report" => attempts'[q.cmd] < MaxAttempts
        /\ q.at = "send" => runs'[q.cmd] < attempts'[q.cmd]
        /\ q.at = "sent" => runs'[q.cmd] > 0
    BY <1>0, <1>6, <2>1, <2>2 DEF LoopFits
  <2> QED
    BY <1>0, <2>3, <2>5, <2>6 DEF LoopFits
<1> QED
  BY <1>5, <1>6

\* A command that comes back from its timer.
Returned(q, c) == IF q.alive THEN Kick([q EXCEPT !.queue = <<c>> \o @])
                             ELSE [q EXCEPT !.queue = Append(@, c)]

LEMMA ReturnedFacts ==
    ASSUME NEW q \in LoopRecs, IsInjective(q.queue),
           q.at = "idle" => q.cmd = 0 /\ (q.alive => q.queue = << >>),
           NEW c \in Commands, c \notin Range(q.queue)
    PROVE  Put(Returned(q, c), q, c)
<1>1. q.queue \in Seq(Commands)
  BY DEF LoopRecs
<1>2. CASE q.alive
  <2>1. PICK s : s = <<c>> \o q.queue
    OBVIOUS
  <2>2. s \in Seq(Commands) /\ s # << >> /\ IsInjective(s) /\ Range(s) = Range(q.queue) \cup {c}
    BY <1>1, <2>1, PushFacts
  <2>3. PICK p : p = [q EXCEPT !.queue = s]
    OBVIOUS
  <2>4. p \in LoopRecs /\ p.queue = s /\ p.alive /\ p.at = q.at /\ p.cmd = q.cmd
    BY <1>2, <2>2, <2>3 DEF LoopRecs
  <2>5. Returned(q, c) = Kick(p)
    BY <1>2, <2>1, <2>3, Zenon DEF Returned
  <2>6. q.at = "idle" => Range(q.queue) = {} /\ Range(p.queue) = {c}
    <3> SUFFICES ASSUME q.at = "idle" PROVE Range(q.queue) = {} /\ Range(p.queue) = {c}
      OBVIOUS
    <3>1. q.queue = << >>
      BY <1>2
    <3>2. Range(q.queue) = {}
      BY <3>1 DEF Range
    <3> QED
      BY <2>2, <2>4, <3>2
  <2>7. /\ Kick(p) \in LoopRecs /\ Kick(p).alive /\ IsInjective(Kick(p).queue)
        /\ p.at = "idle" => /\ Kick(p).at = "send" /\ Kick(p).cmd = c
                            /\ Range(Kick(p).queue) = {}
        /\ p.at # "idle" => Kick(p) = p
    BY <2>2, <2>4, <2>6, KickFacts
  <2>8. CASE q.at = "idle"
    BY <1>2, <2>4, <2>5, <2>7, <2>8 DEF Put
  <2>9. CASE q.at # "idle"
    BY <1>2, <2>2, <2>4, <2>5, <2>7, <2>9 DEF Put
  <2> QED
    BY <2>8, <2>9
<1>3. CASE ~q.alive
  <2>1. Returned(q, c) = [q EXCEPT !.queue = Append(q.queue, c)]
    BY <1>3, Zenon DEF Returned
  <2>2. /\ Append(q.queue, c) \in Seq(Commands) /\ IsInjective(Append(q.queue, c))
        /\ Range(Append(q.queue, c)) = Range(q.queue) \cup {c}
    BY <1>1, AppendFacts
  <2> QED
    BY <1>3, <2>1, <2>2 DEF LoopRecs, Put
<1> QED
  BY <1>2, <1>3

LEMMA RetryKeepsInv ==
    ASSUME QueueInv, NEW c \in Commands, Retry(c)
    PROVE  QueueInv'
<1> PICK i : i = home[c]
  OBVIOUS
<1>1. /\ i \in DOMAIN queues /\ attempts[c] < MaxAttempts /\ c \in backoff
  BY DEF QueueInv, QueueTypeOK, Retry
<1> PICK q0 \in LoopRecs : q0 = queues[i]
  BY <1>1, QueueFacts
<1>2. /\ LoopFits(i, q0) /\ IsInjective(q0.queue) /\ q0.queue \in Seq(Commands)
      /\ c \notin Range(q0.queue) /\ c # q0.cmd /\ i \in Nat \ {0}
      /\ q0.at = "idle" => q0.cmd = 0 /\ (q0.alive => q0.queue = << >>)
  <2>1. LoopFits(i, q0) /\ q0.queue \in Seq(Commands) /\ i \in Nat \ {0}
    BY <1>1, QueueFacts
  <2> QED
    BY <1>1, <2>1, CommandFacts DEF LoopFits
<1> PICK q : q = Returned(q0, c)
  OBVIOUS
<1>3. Becomes(i, q) /\ home' = home /\ runs' = runs /\ backoff' = backoff \ {c}
  BY DEF Retry, Returned
<1>4. Put(q, q0, c)
  BY <1>2, ReturnedFacts
<1>5. attempts' = IF q.cmd = c THEN [attempts EXCEPT ![c] = @ + 1] ELSE attempts
  BY <1>2, <1>3, <1>4 DEF Becomes, Put
<1>6. /\ attempts \in [Commands -> 0..MaxAttempts] /\ runs \in [Commands -> 0..MaxAttempts]
      /\ backoff \subseteq Commands /\ MaxAttempts \in Nat /\ home \in [Commands -> Nat]
      /\ \A b \in Commands : runs[b] <= attempts[b]
      /\ \A b \in backoff : home[b] # 0 /\ attempts[b] < MaxAttempts
  BY QueueAssumption DEF QueueInv, QueueTypeOK
<1>7. /\ attempts' \in [Commands -> 0..MaxAttempts]
      /\ \A b \in Commands : b # c => attempts'[b] = attempts[b]
      /\ attempts[c] <= attempts'[c]
  BY <1>1, <1>5, <1>6
<1>8. LoopFits(i, q)'
  BY <1>1, <1>2, <1>3, <1>4, <1>5, <1>6, PutFits
<1>9. \A b \in Commands : runs'[b] <= attempts'[b]
  <2> SUFFICES ASSUME NEW b \in Commands PROVE runs[b] <= attempts'[b]
    BY <1>3
  <2>1. runs[b] <= attempts[b] /\ runs[b] \in Nat
        /\ attempts[b] \in Nat /\ attempts'[b] \in Nat
    BY <1>6, <1>7
  <2>2. attempts[b] <= attempts'[b]
    BY <1>7, <2>1
  <2> QED
    BY <2>1, <2>2
<1>10. \A b \in backoff' : home[b] # 0 /\ attempts'[b] < MaxAttempts
  BY <1>3, <1>6, <1>7
<1>11. \A b \in Commands : home[b] # i =>
             /\ attempts'[b] = attempts[b] /\ runs'[b] = runs[b]
             /\ b \in backoff' => b \in backoff
  BY <1>3, <1>7
<1>12. queues' = [queues EXCEPT ![i] = q] /\ (q.alive => queues[i].alive)
  BY <1>3, <1>4 DEF Becomes, Put
<1>13. backoff' \subseteq Commands /\ runs' \in [Commands -> 0..MaxAttempts]
  BY <1>3, <1>6
<1> QED
  BY <1>1, <1>3, <1>7, <1>8, <1>9, <1>10, <1>11, <1>12, <1>13, OneMoves

\* A command that is put at the end of a live queue.
Enqueued(q, c) == Kick([q EXCEPT !.queue = Append(@, c)])

LEMMA EnqueuedFacts ==
    ASSUME NEW q \in LoopRecs, q.alive, IsInjective(q.queue),
           q.at = "idle" => Range(q.queue) = {},
           NEW c \in Commands, c \notin Range(q.queue)
    PROVE  Put(Enqueued(q, c), q, c)
<1>1. q.queue \in Seq(Commands)
  BY DEF LoopRecs
<1>2. PICK s : s = Append(q.queue, c)
  OBVIOUS
<1>3. s \in Seq(Commands) /\ s # << >> /\ IsInjective(s) /\ Range(s) = Range(q.queue) \cup {c}
  BY <1>1, <1>2, AppendFacts
<1>4. PICK p : p = [q EXCEPT !.queue = s]
  OBVIOUS
<1>5. p \in LoopRecs /\ p.queue = s /\ p.alive /\ p.at = q.at /\ p.cmd = q.cmd
  BY <1>3, <1>4 DEF LoopRecs
<1>6. Enqueued(q, c) = Kick(p)
  BY <1>2, <1>4, Zenon DEF Enqueued
<1>7. q.at = "idle" => Range(q.queue) = {} /\ Range(p.queue) = {c}
  BY <1>3, <1>5
<1>8. /\ Kick(p) \in LoopRecs /\ Kick(p).alive /\ IsInjective(Kick(p).queue)
      /\ p.at = "idle" => /\ Kick(p).at = "send" /\ Kick(p).cmd = c
                          /\ Range(Kick(p).queue) = {}
      /\ p.at # "idle" => Kick(p) = p
  BY <1>3, <1>5, <1>7, KickFacts
<1>9. CASE q.at = "idle"
  BY <1>5, <1>6, <1>8, <1>9 DEF Put
<1>10. CASE q.at # "idle"
  BY <1>3, <1>5, <1>6, <1>8, <1>10 DEF Put
<1> QED
  BY <1>9, <1>10

\* Command c was taken by queue i, which was q0 and is q: the last one, or a
\* fresh one after it when that is dead.  The others stay.
Taken(c, i, q0, q) ==
  /\ \/ i = Len(queues) /\ q0 = queues[i]
     \/ i = Len(queues) + 1 /\ q0 = Fresh /\ ~queues[Len(queues)].alive
  /\ q0.alive /\ LoopFits(i, q0) /\ c \notin Range(q0.queue) /\ c # q0.cmd
  /\ Put(q, q0, c)
  /\ queues' \in Seq(LoopRecs) /\ Len(queues') = i /\ DOMAIN queues' = 1 .. i
  /\ i \in 1 .. MaxQueues /\ queues'[i] = q
  /\ \A j \in 1 .. i : j # i => j \in DOMAIN queues /\ queues'[j] = queues[j]
                              /\ ~queues[j].alive

LEMMA EnqueueFacts ==
    ASSUME QueueInv, NEW c \in Commands, Enqueue(c)
    PROVE  \E i \in Nat, q0 \in LoopRecs, q \in LoopRecs :
             /\ Taken(c, i, q0, q)
             /\ home[c] = 0 /\ home' = [home EXCEPT ![c] = i] /\ backoff' = backoff /\ runs' = runs
             /\ attempts' = IF q.cmd = c THEN [attempts EXCEPT ![c] = 1] ELSE attempts
<1> PICK qs : qs = Instances
  OBVIOUS
<1> PICK i : i = Len(qs)
  OBVIOUS
<1>1. /\ queues \in Seq(LoopRecs) /\ Len(queues) \in Nat \ {0} /\ DOMAIN queues = 1 .. Len(queues)
      /\ home \in [Commands -> 0 .. Len(queues)] /\ home[c] = 0
      /\ i <= MaxQueues /\ MaxQueues \in Nat
  BY QueueAssumption DEF QueueInv, QueueTypeOK, LoopRecs, Enqueue
<1>2. Fresh \in LoopRecs /\ Fresh.alive /\ Fresh.at = "idle" /\ Fresh.cmd = 0 /\ Fresh.queue = << >>
  BY DEF Fresh, LoopRecs, Loops
\* The queue that takes c is the last one, alive, and the others stay.
<1>3. /\ qs \in Seq(LoopRecs) /\ i \in Nat \ {0} /\ DOMAIN qs = 1 .. i /\ Len(queues) <= i
      /\ \A j \in DOMAIN qs : j # i => j \in DOMAIN queues /\ qs[j] = queues[j] /\ ~queues[j].alive
  <2>1. CASE queues[Len(queues)].alive
    <3>1. qs = queues
      BY <2>1 DEF Instances
    <3> QED
      BY <1>1, <3>1 DEF QueueInv
  <2>2. CASE ~queues[Len(queues)].alive
    <3>1. qs = Append(queues, Fresh)
      BY <2>2 DEF Instances
    <3>2. /\ qs \in Seq(LoopRecs) /\ i = Len(queues) + 1 /\ DOMAIN qs = 1 .. i
          /\ \A j \in 1 .. Len(queues) : qs[j] = queues[j]
      BY <1>1, <1>2, <3>1
    <3>3. \A j \in DOMAIN queues : ~queues[j].alive
      BY <1>1, <2>2 DEF QueueInv
    <3> QED
      BY <1>1, <3>2, <3>3
  <2> QED
    BY <2>1, <2>2
<1> PICK q0 \in LoopRecs : q0 = qs[i]
  BY <1>3
<1>4. /\ q0.alive /\ IsInjective(q0.queue) /\ LoopFits(i, q0)
      /\ c \notin Range(q0.queue) /\ c # q0.cmd
      /\ q0.at = "idle" => Range(q0.queue) = {}
  <2>1. CASE queues[Len(queues)].alive
    <3>1. q0 = queues[i] /\ i \in DOMAIN queues /\ q0.alive
      BY <1>1, <2>1 DEF Instances
    <3>2. /\ LoopFits(i, q0) /\ IsInjective(q0.queue)
          /\ q0.at = "idle" => Range(q0.queue) = {}
      <4>1. q0.at = "idle" => q0.queue = << >>
        BY <3>1, QueueFacts DEF LoopFits
      <4>2. q0.at = "idle" => Range(q0.queue) = {}
        BY <4>1 DEF Range
      <4> QED
        BY <3>1, <4>2, QueueFacts DEF LoopFits
    <3>3. c \notin Range(q0.queue) /\ c # q0.cmd
      BY <1>1, <1>3, <3>2, CommandFacts DEF LoopFits
    <3> QED
      BY <3>1, <3>2, <3>3
  <2>2. CASE ~queues[Len(queues)].alive
    <3>1. q0 = Fresh
      BY <1>1, <1>2, <2>2 DEF Instances
    <3>2. Range(q0.queue) = {} /\ IsInjective(q0.queue)
      BY <1>2, <3>1 DEF Range, IsInjective
    <3>3. LoopFits(i, q0)
      BY <1>2, <3>1, <3>2 DEF LoopFits
    <3> QED
      BY <1>2, <3>1, <3>2, <3>3, CommandFacts
  <2> QED
    BY <2>1, <2>2
<1> PICK q : q = Enqueued(q0, c)
  OBVIOUS
<1>5. /\ home' = [home EXCEPT ![c] = i] /\ queues' = [qs EXCEPT ![i] = q]
      /\ attempts' = IF q.cmd = c THEN [attempts EXCEPT ![c] = 1] ELSE attempts
      /\ backoff' = backoff /\ runs' = runs
  BY Zenon DEF Enqueue, Enqueued
<1>6. Put(q, q0, c)
  BY <1>4, EnqueuedFacts
<1>7. /\ queues' \in Seq(LoopRecs) /\ Len(queues') = i /\ DOMAIN queues' = 1 .. i
      /\ i \in 1 .. MaxQueues /\ queues'[i] = q
      /\ \A j \in 1 .. i : j # i => j \in DOMAIN queues /\ queues'[j] = queues[j]
                                  /\ ~queues[j].alive
  BY <1>1, <1>3, <1>5, <1>6 DEF Put
<1>8. \/ i = Len(queues) /\ q0 = queues[i]
      \/ i = Len(queues) + 1 /\ q0 = Fresh /\ ~queues[Len(queues)].alive
  <2>1. CASE queues[Len(queues)].alive
    BY <2>1 DEF Instances
  <2>2. CASE ~queues[Len(queues)].alive
    <3>1. qs = Append(queues, Fresh)
      BY <2>2 DEF Instances
    <3>2. i = Len(queues) + 1 /\ q0 = Fresh
      BY <1>1, <1>2, <3>1
    <3> QED
      BY <2>2, <3>2
  <2> QED
    BY <2>1, <2>2
<1>9. Taken(c, i, q0, q)
  BY <1>4, <1>6, <1>7, <1>8 DEF Taken
<1>10. q \in LoopRecs
  BY <1>6 DEF Put
<1> QED
  BY <1>1, <1>3, <1>5, <1>9, <1>10

LEMMA EnqueueKeepsInv ==
    ASSUME QueueInv, NEW c \in Commands, Enqueue(c)
    PROVE  QueueInv'
<1>1. PICK i \in Nat, q0 \in LoopRecs, q \in LoopRecs :
        /\ Taken(c, i, q0, q)
        /\ home[c] = 0 /\ home' = [home EXCEPT ![c] = i] /\ backoff' = backoff /\ runs' = runs
        /\ attempts' = IF q.cmd = c THEN [attempts EXCEPT ![c] = 1] ELSE attempts
  BY EnqueueFacts
<1>2. /\ queues \in Seq(LoopRecs) /\ Len(queues) \in Nat \ {0}
      /\ home \in [Commands -> 0 .. Len(queues)] /\ Len(queues) <= i
  BY <1>1 DEF QueueInv, QueueTypeOK, LoopRecs, Taken
<1>3. /\ queues' \in Seq(LoopRecs) /\ Len(queues') = i /\ DOMAIN queues' = 1 .. i
      /\ i \in 1 .. MaxQueues /\ queues'[i] = q
      /\ \A j \in 1 .. i : j # i => j \in DOMAIN queues /\ queues'[j] = queues[j]
                                  /\ ~queues[j].alive
  BY <1>1 DEF Taken
<1>4. /\ attempts \in [Commands -> 0..MaxAttempts] /\ runs \in [Commands -> 0..MaxAttempts]
      /\ backoff \subseteq Commands /\ MaxAttempts \in Nat \ {0}
      /\ \A b \in Commands : runs[b] <= attempts[b]
      /\ \A b \in backoff : home[b] # 0 /\ attempts[b] < MaxAttempts
      /\ attempts[c] = 0 /\ c \notin backoff
  BY <1>1, <1>2, QueueAssumption DEF QueueInv, QueueTypeOK
<1>5. attempts' = IF q.cmd = c THEN [attempts EXCEPT ![c] = @ + 1] ELSE attempts
  BY <1>1, <1>4
<1>6. /\ attempts' \in [Commands -> 0..MaxAttempts] /\ attempts'[c] \in {0, 1}
      /\ \A b \in Commands : b # c => attempts'[b] = attempts[b]
  BY <1>1, <1>4
<1>7. /\ home' \in [Commands -> 0 .. i] /\ home'[c] = i
      /\ \A b \in Commands : b # c => home'[b] = home[b]
  BY <1>1, <1>2
<1>8. LoopFits(i, q)'
  <2>1. home' \in [Commands -> Nat] /\ attempts[c] < MaxAttempts /\ backoff' = backoff \ {c}
    BY <1>1, <1>2, <1>4, <1>7
  <2> QED
    <3>1. /\ LoopFits(i, q0) /\ c \notin Range(q0.queue) /\ c # q0.cmd
          /\ Put(q, q0, c) /\ i \in Nat \ {0}
      BY <1>1 DEF Taken
    <3> QED
      BY <1>1, <1>4, <1>5, <1>7, <2>1, <3>1, PutFits
<1>9. QueueTypeOK'
  BY <1>1, <1>2, <1>3, <1>4, <1>6, <1>7 DEF QueueTypeOK, LoopRecs
<1>10. ASSUME NEW j \in 1 .. i PROVE LoopFits(j, queues[j])'
  <2>1. CASE j = i
    BY <1>3, <1>8, <2>1 DEF LoopFits
  <2>2. CASE j # i
    <3>1. j \in DOMAIN queues /\ queues'[j] = queues[j]
      BY <1>3, <2>2
    <3>2. \A b \in Commands : home[b] = j =>
             /\ home'[b] = j /\ attempts'[b] = attempts[b] /\ runs'[b] = runs[b]
             /\ b \in backoff' => b \in backoff
      BY <1>1, <1>2, <1>6, <1>7
    <3> QED
      BY <3>1, <3>2, OthersStay
  <2> QED
    BY <2>1, <2>2
<1>11. \A b \in Commands : /\ runs'[b] <= attempts'[b]
                           /\ home'[b] = 0 => attempts'[b] = 0 /\ b \notin backoff'
  <2> SUFFICES ASSUME NEW b \in Commands
               PROVE  /\ runs'[b] <= attempts'[b]
                      /\ home'[b] = 0 => attempts'[b] = 0 /\ b \notin backoff'
    OBVIOUS
  <2>1. CASE b = c
    BY <1>1, <1>2, <1>4, <1>6, <1>7, <2>1
  <2>2. CASE b # c
    <3>1. home[b] = 0 => attempts[b] = 0 /\ b \notin backoff
      BY DEF QueueInv
    <3> QED
      BY <1>1, <1>4, <1>6, <1>7, <2>2, <3>1
  <2> QED
    BY <2>1, <2>2
<1>12. \A b \in backoff' : home'[b] # 0 /\ attempts'[b] < MaxAttempts
  BY <1>1, <1>4, <1>6, <1>7
<1> QED
  BY <1>3, <1>9, <1>10, <1>11, <1>12 DEF QueueInv

LEMMA ExecutesKeepsInv ==
    ASSUME QueueInv, NEW i \in DOMAIN queues, Executes(i)
    PROVE  QueueInv'
<1> PICK q0 \in LoopRecs : q0 = queues[i]
  BY QueueFacts
<1> PICK q : q = [q0 EXCEPT !.at = "sent"]
  OBVIOUS
<1>1. /\ q0.at = "send" /\ LoopFits(i, q0) /\ queues' = [queues EXCEPT ![i] = q]
      /\ runs' = [runs EXCEPT ![q0.cmd] = @ + 1] /\ home' = home /\ attempts' = attempts
      /\ backoff' = backoff
  BY QueueFacts DEF Executes
<1>2. /\ q \in LoopRecs /\ q.at = "sent" /\ (q.alive <=> q0.alive) /\ q.cmd = q0.cmd
      /\ q.queue = q0.queue
  BY DEF LoopRecs, Loops
<1>3. /\ attempts \in [Commands -> 0..MaxAttempts] /\ runs \in [Commands -> 0..MaxAttempts]
      /\ backoff \subseteq Commands /\ MaxAttempts \in Nat
      /\ \A b \in Commands : runs[b] <= attempts[b]
      /\ \A b \in backoff : home[b] # 0 /\ attempts[b] < MaxAttempts
  BY QueueAssumption DEF QueueInv, QueueTypeOK
<1>4. /\ q0.cmd \in Commands /\ home[q0.cmd] = i /\ runs[q0.cmd] < attempts[q0.cmd]
      /\ q0.alive
  BY <1>1, CommandFacts DEF LoopFits
<1>5. runs' \in [Commands -> 0..MaxAttempts] /\ runs'[q0.cmd] > 0
      /\ \A b \in Commands : b # q0.cmd => runs'[b] = runs[b]
  BY <1>1, <1>3, <1>4
<1>6. \A b \in Commands : runs'[b] <= attempts'[b]
  <2> SUFFICES ASSUME NEW b \in Commands PROVE runs'[b] <= attempts[b]
    BY <1>1
  <2>1. CASE b = q0.cmd
    BY <1>1, <1>3, <1>4, <2>1
  <2>2. CASE b # q0.cmd
    BY <1>3, <1>5, <2>2
  <2> QED
    BY <2>1, <2>2
<1>7. LoopFits(i, q)'
  BY <1>1, <1>2, <1>4, <1>5 DEF LoopFits
<1>8. q.alive => queues[i].alive
  BY <1>2
<1> QED
  BY <1>1, <1>3, <1>4, <1>5, <1>6, <1>7, <1>8, OneMoves, ZenonT(40)

\* The loop stops at a report: the fatal one, or that of an earlier failure.
LEMMA StopKeepsInv ==
    ASSUME QueueInv, NEW i \in DOMAIN queues, queues[i].at \in {"send", "sent"},
           \/ queues' = [queues EXCEPT ![i].alive = FALSE, ![i].at = "fatal"]
           \/ /\ queues' = [queues EXCEPT ![i].at = "report"]
              /\ attempts[queues[i].cmd] < MaxAttempts,
           UNCHANGED <<home, attempts, backoff, runs>>
    PROVE  QueueInv'
<1> PICK q0 \in LoopRecs : q0 = queues[i]
  BY QueueFacts
<1>1. /\ attempts \in [Commands -> 0..MaxAttempts] /\ runs \in [Commands -> 0..MaxAttempts]
      /\ backoff \subseteq Commands /\ LoopFits(i, q0)
      /\ \A b \in Commands : runs[b] <= attempts[b]
      /\ \A b \in backoff : home[b] # 0 /\ attempts[b] < MaxAttempts
  BY QueueFacts DEF QueueInv
<1>2. q0.cmd \in Commands /\ q0.alive
  BY <1>1 DEF LoopFits
<1>3. CASE queues' = [queues EXCEPT ![i].alive = FALSE, ![i].at = "fatal"]
  <2> PICK q : q = [q0 EXCEPT !.alive = FALSE, !.at = "fatal"]
    OBVIOUS
  <2>1. queues' = [queues EXCEPT ![i] = q]
    BY <1>3
  <2>2. /\ q \in LoopRecs /\ q.at = "fatal" /\ ~q.alive /\ q.cmd = q0.cmd /\ q.queue = q0.queue
    BY DEF LoopRecs, Loops
  <2>3. LoopFits(i, q)'
    BY <1>1, <1>2, <2>2 DEF LoopFits
  <2> QED
    BY <1>1, <2>1, <2>2, <2>3, OneMoves
<1>4. CASE /\ queues' = [queues EXCEPT ![i].at = "report"]
           /\ attempts[queues[i].cmd] < MaxAttempts
  <2> PICK q : q = [q0 EXCEPT !.at = "report"]
    OBVIOUS
  <2>1. queues' = [queues EXCEPT ![i] = q]
    BY <1>4
  <2>2. /\ q \in LoopRecs /\ q.at = "report" /\ (q.alive <=> q0.alive) /\ q.cmd = q0.cmd
        /\ q.queue = q0.queue
    BY DEF LoopRecs, Loops
  <2>3. LoopFits(i, q)'
    BY <1>1, <1>2, <1>4, <2>2 DEF LoopFits
  <2> QED
    BY <1>1, <1>2, <2>1, <2>2, <2>3, OneMoves
<1> QED
  BY <1>3, <1>4

LEMMA QueueStep == QueueInv /\ [QueueNext]_queueVars => QueueInv'
<1> SUFFICES ASSUME QueueInv, [QueueNext]_queueVars PROVE QueueInv'
  OBVIOUS
<1>1. CASE UNCHANGED queueVars
  BY <1>1 DEF queueVars, QueueInv, QueueTypeOK, LoopFits
<1>2. CASE \E c \in Commands : Enqueue(c) \/ Retry(c)
  BY <1>2, EnqueueKeepsInv, RetryKeepsInv
<1>3. ASSUME NEW i \in DOMAIN queues, ScheduleRetry(i), queues[i].cmd \in Commands,
             attempts[queues[i].cmd] < MaxAttempts
      PROVE  QueueInv'
  BY <1>3, WorkKeepsInv DEF ScheduleRetry
<1>4. ASSUME NEW i \in DOMAIN queues,
             Executes(i) \/ Succeeds(i) \/ Dies(i) \/ Fails(i) \/ Reported(i) \/ FatalReported(i)
      PROVE  QueueInv'
  <2>1. LoopFits(i, queues[i])
    BY DEF QueueInv
  <2>2. CASE Executes(i)
    BY <2>2, ExecutesKeepsInv
  <2>3. CASE Succeeds(i)
    BY <2>3, WorkKeepsInv DEF Succeeds
  <2>4. CASE Dies(i)
    BY <2>4, StopKeepsInv DEF Dies
  <2>5. CASE Fails(i)
    <3>1. queues[i].cmd \in Commands /\ attempts[queues[i].cmd] < MaxAttempts
          /\ queues[i].at \in {"send", "sent"}
      BY <2>1, <2>5 DEF Fails, LoopFits
    <3> QED
      BY <1>3, <2>5, <3>1, StopKeepsInv DEF Fails
  <2>6. CASE Reported(i)
    <3>1. queues[i].cmd \in Commands /\ attempts[queues[i].cmd] < MaxAttempts
      BY <2>1, <2>6 DEF Reported, LoopFits
    <3> QED
      BY <1>3, <2>6, <3>1 DEF Reported
  <2>7. CASE FatalReported(i)
    BY <2>7, WorkKeepsInv DEF FatalReported
  <2> QED
    BY <1>4, <2>2, <2>3, <2>4, <2>5, <2>6, <2>7
<1> QED
  BY <1>1, <1>2, <1>4 DEF QueueNext

LEMMA QueueStarts == QueueInit => QueueInv
<1> SUFFICES ASSUME QueueInit PROVE QueueInv
  OBVIOUS
<1>1. /\ queues = <<Fresh>> /\ Len(queues) = 1 /\ DOMAIN queues = {1} /\ queues[1] = Fresh
      /\ backoff = {} /\ MaxAttempts \in Nat /\ MaxQueues \in Nat \ {0}
  BY QueueAssumption DEF QueueInit
<1>2. /\ Fresh \in LoopRecs /\ Fresh.alive /\ Fresh.at = "idle" /\ Fresh.cmd = 0
      /\ Fresh.queue = << >> /\ Range(Fresh.queue) = {} /\ IsInjective(Fresh.queue)
  BY DEF Fresh, LoopRecs, Loops, Range, IsInjective
<1>3. LoopFits(1, Fresh)
  BY <1>2 DEF LoopFits
<1>4. queues \in Seq(LoopRecs)
  BY <1>1, <1>2
<1>5. QueueTypeOK
  BY <1>1, <1>4 DEF QueueInit, QueueTypeOK, LoopRecs
<1> QED
  BY <1>1, <1>3, <1>5 DEF QueueInit, QueueInv

\* What is outstanding in queue q, with number i.
Held(q, i) == {c \in backoff : home[c] = i} \cup ({q.cmd} \ {0}) \cup Range(q.queue)

Busy(q) == IF q.at \in {"send", "sent"} THEN {q.cmd} ELSE {}

LastBusy == Busy(queues[Len(queues)])
LastHeld == IF queues[Len(queues)].alive THEN Held(queues[Len(queues)], Len(queues)) ELSE {}

\* All that is outstanding, and the command under way, are in the last queue.
LEMMA LastView ==
  QueueInv => Sending = LastBusy /\ Outstanding = LastHeld
<1> SUFFICES ASSUME QueueInv PROVE Sending = LastBusy /\ Outstanding = LastHeld
  OBVIOUS
<1> PICK n : n = Len(queues)
  OBVIOUS
<1>1. /\ queues \in Seq(LoopRecs) /\ n \in DOMAIN queues /\ n # 0 /\ DOMAIN queues = 1 .. n
      /\ home \in [Commands -> 0 .. n]
      /\ \A i \in DOMAIN queues : queues[i].alive => i = n
      /\ \A i \in DOMAIN queues : queues[i].at \in {"send", "sent"} => queues[i].alive
  BY DEF QueueInv, QueueTypeOK, LoopRecs, LoopFits
<1>2. Sending = Busy(queues[n])
  BY <1>1 DEF Sending, Busy
<1>3. CASE ~queues[n].alive
  <2>1. Outstanding = {}
    BY <1>1, <1>3 DEF Outstanding
  <2> QED
    BY <1>2, <1>3, <2>1 DEF LastBusy, LastHeld
<1>4. CASE queues[n].alive
  <2>1. \A c \in Commands : home[c] # 0 /\ queues[home[c]].alive => home[c] = n
    BY <1>1
  <2>2. \A c \in Outstanding : c \in Held(queues[n], n)
    <3> SUFFICES ASSUME NEW c \in Outstanding PROVE c \in Held(queues[n], n)
      OBVIOUS
    <3>1. c \in Commands /\ home[c] = n /\ c # 0
      BY <2>1, CommandFacts DEF Outstanding
    <3>2. \/ c \in backoff \/ queues[n].cmd = c \/ c \in Range(queues[n].queue)
      BY <3>1 DEF Outstanding
    <3> QED
      BY <3>1, <3>2 DEF Held
  <2>3. /\ queues[n].cmd # 0 => queues[n].cmd \in Commands /\ home[queues[n].cmd] = n
        /\ \A c \in Range(queues[n].queue) : c \in Commands /\ home[c] = n
        /\ \A c \in backoff : c \in Commands
    BY <1>1, QueueFacts DEF LoopFits
  <2>4. \A c \in Held(queues[n], n) : c \in Outstanding
    BY <1>1, <1>4, <2>3 DEF Outstanding, Held
  <2>5. Outstanding = Held(queues[n], n)
    BY <2>2, <2>4
  <2> QED
    BY <1>2, <1>4, <2>5 DEF LastBusy, LastHeld
<1> QED
  BY <1>3, <1>4

\* What a step of queue i makes of them.
LEMMA MoveView ==
    ASSUME QueueInv, QueueInv', NEW i \in DOMAIN queues, NEW q,
           queues' = [queues EXCEPT ![i] = q], home' = home
    PROVE  /\ i = Len(queues) => /\ Sending' = Busy(q)
                                 /\ Outstanding' = IF q.alive THEN Held(q, i)' ELSE {}
           /\ /\ i # Len(queues)
              /\ \A c \in Commands : home[c] # i => (c \in backoff' <=> c \in backoff)
              => Sending' = Sending /\ Outstanding' = Outstanding
<1>1. /\ queues \in Seq(LoopRecs) /\ Len(queues) \in DOMAIN queues
      /\ backoff \subseteq Commands /\ backoff' \subseteq Commands
  BY DEF QueueInv, QueueTypeOK, LoopRecs
<1>2. Len(queues') = Len(queues) /\ queues'[i] = q
      /\ \A j \in DOMAIN queues : j # i => queues'[j] = queues[j]
  BY <1>1
<1>3. Sending' = LastBusy' /\ Outstanding' = LastHeld'
  <2>1. (QueueInv => Sending = LastBusy /\ Outstanding = LastHeld)'
    BY LastView, PTL
  <2> QED
    BY <2>1
<1> PICK n : n = Len(queues)
  OBVIOUS
<1> PICK last : last = queues[n]
  OBVIOUS
<1>4. CASE i = n
  <2>1. LastBusy' = Busy(q)
    BY <1>2, <1>4 DEF LastBusy, Busy
  <2>2. LastHeld' = IF q.alive THEN Held(q, i)' ELSE {}
    BY <1>2, <1>4 DEF LastHeld, Held
  <2> QED
    BY <1>3, <1>4, <2>1, <2>2
<1>5. CASE i # n /\ \A c \in Commands : home[c] # i => (c \in backoff' <=> c \in backoff)
  <2>1. queues'[n] = last /\ Len(queues') = n
    BY <1>1, <1>2, <1>5
  <2>2. {c \in backoff' : home'[c] = n} = {c \in backoff : home[c] = n}
    BY <1>1, <1>5
  <2>3. LastBusy' = LastBusy
    BY <2>1 DEF LastBusy, Busy
  <2>4. LastHeld' = LastHeld
    BY <2>1, <2>2 DEF LastHeld, Held
  <2> QED
    BY <1>3, <1>5, <2>3, <2>4, LastView
<1> QED
  BY <1>4, <1>5

\* Where the loop is alive it is the last one; and what it is busy with.
LEMMA LoopView ==
    ASSUME QueueInv, NEW i \in DOMAIN queues, queues[i].alive
    PROVE  /\ i = Len(queues) /\ queues[i] \in LoopRecs /\ LoopFits(i, queues[i])
           /\ Sending = Busy(queues[i]) /\ Outstanding = Held(queues[i], i)
           /\ backoff \subseteq Commands
<1>1. /\ i = Len(queues) /\ queues[i] \in LoopRecs /\ LoopFits(i, queues[i])
      /\ backoff \subseteq Commands
  BY QueueFacts DEF QueueInv, QueueTypeOK
<1>2. Sending = LastBusy /\ Outstanding = LastHeld
  BY LastView
<1> QED
  BY <1>1, <1>2 DEF LastBusy, LastHeld

\* The loop goes on: what was in line is in line or under way.
LEMMA WorkView ==
    ASSUME NEW q \in LoopRecs, q.alive, IsInjective(q.queue)
    PROVE  /\ Working(q).alive
           /\ ({Working(q).cmd} \ {0}) \cup Range(Working(q).queue) = Range(q.queue)
           /\ \/ Busy(Working(q)) = {}
              \/ \E c \in Range(q.queue) : Busy(Working(q)) = {c}
<1> PICK k : k = Working(q)
  OBVIOUS
<1>1. Range(q.queue) \subseteq Commands
  <2>1. q.queue \in Seq(Commands)
    BY DEF LoopRecs
  <2> QED
    BY <2>1 DEF Range
<1>2. /\ k.alive
      /\ \/ /\ k.at = "send" /\ k.cmd \in Range(q.queue)
            /\ Range(k.queue) = Range(q.queue) \ {k.cmd}
         \/ k.at = "idle" /\ k.cmd = 0 /\ k.queue = q.queue
  BY WorkingFacts
<1>3. CASE /\ k.at = "send" /\ k.cmd \in Range(q.queue)
           /\ Range(k.queue) = Range(q.queue) \ {k.cmd}
  <2>1. k.cmd # 0
    BY <1>1, <1>3, CommandFacts
  <2>2. Busy(k) = {k.cmd}
    BY <1>3 DEF Busy
  <2> QED
    BY <1>2, <1>3, <2>1, <2>2
<1>4. CASE k.at = "idle" /\ k.cmd = 0 /\ k.queue = q.queue
  <2>1. Busy(k) = {}
    BY <1>4 DEF Busy
  <2> QED
    BY <1>2, <1>4, <2>1
<1> QED
  BY <1>2, <1>3, <1>4

LEMMA SucceedsKeepsPromise ==
    ASSUME QueueInv, QueueInv', NEW i \in DOMAIN queues, Succeeds(i)
    PROVE  Promise!Next
<1> PICK q0 \in LoopRecs : q0 = queues[i]
  BY QueueFacts
<1>1. /\ q0.at = "sent" /\ q0.alive /\ q0.cmd \in Commands /\ runs[q0.cmd] > 0
      /\ q0.cmd \notin Range(q0.queue) /\ q0.cmd \notin backoff /\ q0.cmd # 0
      /\ IsInjective(q0.queue)
  BY QueueFacts, CommandFacts DEF Succeeds, LoopFits
<1>2. i = Len(queues) /\ Sending = Busy(q0) /\ Outstanding = Held(q0, i)
  BY <1>1, LoopView
<1> PICK q : q = Working(q0)
  OBVIOUS
<1>3. /\ queues' = [queues EXCEPT ![i] = q] /\ home' = home /\ backoff' = backoff /\ runs' = runs
  BY DEF Succeeds, Becomes
<1>4. /\ q.alive /\ ({q.cmd} \ {0}) \cup Range(q.queue) = Range(q0.queue)
      /\ Busy(q) = {} \/ \E c \in Range(q0.queue) : Busy(q) = {c}
  BY <1>1, WorkView
<1>5. Sending' = Busy(q) /\ Outstanding' = Held(q, i)'
  BY <1>2, <1>3, <1>4, MoveView
<1>6. Sending = {q0.cmd}
  BY <1>1, <1>2 DEF Busy
<1>7. Held(q, i)' = Outstanding \ {q0.cmd} /\ Range(q0.queue) \subseteq Held(q, i)'
  BY <1>1, <1>2, <1>3, <1>4 DEF Held
<1>8. Promise!Succeed(q0.cmd)
  BY <1>1, <1>3, <1>4, <1>5, <1>6, <1>7 DEF Promise!Succeed, Promise!OneOrNone
<1> QED
  BY <1>1, <1>8 DEF Promise!Next

\* A failure or a report is over: the command waits for its timer.
LEMMA ScheduledView ==
    ASSUME QueueInv, QueueInv', NEW i \in DOMAIN queues, ScheduleRetry(i),
           queues[i].alive, queues[i].cmd # 0
    PROVE  Outstanding' = Outstanding /\ Sending' \in Promise!OneOrNone /\ runs' = runs
<1> PICK q0 \in LoopRecs : q0 = queues[i]
  BY QueueFacts
<1>1. /\ q0.alive /\ q0.cmd \in Commands /\ IsInjective(q0.queue) /\ home[q0.cmd] = i
  BY QueueFacts DEF LoopFits
<1>2. i = Len(queues) /\ Outstanding = Held(q0, i)
  BY <1>1, LoopView
<1> PICK q : q = Working(q0)
  OBVIOUS
<1>3. /\ queues' = [queues EXCEPT ![i] = q] /\ home' = home
      /\ backoff' = backoff \cup {q0.cmd} /\ runs' = runs
  BY DEF ScheduleRetry, Becomes
<1>4. /\ q.alive /\ ({q.cmd} \ {0}) \cup Range(q.queue) = Range(q0.queue)
      /\ Busy(q) = {} \/ \E c \in Range(q0.queue) : Busy(q) = {c}
  BY <1>1, WorkView
<1>5. Sending' = Busy(q) /\ Outstanding' = Held(q, i)'
  BY <1>2, <1>3, <1>4, MoveView
<1>6. Held(q, i)' = Outstanding /\ Range(q0.queue) \subseteq Outstanding
  BY <1>1, <1>2, <1>3, <1>4 DEF Held
<1> QED
  BY <1>3, <1>4, <1>5, <1>6 DEF Promise!OneOrNone

LEMMA FailsKeepsPromise ==
    ASSUME QueueInv, QueueInv', NEW i \in DOMAIN queues, Fails(i)
    PROVE  Promise!Next
<1> PICK q0 \in LoopRecs : q0 = queues[i]
  BY QueueFacts
<1>1. /\ q0.at \in {"send", "sent"} /\ q0.alive /\ q0.cmd \in Commands /\ q0.cmd # 0
  BY QueueFacts, CommandFacts DEF Fails, LoopFits
<1>2. i = Len(queues) /\ Sending = {q0.cmd} /\ Outstanding = Held(q0, i)
  BY <1>1, LoopView DEF Busy
<1>3. CASE ScheduleRetry(i)
  <2>1. Outstanding' = Outstanding /\ Sending' \in Promise!OneOrNone /\ runs' = runs
    BY <1>1, <1>3, ScheduledView
  <2>2. Promise!Fail(q0.cmd)
    BY <1>2, <2>1 DEF Promise!Fail
  <2> QED
    BY <1>1, <2>2 DEF Promise!Next
<1>4. CASE /\ queues' = [queues EXCEPT ![i].at = "report"]
           /\ UNCHANGED <<home, attempts, backoff, runs>>
  <2> PICK q : q = [q0 EXCEPT !.at = "report"]
    OBVIOUS
  <2>1. queues' = [queues EXCEPT ![i] = q] /\ home' = home /\ backoff' = backoff /\ runs' = runs
    BY <1>4
  <2>2. q.at = "report" /\ q.alive /\ q.cmd = q0.cmd /\ q.queue = q0.queue
    BY <1>1 DEF LoopRecs, Loops
  <2>3. Sending' = Busy(q) /\ Outstanding' = Held(q, i)'
    BY <1>2, <2>1, <2>2, MoveView
  <2>4. Busy(q) = {} /\ Held(q, i)' = Held(q0, i)
    BY <2>1, <2>2 DEF Busy, Held
  <2>5. Promise!Fail(q0.cmd)
    BY <1>2, <2>1, <2>3, <2>4 DEF Promise!Fail, Promise!OneOrNone
  <2> QED
    BY <1>1, <2>5 DEF Promise!Next
<1> QED
  BY <1>3, <1>4 DEF Fails

LEMMA DiesKeepsPromise ==
    ASSUME QueueInv, QueueInv', NEW i \in DOMAIN queues, Dies(i)
    PROVE  Promise!Next
<1> PICK q0 \in LoopRecs : q0 = queues[i]
  BY QueueFacts
<1>1. /\ q0.at \in {"send", "sent"} /\ q0.alive /\ q0.cmd \in Commands
  BY QueueFacts DEF Dies, LoopFits
<1>2. i = Len(queues) /\ Sending = {q0.cmd}
  BY <1>1, LoopView DEF Busy
<1> PICK q : q = [q0 EXCEPT !.alive = FALSE, !.at = "fatal"]
  OBVIOUS
<1>3. queues' = [queues EXCEPT ![i] = q] /\ home' = home /\ runs' = runs
  BY DEF Dies
<1>4. q.at = "fatal" /\ ~q.alive
  BY DEF LoopRecs, Loops
<1>5. Sending' = {} /\ Outstanding' = {}
  BY <1>2, <1>3, <1>4, MoveView DEF Busy
<1>6. Promise!Fail(q0.cmd)
  BY <1>2, <1>3, <1>5 DEF Promise!Fail, Promise!OneOrNone
<1> QED
  BY <1>1, <1>6 DEF Promise!Next

LEMMA ExecutesKeepsPromise ==
    ASSUME QueueInv, QueueInv', NEW i \in DOMAIN queues, Executes(i)
    PROVE  Promise!Next
<1> PICK q0 \in LoopRecs : q0 = queues[i]
  BY QueueFacts
<1>1. /\ q0.at = "send" /\ q0.alive /\ q0.cmd \in Commands
  BY QueueFacts DEF Executes, LoopFits
<1>2. i = Len(queues) /\ Sending = {q0.cmd} /\ Outstanding = Held(q0, i)
  BY <1>1, LoopView DEF Busy
<1> PICK q : q = [q0 EXCEPT !.at = "sent"]
  OBVIOUS
<1>3. /\ queues' = [queues EXCEPT ![i] = q] /\ home' = home /\ backoff' = backoff
      /\ runs' = [runs EXCEPT ![q0.cmd] = @ + 1]
  BY DEF Executes
<1>4. q.at = "sent" /\ q.alive /\ q.cmd = q0.cmd /\ q.queue = q0.queue
  BY <1>1 DEF LoopRecs, Loops
<1>5. Sending' = Busy(q) /\ Outstanding' = Held(q, i)'
  BY <1>2, <1>3, <1>4, MoveView
<1>6. Busy(q) = {q0.cmd} /\ Held(q, i)' = Held(q0, i)
  BY <1>3, <1>4 DEF Busy, Held
<1>7. Promise!Run(q0.cmd)
  BY <1>2, <1>3, <1>5, <1>6 DEF Promise!Run
<1> QED
  BY <1>1, <1>7 DEF Promise!Next

LEMMA ReportedKeepsPromise ==
    ASSUME QueueInv, QueueInv', NEW i \in DOMAIN queues, Reported(i)
    PROVE  Promise!Next
<1> PICK q0 \in LoopRecs : q0 = queues[i]
  BY QueueFacts
<1>1. q0.at = "report" /\ q0.alive /\ q0.cmd # 0
  BY QueueFacts, CommandFacts DEF Reported, LoopFits
<1>2. Sending = {}
  BY <1>1, LoopView DEF Busy
<1>3. Outstanding' = Outstanding /\ Sending' \in Promise!OneOrNone /\ runs' = runs
  BY <1>1, ScheduledView DEF Reported
<1>4. Promise!Send
  BY <1>2, <1>3 DEF Promise!Send
<1> QED
  BY <1>4 DEF Promise!Next

\* A dead queue holds nothing that is outstanding.
LEMMA DeadView ==
    ASSUME QueueInv, QueueInv', NEW i \in DOMAIN queues, ~queues[i].alive, NEW q, ~q.alive,
           q.at \notin {"send", "sent"}, queues' = [queues EXCEPT ![i] = q], home' = home,
           runs' = runs, \A c \in Commands : home[c] # i => (c \in backoff' <=> c \in backoff)
    PROVE  UNCHANGED Promise!vars
<1>1. queues[i].at \notin {"send", "sent"}
  BY DEF QueueInv, LoopFits
<1>2. CASE i = Len(queues)
  <2>1. Sending = {} /\ Outstanding = {}
    BY <1>1, <1>2, LastView DEF LastBusy, LastHeld, Busy
  <2>2. Sending' = {} /\ Outstanding' = {}
    BY <1>2, MoveView DEF Busy
  <2> QED
    BY <2>1, <2>2 DEF Promise!vars
<1>3. CASE i # Len(queues)
  BY <1>3, MoveView DEF Promise!vars
<1> QED
  BY <1>2, <1>3

LEMMA FatalKeepsPromise ==
    ASSUME QueueInv, QueueInv', NEW i \in DOMAIN queues, FatalReported(i)
    PROVE  UNCHANGED Promise!vars
<1> PICK q0 \in LoopRecs : q0 = queues[i]
  BY QueueFacts
<1>1. q0.at = "fatal" /\ ~q0.alive /\ IsInjective(q0.queue)
  BY QueueFacts DEF FatalReported, LoopFits
<1> PICK q : q = Working(q0)
  OBVIOUS
<1>2. ~q.alive /\ q.at = "idle"
  BY <1>1, WorkingFacts
<1>3. /\ queues' = [queues EXCEPT ![i] = q] /\ home' = home /\ backoff' = backoff /\ runs' = runs
  BY DEF FatalReported, Becomes
<1> QED
  BY <1>1, <1>2, <1>3, DeadView

LEMMA RetryKeepsPromise ==
    ASSUME QueueInv, QueueInv', NEW c \in Commands, Retry(c)
    PROVE  Promise!Next \/ UNCHANGED Promise!vars
<1> PICK i : i = home[c]
  OBVIOUS
<1>1. i \in DOMAIN queues /\ c \in backoff
  BY DEF QueueInv, QueueTypeOK, Retry
<1> PICK q0 \in LoopRecs : q0 = queues[i]
  BY <1>1, QueueFacts
<1>2. /\ LoopFits(i, q0) /\ IsInjective(q0.queue) /\ c \notin Range(q0.queue) /\ c # q0.cmd
      /\ q0.at = "idle" => q0.cmd = 0 /\ (q0.alive => q0.queue = << >>)
  <2>1. LoopFits(i, q0)
    BY <1>1, QueueFacts
  <2> QED
    BY <1>1, <2>1, CommandFacts DEF LoopFits
<1> PICK q : q = Returned(q0, c)
  OBVIOUS
<1>3. Put(q, q0, c)
  BY <1>2, ReturnedFacts
<1>4. /\ queues' = [queues EXCEPT ![i] = q] /\ home' = home /\ runs' = runs
      /\ backoff' = backoff \ {c}
  BY DEF Retry, Returned, Becomes
<1>5. CASE q0.alive
  <2>1. i = Len(queues) /\ Sending = Busy(q0) /\ Outstanding = Held(q0, i)
    BY <1>1, <1>5, LoopView
  <2>2. q.alive
    BY <1>3, <1>5 DEF Put
  <2>3. Sending' = Busy(q) /\ Outstanding' = Held(q, i)'
    BY <1>1, <1>4, <2>1, <2>2, MoveView
  <2>4. CASE q0.at = "idle"
    <3>1. q.at = "send" /\ q.cmd = c /\ Range(q.queue) = {}
      BY <1>3, <1>5, <2>4 DEF Put
    <3>2. Range(q0.queue) = {} /\ q0.cmd = 0
      BY <1>2, <1>5, <2>4 DEF Range
    <3>3. Held(q, i)' = Held(q0, i) /\ c \in Held(q0, i)
      BY <1>1, <1>4, <3>1, <3>2, CommandFacts DEF Held
    <3>4. Busy(q0) = {} /\ Busy(q) = {c}
      BY <2>4, <3>1 DEF Busy
    <3>5. Promise!Send
      BY <1>4, <2>1, <2>3, <3>3, <3>4 DEF Promise!Send, Promise!OneOrNone
    <3> QED
      BY <3>5 DEF Promise!Next
  <2>5. CASE q0.at # "idle"
    <3>1. q.at = q0.at /\ q.cmd = q0.cmd /\ Range(q.queue) = Range(q0.queue) \cup {c}
      BY <1>3, <1>5, <2>5 DEF Put
    <3>2. Held(q, i)' = Held(q0, i)
      BY <1>1, <1>4, <3>1 DEF Held
    <3>3. Busy(q) = Busy(q0)
      BY <3>1 DEF Busy
    <3> QED
      BY <1>4, <2>1, <2>3, <3>2, <3>3 DEF Promise!vars
  <2> QED
    BY <2>4, <2>5
<1>6. CASE ~q0.alive
  <2>1. ~q.alive /\ q.at = q0.at
    BY <1>3, <1>6 DEF Put
  <2>2. q0.at \notin {"send", "sent"}
    BY <1>2, <1>6 DEF LoopFits
  <2>3. \A b \in Commands : home[b] # i => (b \in backoff' <=> b \in backoff)
    BY <1>4
  <2> QED
    BY <1>1, <1>4, <1>6, <2>1, <2>2, <2>3, DeadView
<1> QED
  BY <1>5, <1>6

LEMMA EnqueueKeepsPromise ==
    ASSUME QueueInv, QueueInv', NEW c \in Commands, Enqueue(c)
    PROVE  Promise!Next
<1>1. PICK i \in Nat, q0 \in LoopRecs, q \in LoopRecs :
        /\ Taken(c, i, q0, q)
        /\ home[c] = 0 /\ home' = [home EXCEPT ![c] = i] /\ backoff' = backoff /\ runs' = runs
        /\ attempts' = IF q.cmd = c THEN [attempts EXCEPT ![c] = 1] ELSE attempts
  BY EnqueueFacts
<1>2. /\ q0.alive /\ LoopFits(i, q0) /\ Put(q, q0, c) /\ q.alive
      /\ Len(queues') = i /\ queues'[i] = q
  BY <1>1 DEF Taken, Put
<1>3. Sending' = LastBusy' /\ Outstanding' = LastHeld'
  <2>1. (QueueInv => Sending = LastBusy /\ Outstanding = LastHeld)'
    BY LastView, PTL
  <2> QED
    BY <2>1
<1>4. Sending' = Busy(q) /\ Outstanding' = Held(q, i)'
  BY <1>2, <1>3 DEF LastBusy, LastHeld, Busy, Held
\* What was outstanding is what was in the queue that takes c.
<1>5. Sending = Busy(q0) /\ Outstanding = Held(q0, i)
  <2>1. CASE i = Len(queues) /\ q0 = queues[i]
    BY <1>2, <2>1, LastView DEF LastBusy, LastHeld
  <2>2. CASE i = Len(queues) + 1 /\ q0 = Fresh /\ ~queues[Len(queues)].alive
    <3>1. queues[Len(queues)].at \notin {"send", "sent"} /\ Len(queues) \in Nat
          /\ home \in [Commands -> 0 .. Len(queues)] /\ backoff \subseteq Commands
      BY <2>2, SMTT(20) DEF QueueInv, QueueTypeOK, LoopFits
    <3>2. Sending = {} /\ Outstanding = {}
      BY <2>2, <3>1, LastView DEF LastBusy, LastHeld, Busy
    <3>3. Busy(q0) = {} /\ q0.cmd = 0 /\ q0.queue = << >>
      BY <2>2 DEF Fresh, Busy
    <3>4. Range(q0.queue) = {}
      BY <3>3 DEF Range
    <3>5. {b \in backoff : home[b] = i} = {}
      BY <2>2, <3>1
    <3>6. Held(q0, i) = {}
      BY <3>3, <3>4, <3>5 DEF Held
    <3> QED
      BY <3>2, <3>3, <3>6
  <2> QED
    BY <1>1, <2>1, <2>2 DEF Taken
<1>6. /\ backoff \subseteq Commands /\ c \notin backoff /\ c # 0 /\ i # 0
      /\ home \in [Commands -> Nat]
  BY <1>1, CommandFacts DEF QueueInv, QueueTypeOK, Taken
<1>7. {b \in backoff' : home'[b] = i} = {b \in backoff : home[b] = i}
  BY <1>1, <1>6
<1>8. /\ c \notin Range(q0.queue) /\ c # q0.cmd
      /\ q0.at = "idle" => q0.cmd = 0 /\ Range(q0.queue) = {}
  <2>1. q0.at = "idle" => q0.queue = << >>
    BY <1>2 DEF LoopFits
  <2>2. q0.at = "idle" => Range(q0.queue) = {}
    BY <2>1 DEF Range
  <2> QED
    BY <1>1, <1>2, <2>2 DEF Taken, LoopFits
<1>9. c \notin Outstanding
  BY <1>5, <1>6, <1>8 DEF Held
<1>10. CASE q0.at = "idle"
  <2>1. q.at = "send" /\ q.cmd = c /\ Range(q.queue) = {}
    BY <1>2, <1>10 DEF Put
  <2>2. Held(q, i)' = Held(q0, i) \cup {c}
    BY <1>6, <1>7, <1>8, <1>10, <2>1 DEF Held
  <2>3. Busy(q0) = {} /\ Busy(q) = {c}
    BY <1>10, <2>1 DEF Busy
  <2>4. Promise!Accept(c)
    BY <1>1, <1>4, <1>5, <1>9, <2>2, <2>3 DEF Promise!Accept, Promise!OneOrNone
  <2> QED
    BY <2>4 DEF Promise!Next
<1>11. CASE q0.at # "idle"
  <2>1. q.at = q0.at /\ q.cmd = q0.cmd /\ Range(q.queue) = Range(q0.queue) \cup {c}
    BY <1>2, <1>11 DEF Put
  <2>2. Held(q, i)' = Held(q0, i) \cup {c}
    BY <1>7, <2>1 DEF Held
  <2>3. Busy(q0) = Busy(q)
    BY <2>1 DEF Busy
  <2>4. Promise!Accept(c)
    BY <1>1, <1>4, <1>5, <1>9, <2>2, <2>3 DEF Promise!Accept, Promise!OneOrNone
  <2> QED
    BY <2>4 DEF Promise!Next
<1> QED
  BY <1>10, <1>11

LEMMA PromiseStep ==
  QueueInv /\ QueueInv' /\ [QueueNext]_queueVars => Promise!Next \/ UNCHANGED Promise!vars
<1> SUFFICES ASSUME QueueInv, QueueInv', [QueueNext]_queueVars
             PROVE  Promise!Next \/ UNCHANGED Promise!vars
  OBVIOUS
<1>1. CASE UNCHANGED queueVars
  BY <1>1 DEF queueVars, Promise!vars, Outstanding, Sending
<1>2. CASE \E c \in Commands : Enqueue(c) \/ Retry(c)
  BY <1>2, EnqueueKeepsPromise, RetryKeepsPromise
<1>3. ASSUME NEW i \in DOMAIN queues,
             Executes(i) \/ Succeeds(i) \/ Dies(i) \/ Fails(i) \/ Reported(i) \/ FatalReported(i)
      PROVE  Promise!Next \/ UNCHANGED Promise!vars
  BY <1>3, ExecutesKeepsPromise, SucceedsKeepsPromise, DiesKeepsPromise, FailsKeepsPromise,
     ReportedKeepsPromise, FatalKeepsPromise
<1> QED
  BY <1>1, <1>2, <1>3 DEF QueueNext

LEMMA PromiseStarts == QueueInit => Promise!Init
<1> SUFFICES ASSUME QueueInit PROVE Promise!Init
  OBVIOUS
<1>1. Outstanding = {}
  BY DEF QueueInit, Outstanding
<1>2. Sending = {}
  <2>1. DOMAIN queues = {1} /\ queues[1].at = "idle"
    BY DEF QueueInit, Fresh
  <2> QED
    BY <2>1 DEF Sending
<1> QED
  BY <1>1, <1>2 DEF QueueInit, Promise!Init

\* The type invariant of the mirror's queue.
THEOREM QueueTypeCorrect == QueueSpec => []QueueTypeOK
<1>1. QueueInv => QueueTypeOK
  BY DEF QueueInv
<1> QED
  BY <1>1, QueueStarts, QueueStep, PTL DEF QueueSpec

\* Every step of the queues is one that CommandSet allows, or none to it: a
\* command is accepted once, sent one at a time and only while it is
\* outstanding, and done with when a send of it succeeded, or lost with all
\* the others.  This is the safety part of ImplementsCommandSet; that no command
\* stays outstanding, its Settles, is left to the run.
THEOREM QueueKeepsPromise ==
  QueueSpec => Promise!Init /\ [][Promise!Next]_(Promise!vars)
<1> QED
  BY QueueStarts, QueueStep, PromiseStarts, PromiseStep, PTL DEF QueueSpec

-----------------------------------------------------------------------------
(* The parts side by side: what is proved of a part holds of the run        *)
(* MCUpkeep, in which the others stand still.                               *)

\* The constants that the run gives the mirror are as it assumes.
LEMMA MirrorInstance == Mirror!MirrorAssumption
  BY DEF Mirror!MirrorAssumption

LEMMA PartsStart == MCInit => Init /\ SweepInit /\ Mirror!Init /\ QueueInit
  BY DEF MCInit

LEMMA PartsStep ==
  [MCNext]_allVars =>
    /\ [Next]_vars
    /\ [SweepNext]_sweepVars
    /\ [Mirror!Next]_(Mirror!vars)
    /\ [QueueNext]_queueVars
<1>1. mirrorVars' = mirrorVars => UNCHANGED Mirror!vars
  BY DEF mirrorVars, Mirror!vars
<1>2. UNCHANGED allVars => UNCHANGED <<vars, sweepVars, mirrorVars, queueVars>>
  BY DEF allVars
<1> QED
  BY <1>1, <1>2 DEF MCNext, DeleteGoesOn, SweepGoesOn, MirrorGoesOn, QueueGoesOn

\* The types of the four.
THEOREM UpkeepPartsTypeCorrect == MCSpec => []PartsTypeOK
<1>1. Mirror!Spec => []Mirror!TypeOK
  BY MirrorInstance, Mirror!MirrorTypeCorrect
<1>2. QueueInv => QueueTypeOK
  BY DEF QueueInv
<1> QED
  BY <1>1, <1>2, PartsStart, PartsStep, DeleteTypeCorrect, SweepTypeCorrect, QueueStarts, QueueStep,
     PTL DEF MCSpec, Spec, SweepSpec, Mirror!Spec, PartsTypeOK
=============================================================================
