------------------------------- MODULE MCUpkeep -------------------------------
(***************************************************************************)
(* The parts that keep the catalog and the flowsheet in step with          *)
(* tubafrenzy, each on its own, in one run: the delete of a release beside *)
(* the import (LibraryDelete), the sweep of rows that are gone upstream    *)
(* (GhostSweep), the nightly repair of the mirror (FlowsheetMirror), and   *)
(* the mirror's queue of SQL commands (MirrorQueue).                       *)
(* "part" is picked at the start, and the other parts stand still.         *)
(***************************************************************************)
EXTENDS LibraryDelete, GhostSweep, MirrorQueue, TLC

CONSTANT p1

VARIABLES part, show, entry, tuba, showCache, cache, call, deletes, job

mirrorVars == <<show, entry, tuba, showCache, cache, call, deletes, job>>
allVars == <<part, vars, sweepVars, mirrorVars, queueVars>>

\* Complete, cut off at the tail, cut off at the head, empty.
Files == {{1, 2, 4, 5, 6}, {1, 2}, {5, 6}, {}}

\* No number is lost, or two handlers under way, in this instance, and edits and
\* deletions are made with the backend-mirror flag off: the run Mirror has all of
\* it, without liveness.  MirrorProofs extends FlowsheetMirror and has its
\* theorems, which UpkeepProofs carries over to this run.
Mirror == INSTANCE MirrorProofs WITH
  Shows <- {1}, Handlers <- {"h"}, MaxEntries <- 2, MaxLost <- 0

MCInit ==
  /\ part \in {"delete", "sweep", "mirror", "queue"}
  /\ Init /\ SweepInit /\ Mirror!Init /\ QueueInit
  /\ part # "delete" => first = "album" /\ lib = NoAlbum /\ entries = 0

DeleteGoesOn == part = "delete" /\ Next /\ UNCHANGED <<part, sweepVars, mirrorVars, queueVars>>
SweepGoesOn == part = "sweep" /\ SweepNext /\ UNCHANGED <<part, vars, mirrorVars, queueVars>>
FlagIsOff == call'["h"].at \notin {"update", "enqueue"}

MirrorGoesOn ==
  part = "mirror" /\ Mirror!Next /\ FlagIsOff /\ UNCHANGED <<part, vars, sweepVars, queueVars>>
QueueGoesOn == part = "queue" /\ QueueNext /\ UNCHANGED <<part, vars, sweepVars, mirrorVars>>

MCNext == DeleteGoesOn \/ SweepGoesOn \/ MirrorGoesOn \/ QueueGoesOn

\* The fairness of each part, while it runs.
DeleteIsFair ==
  /\ \A p \in Plays : /\ SF_vars(part = "delete" /\ ForeignKeyCheck(p))
                      /\ WF_vars(part = "delete" /\ StorePlay(p))
  /\ WF_vars(part = "delete" /\ Delete)
  /\ WF_vars(part = "delete" /\ DeleteStandsDown)

MirrorIsFair ==
  /\ WF_mirrorVars(part = "mirror" /\ Mirror!JobStart)
  /\ WF_mirrorVars(part = "mirror" /\ Mirror!JobGoesOn)
  /\ SF_mirrorVars(part = "mirror" /\ Mirror!JobSelects)
  /\ SF_mirrorVars(part = "mirror" /\ Mirror!JobCreatesShow(TRUE))
  /\ SF_mirrorVars(part = "mirror" /\ Mirror!JobTakesShow(TRUE))
  /\ SF_mirrorVars(part = "mirror" /\ Mirror!JobPosts)
  /\ SF_mirrorVars(part = "mirror" /\ Mirror!JobPersists)

QueueIsFair ==
  /\ \A c \in Commands : WF_queueVars(part = "queue" /\ Retry(c))
  /\ \A i \in 1..MaxQueues : WF_queueVars(part = "queue" /\ LoopGoesOn(i))

MCSpec == MCInit /\ [][MCNext]_allVars /\ DeleteIsFair /\ MirrorIsFair /\ QueueIsFair

-----------------------------------------------------------------------------
(* The properties of the parts                                             *)

\* The type invariants of the four.
PartsTypeOK == TypeOK /\ SweepTypeOK /\ Mirror!TypeOK /\ QueueTypeOK

\* FlowsheetMirror: a show that was not mirrored is healed in the end.
ShowsHeal == part = "mirror" => Mirror!ShowsHeal
=============================================================================
