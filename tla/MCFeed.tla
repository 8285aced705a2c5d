-------------------------------- MODULE MCFeed --------------------------------
(***************************************************************************)
(* The parts between a flowsheet row and its listeners, each on its own,   *)
(* in one run: the feed of the backend (LiveFeed), the liveness probe of   *)
(* the CDC listener (CdcProbe), the lookups of the worker (LookupBatcher)  *)
(* and its claims, when handlers keep their budget (EnrichmentLifecycle).  *)
(* "part" is picked at the start, and the other parts stand still.         *)
(***************************************************************************)
EXTENDS LiveFeed, CdcProbe, LookupBatcher, TLC

CONSTANTS r1, r2, a1, none, t1, t2, t3, c1, c2, c3, c4, w1, w2

ASSUME InstanceAssumption == none \notin {r1, a1}

VARIABLES
  part,
  status, claimAge, addAge, album, worker, inbox, handler, jobPhase, todo,
  loaded, jobRow, jobStep, rotationId, attempted

\* r1 is linked, r2 is not.
OneLinked == (r1 :> a1) @@ (r2 :> none)

\* r1 is inserted, claimed and enriched; r2 is imported with an old add_time,
\* and then enriched.  Bound: r2 has two versions.
TerminalOnce == (r1 :> {3}) @@ (r2 :> {2})
R2IsShort == row'[r2] <= 2

lifecycleVars == <<status, claimAge, addAge, album, worker, inbox, handler, jobPhase,
                   todo, loaded, jobRow, jobStep, rotationId, attempted>>
allVars == <<part, vars, probeVars, batcherVars, lifecycleVars>>

\* The first caller is of the live lane.
OneLive == [c \in Callers |-> IF c = c1 THEN "live" ELSE "sweep"]

\* One unlinked row from rotation; a handler gives up within the TTL.  The module
\* of the proofs extends the specification and has the theorems, which FeedProofs
\* carries over to this run.
Lifecycle == INSTANCE EnrichmentLifecycleProofs WITH
  Rows <- {r1}, Workers <- {w1, w2}, Albums <- {a1}, NoAlbum <- none,
  AlbumOf <- [r \in {r1} |-> none], RotationRows <- {r1}, NoRow <- none,
  TTL <- 1, HandlerBudget <- 1, Grace <- 0, RecoveryWindow <- 2,
  phase <- worker

MCInit ==
  /\ part \in {"feed", "probe", "batcher", "lifecycle"}
  /\ Init /\ ProbeInit /\ BatcherInit /\ Lifecycle!Init

FeedGoesOn ==
  /\ part = "feed" /\ Next /\ R2IsShort
  /\ UNCHANGED <<part, probeVars, batcherVars, lifecycleVars>>
ProbeGoesOn ==
  part = "probe" /\ ProbeNext /\ UNCHANGED <<part, vars, batcherVars, lifecycleVars>>
BatcherGoesOn ==
  part = "batcher" /\ BatcherNext /\ UNCHANGED <<part, vars, probeVars, lifecycleVars>>
LifecycleGoesOn ==
  part = "lifecycle" /\ Lifecycle!Next /\ UNCHANGED <<part, vars, probeVars, batcherVars>>

MCNext == FeedGoesOn \/ ProbeGoesOn \/ BatcherGoesOn \/ LifecycleGoesOn

\* The fairness of each part, while it runs.
FeedIsFair ==
  /\ WF_vars(part = "feed" /\ Handle)
  /\ \A i \in Reads : /\ WF_vars(part = "feed" /\ QueryRuns(i))
                      /\ WF_vars(part = "feed" /\ ReadSettles(i))

ProbeIsFair ==
  /\ WF_probeVars(part = "probe" /\ Passes)
  /\ WF_probeVars(part = "probe" /\ Tick)
  /\ \A t \in Tokens : /\ WF_probeVars(part = "probe" /\ NotifySent(t))
                       /\ WF_probeVars(part = "probe" /\ Echo(t))
  /\ SF_probeVars(part = "probe" /\ SendCurrent)
  /\ SF_probeVars(part = "probe" /\ EchoCurrent)

BatcherIsFair ==
  /\ WF_batcherVars(part = "batcher" /\ FlushBuffer)
  /\ \A c \in Callers : WF_batcherVars(part = "batcher" /\ CallOfEnds(c))

MCSpec == MCInit /\ [][MCNext]_allVars /\ FeedIsFair /\ ProbeIsFair /\ BatcherIsFair

-----------------------------------------------------------------------------
(* The properties of the parts                                             *)

\* The type invariants of the parts.
PartsTypeOK == TypeOK /\ ProbeTypeOK /\ BatcherTypeOK /\ Lifecycle!TypeOK

\* EnrichmentLifecycle: two handlers never work on one row's claim.
OneHolder == Lifecycle!OneHolder
=============================================================================
