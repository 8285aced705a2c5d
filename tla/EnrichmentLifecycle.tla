-------------------------- MODULE EnrichmentLifecycle --------------------------
(***************************************************************************)
(* The life of flowsheet.metadata_status, from the INSERT of a track row to *)
(* a terminal verdict:                                                      *)
(*                                                                          *)
(*   - every enrichment worker gets the CDC event of the INSERT, and the    *)
(*     first to win the claim UPDATE looks the row up and finalizes it      *)
(*     (apps/enrichment-worker: claim.ts, handler.ts, precheck.ts,          *)
(*     enrich.ts);                                                          *)
(*   - a claim older than a TTL is reverted by any worker's sweep           *)
(*     (sweep.ts, worker.ts);                                               *)
(*   - the hourly flowsheet-metadata-backfill job drains what the workers   *)
(*     missed and re-attempts no-match rows whose rotation entry got a      *)
(*     Discogs id (jobs/flowsheet-metadata-backfill).                       *)
(*                                                                          *)
(* One action is one SQL statement, or one await between two of them.  The  *)
(* content of album_metadata is reduced to what the precheck tells apart.   *)
(* Clocks are ages in ticks; an age stops growing once no predicate can     *)
(* tell it from a larger one, so the state space is finite.                 *)
(***************************************************************************)
EXTENDS Integers

CONSTANTS
    Rows,            \* flowsheet track rows
    Workers,         \* enrichment-worker instances
    Albums,          \* library albums
    NoAlbum,         \* flowsheet.album_id IS NULL
    AlbumOf,         \* [Rows -> Albums \cup {NoAlbum}]
    RotationRows,    \* rows played from rotation (flowsheet.rotation_id set)
    NoRow,           \* the job holds no row
    TTL,             \* STRANDED_TTL_SECONDS, in ticks
    HandlerBudget,   \* the longest a handler holds a claim; > TTL: no limit
    Grace,           \* the consumer grace window of the backfill
    RecoveryWindow   \* the age ceiling of the backfill; 0 disables it

ASSUME LifecycleAssumption ==
    /\ AlbumOf \in [Rows -> Albums \cup {NoAlbum}]
    /\ NoAlbum \notin Albums
    /\ NoRow \notin Rows
    /\ RotationRows \subseteq Rows
    /\ TTL \in Nat
    /\ HandlerBudget \in Nat
    /\ Grace \in Nat
    /\ RecoveryWindow \in Nat

VARIABLES
    status,        \* flowsheet.metadata_status, or absent / deleted
    claimAge,      \* now() - enriching_since
    addAge,        \* now() - add_time
    album,         \* what album_metadata holds for the album
    phase,         \* each worker process: up, draining (SIGTERM), down
    inbox,         \* CDC events sent to a worker and not yet dispatched
    handler,       \* where a worker's handleCandidate is, per row
    jobPhase,      \* the backfill run: idle, heal (W4 pass), drain
    todo,          \* the ids of the current list behind the cursor
    loaded,        \* rows of the current slice still to process
    jobRow,        \* the row inside processRow
    jobStep,       \* where processRow is
    rotationId,    \* rotation.discogs_release_id IS NOT NULL
    attempted      \* metadata_attempt_at stamped since that id was resolved

rowVars    == <<status, claimAge, addAge>>
workerVars == <<phase, inbox, handler>>
jobVars    == <<jobPhase, todo, loaded, jobRow, jobStep>>
healVars   == <<rotationId, attempted>>
vars       == <<rowVars, album, workerVars, jobVars, healVars>>

Terminal == {"enriched_match", "enriched_no_match", "failed_no_retry"}
Statuses == {"absent", "pending", "enriching", "deleted"} \cup Terminal
Present  == {"pending", "enriching"} \cup Terminal

(***************************************************************************)
(* album_metadata, as hasLoadBearingAlbumMetadata reads it: no row; a row   *)
(* with neither artwork_url nor discogs_url; a load-bearing row with a      *)
(* streaming field still to re-ask; a load-bearing row that is done.        *)
(***************************************************************************)
AlbumForms == {"none", "shell", "reask", "matched"}
MatchForms == AlbumForms \ {"none"}

Stages   == {"idle", "claim", "precheck", "cached", "lookup", "saveMatch",
             "saveNoMatch", "flipMatch", "flipNoMatch"}
Holding  == Stages \ {"idle", "claim"}   \* the claim UPDATE returned the row
JobSteps == {"idle", "lookup", "saveMatch", "saveNoMatch", "flipMatch",
             "flipNoMatch", "deadLetter"}

Linked(r) == AlbumOf[r] # NoAlbum
AgeCap    == IF RecoveryWindow > Grace THEN RecoveryWindow ELSE Grace + 1

TypeOK ==
    /\ status \in [Rows -> Statuses]
    /\ claimAge \in [Rows -> 0 .. TTL + 1]
    /\ addAge \in [Rows -> 0 .. AgeCap]
    /\ album \in [Albums -> AlbumForms]
    /\ phase \in [Workers -> {"up", "draining", "down"}]
    /\ inbox \in [Workers -> SUBSET Rows]
    /\ handler \in [Workers -> [Rows -> Stages]]
    /\ jobPhase \in {"idle", "heal", "drain"}
    /\ todo \in SUBSET Rows
    /\ loaded \in SUBSET Rows
    /\ jobRow \in Rows \cup {NoRow}
    /\ jobStep \in JobSteps
    /\ (jobRow = NoRow) <=> (jobStep = "idle")
    /\ rotationId \in [Rows -> BOOLEAN]
    /\ attempted \in [Rows -> BOOLEAN]

Init ==
    /\ status = [r \in Rows |-> "absent"]
    /\ claimAge = [r \in Rows |-> 0]
    /\ addAge = [r \in Rows |-> 0]
    /\ album \in [Albums -> {"none", "shell"}]
    /\ phase = [w \in Workers |-> "up"]
    /\ inbox = [w \in Workers |-> {}]
    /\ handler = [w \in Workers |-> [r \in Rows |-> "idle"]]
    /\ jobPhase = "idle"
    /\ todo = {}
    /\ loaded = {}
    /\ jobRow = NoRow
    /\ jobStep = "idle"
    /\ rotationId = [r \in Rows |-> FALSE]
    /\ attempted = [r \in Rows |-> FALSE]

--------------------------------------------------------------------------------
(***************************************************************************)
(* The flowsheet itself and the CDC stream.                                 *)
(***************************************************************************)

\* A track is played: the row gets the column default, and the trigger
\* notifies every worker that has a LISTEN open.
InsertRow(r) ==
    /\ status[r] = "absent"
    /\ status' = [status EXCEPT ![r] = "pending"]
    /\ inbox' = [w \in Workers |->
                   IF phase[w] = "down" THEN inbox[w] ELSE inbox[w] \cup {r}]
    /\ UNCHANGED <<claimAge, addAge, album, phase, handler, jobVars, healVars>>

DeleteRow(r) ==
    /\ status[r] \in Present
    /\ status' = [status EXCEPT ![r] = "deleted"]
    /\ UNCHANGED <<claimAge, addAge, album, workerVars, jobVars, healVars>>

\* NOTIFY is fire and forget: an oversized payload, a dead LISTEN socket or
\* a closed listener loses the event for good.
LoseEvent(w, r) ==
    /\ r \in inbox[w]
    /\ inbox' = [inbox EXCEPT ![w] = @ \ {r}]
    /\ UNCHANGED <<rowVars, album, phase, handler, jobVars, healVars>>

\* No handler outlives its budget while its row is still claimed.
WithinBudget(r) ==
    (status[r] = "enriching" /\ \E w \in Workers : handler[w][r] \in Holding)
        => claimAge[r] < HandlerBudget

Older(age, cap) == IF age < cap THEN age + 1 ELSE cap

Tick ==
    /\ \A r \in Rows : WithinBudget(r)
    /\ \E r \in Rows : \/ status[r] = "enriching" /\ claimAge[r] <= TTL
                       \/ status[r] \in {"pending", "enriching"} /\ addAge[r] < AgeCap
    /\ claimAge' = [r \in Rows |-> IF status[r] = "enriching"
                                   THEN Older(claimAge[r], TTL + 1) ELSE claimAge[r]]
    /\ addAge' = [r \in Rows |-> IF status[r] \in {"pending", "enriching"}
                                 THEN Older(addAge[r], AgeCap) ELSE addAge[r]]
    /\ UNCHANGED <<status, album, workerVars, jobVars, healVars>>

\* rotation.discogs_release_id goes from NULL to present.  The resolver also
\* stamps its attempt, which re-opens the row for the W4 pass; a pasted id
\* does not.
RotationResolved(r) ==
    /\ r \in RotationRows
    /\ ~rotationId[r]
    /\ rotationId' = [rotationId EXCEPT ![r] = TRUE]
    /\ \/ attempted' = [attempted EXCEPT ![r] = FALSE]
       \/ UNCHANGED attempted
    /\ UNCHANGED <<rowVars, album, workerVars, jobVars>>

--------------------------------------------------------------------------------
(***************************************************************************)
(* The enrichment worker's handler.                                         *)
(***************************************************************************)

\* handler[w][r] goes to st, and nothing else of the worker changes.
Enter(w, r, st) ==
    /\ handler' = [handler EXCEPT ![w][r] = st]
    /\ UNCHANGED <<phase, inbox>>

\* Every status write of the handler and the job is this one UPDATE: it
\* lands only while the row still has the status the writer started from.
GuardedFlip(r, from, to) ==
    status' = IF status[r] = from THEN [status EXCEPT ![r] = to] ELSE status

\* The listener hands the event to the handler; the payload says 'pending'
\* whatever the row has become since.
Dispatch(w, r) ==
    /\ phase[w] # "down"
    /\ r \in inbox[w]
    /\ handler[w][r] = "idle"
    /\ inbox' = [inbox EXCEPT ![w] = @ \ {r}]
    /\ handler' = [handler EXCEPT ![w][r] = "claim"]
    /\ UNCHANGED <<rowVars, album, phase, jobVars, healVars>>

\* Mutant: the claim narrows by id only.
ClaimAny(w, r) ==
    /\ handler[w][r] = "claim"
    /\ status[r] \notin {"absent", "deleted"}
    /\ status' = [status EXCEPT ![r] = "enriching"]
    /\ claimAge' = [claimAge EXCEPT ![r] = 0]
    /\ Enter(w, r, IF Linked(r) THEN "precheck" ELSE "lookup")
    /\ UNCHANGED <<addAge, album, jobVars, healVars>>

\* Mutant: the claim also takes over rows another worker has claimed.
ClaimTakeover(w, r) ==
    /\ handler[w][r] = "claim"
    /\ status[r] \in {"pending", "enriching"}
    /\ status' = [status EXCEPT ![r] = "enriching"]
    /\ claimAge' = [claimAge EXCEPT ![r] = 0]
    /\ Enter(w, r, IF Linked(r) THEN "precheck" ELSE "lookup")
    /\ UNCHANGED <<addAge, album, jobVars, healVars>>

ClaimWon(w, r) ==
    /\ handler[w][r] = "claim"
    /\ status[r] = "pending"
    /\ status' = [status EXCEPT ![r] = "enriching"]
    /\ claimAge' = [claimAge EXCEPT ![r] = 0]
    /\ Enter(w, r, IF Linked(r) THEN "precheck" ELSE "lookup")
    /\ UNCHANGED <<addAge, album, jobVars, healVars>>

ClaimLost(w, r) ==
    /\ handler[w][r] = "claim"
    /\ status[r] # "pending"
    /\ Enter(w, r, "idle")
    /\ UNCHANGED <<rowVars, album, jobVars, healVars>>

HasLoadBearing(a) == album[a] = "matched"

Precheck(w, r) ==
    /\ handler[w][r] = "precheck"
    /\ Enter(w, r, IF HasLoadBearing(AlbumOf[r]) THEN "cached" ELSE "lookup")
    /\ UNCHANGED <<rowVars, album, jobVars, healVars>>

FinalizeFromCache(w, r) ==
    /\ handler[w][r] = "cached"
    /\ GuardedFlip(r, "enriching", "enriched_match")
    /\ Enter(w, r, "idle")
    /\ UNCHANGED <<claimAge, addAge, album, jobVars, healVars>>

\* LML answered.  A linked row's album is written before its status.
AfterLookup(r, isMatch) ==
    IF Linked(r) THEN (IF isMatch THEN "saveMatch" ELSE "saveNoMatch")
                 ELSE (IF isMatch THEN "flipMatch" ELSE "flipNoMatch")

Answered(w, r) ==
    /\ handler[w][r] = "lookup"
    /\ \E isMatch \in BOOLEAN : Enter(w, r, AfterLookup(r, isMatch))
    /\ UNCHANGED <<rowVars, album, jobVars, healVars>>

\* The match UPSERT rewrites every load-bearing column, whatever was there;
\* the no-match UPSERT writes search URLs only, and creates the row if needed.
SaveMatch(a) ==
    \E form \in MatchForms : album' = [album EXCEPT ![a] = form]

\* Mutant: a plain UPDATE, which finds no row to update.
SaveNoMatchUpdateOnly(a) ==
    album' = [album EXCEPT ![a] = @]

SaveNoMatch(a) ==
    album' = [album EXCEPT ![a] = IF @ = "none" THEN "shell" ELSE @]

SaveAlbum(w, r) ==
    /\ \/ /\ handler[w][r] = "saveMatch"
          /\ SaveMatch(AlbumOf[r])
          /\ Enter(w, r, "flipMatch")
       \/ /\ handler[w][r] = "saveNoMatch"
          /\ SaveNoMatch(AlbumOf[r])
          /\ Enter(w, r, "flipNoMatch")
    /\ UNCHANGED <<rowVars, jobVars, healVars>>

FinalizeRow(w, r) ==
    /\ \/ /\ handler[w][r] = "flipMatch"
          /\ GuardedFlip(r, "enriching", "enriched_match")
       \/ /\ handler[w][r] = "flipNoMatch"
          /\ GuardedFlip(r, "enriching", "enriched_no_match")
    /\ Enter(w, r, "idle")
    /\ UNCHANGED <<claimAge, addAge, album, jobVars, healVars>>

\* An LML throw or a DB error at any await: logged, the row stays as it is.
HandlerFails(w, r) ==
    /\ handler[w][r] # "idle"
    /\ Enter(w, r, "idle")
    /\ UNCHANGED <<rowVars, album, jobVars, healVars>>

--------------------------------------------------------------------------------
(***************************************************************************)
(* The worker process: its sweeps, its end and its restart.                 *)
(***************************************************************************)

\* Mutant: the sweep looks at rows inside the recovery window only.
StrandedRecent(r) ==
    status[r] = "enriching" /\ claimAge[r] > TTL /\ addAge[r] < RecoveryWindow

Stranded(r) == status[r] = "enriching" /\ claimAge[r] > TTL

\* One UPDATE reverts every stranded claim, whoever made it.
Sweep(w) ==
    /\ phase[w] = "up"
    /\ \E r \in Rows : Stranded(r)
    /\ status' = [r \in Rows |-> IF Stranded(r) THEN "pending" ELSE status[r]]
    /\ claimAge' = [r \in Rows |-> IF Stranded(r) THEN 0 ELSE claimAge[r]]
    /\ UNCHANGED <<addAge, album, workerVars, jobVars, healVars>>

\* The hourly streaming re-ask of an album that has an unresolved field.
ReaskAlbum(w, a) ==
    /\ phase[w] = "up"
    /\ album[a] = "reask"
    /\ SaveMatch(a)
    /\ UNCHANGED <<rowVars, workerVars, jobVars, healVars>>

\* SIGTERM: the timers stop and the listener is being closed, but an event
\* already on its way may still be dispatched, and handlers run on.
BeginShutdown(w) ==
    /\ phase[w] = "up"
    /\ phase' = [phase EXCEPT ![w] = "draining"]
    /\ UNCHANGED <<rowVars, album, inbox, handler, jobVars, healVars>>

\* process.exit after the bounded drain, or a crash: what is in flight is gone.
Stop(w) ==
    /\ phase[w] # "down"
    /\ phase' = [phase EXCEPT ![w] = "down"]
    /\ inbox' = [inbox EXCEPT ![w] = {}]
    /\ handler' = [handler EXCEPT ![w] = [r \in Rows |-> "idle"]]
    /\ UNCHANGED <<rowVars, album, jobVars, healVars>>

Start(w) ==
    /\ phase[w] = "down"
    /\ phase' = [phase EXCEPT ![w] = "up"]
    /\ UNCHANGED <<rowVars, album, inbox, handler, jobVars, healVars>>

--------------------------------------------------------------------------------
(***************************************************************************)
(* The backfill job.  One run is a W4 self-heal pass over no-match rows and *)
(* then the drain of pending rows; both go through processRow.              *)
(***************************************************************************)

FromStatus == IF jobPhase = "heal" THEN "enriched_no_match" ELSE "pending"

HealCandidates ==
    {r \in Rows : status[r] = "enriched_no_match" /\ rotationId[r] /\ ~attempted[r]}

PendingCandidates ==
    {r \in Rows : /\ status[r] = "pending"
                  /\ addAge[r] > Grace
                  /\ RecoveryWindow > 0 => addAge[r] < RecoveryWindow}

SliceDone == loaded = {} /\ jobRow = NoRow

StartRun ==
    /\ jobPhase = "idle"
    /\ jobPhase' = "heal"
    /\ todo' = HealCandidates
    /\ UNCHANGED <<rowVars, album, workerVars, loaded, jobRow, jobStep, healVars>>

\* The play-count floor drops no row here: it exempts rows younger than 30 days,
\* and the recovery window is 6 hours.
BuildWorkList ==
    /\ jobPhase = "heal" /\ todo = {} /\ SliceDone
    /\ jobPhase' = "drain"
    /\ todo' = PendingCandidates
    /\ UNCHANGED <<rowVars, album, workerVars, loaded, jobRow, jobStep, healVars>>

FinishRun ==
    /\ jobPhase = "drain" /\ todo = {} /\ SliceDone
    /\ jobPhase' = "idle"
    /\ UNCHANGED <<rowVars, album, workerVars, todo, loaded, jobRow, jobStep, healVars>>

\* The cursor moves past the slice before any of its rows is processed, and
\* the load keeps those that still have the status of the list.
LoadSlice ==
    /\ SliceDone
    /\ \E slice \in SUBSET todo \ {{}} :
         /\ todo' = todo \ slice
         /\ loaded' = {r \in slice : status[r] = FromStatus}
    /\ UNCHANGED <<rowVars, album, workerVars, jobPhase, jobRow, jobStep, healVars>>

NextRow(r) ==
    /\ jobRow = NoRow
    /\ r \in loaded
    /\ jobRow' = r
    /\ jobStep' = "lookup"
    /\ loaded' = loaded \ {r}
    /\ UNCHANGED <<rowVars, album, workerVars, jobPhase, todo, healVars>>

JobAnswered ==
    /\ jobStep = "lookup"
    /\ \E isMatch \in BOOLEAN : jobStep' = AfterLookup(jobRow, isMatch)
    /\ UNCHANGED <<rowVars, album, workerVars, jobPhase, todo, loaded, jobRow, healVars>>

JobSaveAlbum ==
    /\ \/ /\ jobStep = "saveMatch"
          /\ SaveMatch(AlbumOf[jobRow])
          /\ jobStep' = "flipMatch"
       \/ /\ jobStep = "saveNoMatch"
          /\ SaveNoMatch(AlbumOf[jobRow])
          /\ jobStep' = "flipNoMatch"
    /\ UNCHANGED <<rowVars, workerVars, jobPhase, todo, loaded, jobRow, healVars>>

RowDone == jobRow' = NoRow /\ jobStep' = "idle"

\* Mutant: the verdict is written without metadata_attempt_at.
JobWriteNoStamp(to) ==
    /\ GuardedFlip(jobRow, FromStatus, to)
    /\ attempted' = attempted
    /\ RowDone
    /\ UNCHANGED <<claimAge, addAge, album, workerVars, jobPhase, todo, loaded, rotationId>>

\* The status and metadata_attempt_at are written by the same UPDATE.
JobWrite(to) ==
    /\ GuardedFlip(jobRow, FromStatus, to)
    /\ attempted' = IF status[jobRow] = FromStatus
                    THEN [attempted EXCEPT ![jobRow] = TRUE] ELSE attempted
    /\ RowDone
    /\ UNCHANGED <<claimAge, addAge, album, workerVars, jobPhase, todo, loaded, rotationId>>

JobFinalize ==
    \/ jobStep = "flipMatch" /\ JobWrite("enriched_match")
    \/ jobStep = "flipNoMatch" /\ JobWrite("enriched_no_match")

\* A write that fails for good (SQLSTATE class 22 or 23) dead-letters the row.
JobWriteFails ==
    /\ jobStep \in {"saveMatch", "saveNoMatch", "flipMatch", "flipNoMatch"}
    /\ jobStep' = "deadLetter"
    /\ UNCHANGED <<rowVars, album, workerVars, jobPhase, todo, loaded, jobRow, healVars>>

StampDeadLetter ==
    jobStep = "deadLetter" /\ JobWrite("failed_no_retry")

\* A throw of the lookup, LML without Discogs (upstream_unavailable), a
\* transient write error, a dead-letter stamp that fails: the row is left.
JobSkipsRow ==
    /\ jobRow # NoRow
    /\ RowDone
    /\ UNCHANGED <<rowVars, album, workerVars, jobPhase, todo, loaded, healVars>>

\* A rejected bearer, an exhausted pause budget, a crash, or the next cron
\* tick's docker rm: the run ends where it is.
AbortRun ==
    /\ jobPhase # "idle"
    /\ jobPhase' = "idle"
    /\ todo' = {}
    /\ loaded' = {}
    /\ RowDone
    /\ UNCHANGED <<rowVars, album, workerVars, healVars>>

--------------------------------------------------------------------------------
HandlerStep(w, r) ==
    \/ Dispatch(w, r)
    \/ ClaimWon(w, r)
    \/ ClaimLost(w, r)
    \/ Precheck(w, r)
    \/ FinalizeFromCache(w, r)
    \/ Answered(w, r)
    \/ SaveAlbum(w, r)
    \/ FinalizeRow(w, r)
    \/ HandlerFails(w, r)

ProcessStep(w) == BeginShutdown(w) \/ Stop(w) \/ Start(w) \/ Sweep(w)

JobStep ==
    \/ StartRun
    \/ BuildWorkList
    \/ FinishRun
    \/ LoadSlice
    \/ \E r \in Rows : NextRow(r)
    \/ JobAnswered
    \/ JobSaveAlbum
    \/ JobFinalize
    \/ JobWriteFails
    \/ StampDeadLetter
    \/ JobSkipsRow
    \/ AbortRun

Next ==
    \/ \E r \in Rows : InsertRow(r) \/ DeleteRow(r) \/ RotationResolved(r)
    \/ \E w \in Workers, r \in Rows : LoseEvent(w, r) \/ HandlerStep(w, r)
    \/ \E w \in Workers : ProcessStep(w)
    \/ \E w \in Workers, a \in Albums : ReaskAlbum(w, a)
    \/ JobStep
    \/ Tick

Spec == Init /\ [][Next]_vars

--------------------------------------------------------------------------------
(***************************************************************************)
(* Properties.                                                              *)
(***************************************************************************)

\* A linked row shows "match" or "no match" only when album_metadata has a
\* row for its album: finalizeRow and applyEnrichment write the album first
\* and flip second, and a worker or job that dies between the two leaves the
\* album written and the row unanswered, never the other way round.
LinkedVerdictIsReadable ==
    \A r \in Rows :
        /\ Linked(r)
        /\ status[r] \in {"enriched_match", "enriched_no_match"}
        => album[AlbumOf[r]] # "none"

\* The steps that lead to a status flip are taken with the album written.
FlipFollowsSave ==
    /\ \A w \in Workers, r \in Rows :
           /\ Linked(r)
           /\ handler[w][r] \in {"cached", "flipMatch", "flipNoMatch"}
           => album[AlbumOf[r]] # "none"
    /\ /\ jobStep \in {"flipMatch", "flipNoMatch"}
       /\ Linked(jobRow)
       => album[AlbumOf[jobRow]] # "none"

\* Only a linked row is ever at a step that reads or writes its album.
StagesFit ==
    /\ \A w \in Workers, r \in Rows :
           handler[w][r] \in {"precheck", "cached", "saveMatch", "saveNoMatch"}
               => Linked(r)
    /\ jobStep \in {"saveMatch", "saveNoMatch"} => Linked(jobRow)

\* Nobody takes a verdict back.  However late a handler, a sweep or a job run
\* writes, a match and a dead-lettered row stay as they are, and a no-match
\* changes only for the better, by the W4 pass that re-attempts it.
VerdictsAreKept ==
    [][\A r \in Rows :
          /\ status[r] \in {"enriched_match", "failed_no_retry"}
                => status'[r] \in {status[r], "deleted"}
          /\ status[r] = "enriched_no_match" /\ status'[r] # status[r]
                => \/ status'[r] = "deleted"
                   \/ /\ status'[r] \in {"enriched_match", "failed_no_retry"}
                      /\ jobPhase = "heal" /\ jobRow = r
      ]_vars

\* While handlers stay within their budget, a row has at most one handler behind
\* its claim, in whatever order the workers got the event, crashed and came back:
\* the sweep never hands out a row whose lookup is being made (sweep.ts, "TTL
\* derivation").
OneHolder ==
    \A r \in Rows, v, w \in Workers :
        handler[v][r] \in Holding /\ handler[w][r] \in Holding => v = w

\* The self-heal pass does not spin: a row becomes a candidate when its
\* rotation entry changes or when a worker gives it a fresh no-match, never by
\* a no-match the job wrote itself, in either of its passes.
HealedOnce ==
    [][\A r \in Rows :
          r \in HealCandidates' /\ r \notin HealCandidates
              => rotationId'[r] # rotationId[r] \/ status[r] = "enriching"]_vars

\* What a reader of the flowsheet makes of a status.
VerdictOf(st) ==
    CASE st \in {"pending", "enriching"} -> "waiting"
      [] st = "enriched_match"           -> "match"
      [] st = "enriched_no_match"        -> "no_match"
      [] st = "failed_no_retry"          -> "failed"
      [] st = "absent"                   -> "absent"
      [] st = "deleted"                  -> "deleted"

Board == INSTANCE VerdictBoard WITH
    verdict <- [r \in Rows |-> VerdictOf(status[r])],
    known   <- [a \in Albums |-> album[a] # "none"]

\* The whole machinery keeps the promise stated in VerdictBoard.
ImplementsBoard == Board!BoardSpec

--------------------------------------------------------------------------------
(***************************************************************************)
(* Liveness.  The clock runs on; the shutdown of a worker is bounded, so a  *)
(* draining one ends; a stopped container is restarted; and a worker that   *)
(* keeps coming up gets to its start-up sweep again and again.  Nothing is  *)
(* assumed of handlers, of LML, of the CDC stream or of the job.            *)
(***************************************************************************)
Exit(w) == phase[w] = "draining" /\ Stop(w)

Fairness ==
    /\ WF_vars(Tick)
    /\ \A w \in Workers : WF_vars(Exit(w)) /\ WF_vars(Start(w))
    /\ SF_vars(\E w \in Workers : Sweep(w))

LiveSpec == Spec /\ Fairness

\* Answered, or left alone for good behind the recovery window.
Settled(r) ==
    \/ status[r] \in Terminal \cup {"deleted"}
    \/ status[r] = "pending" /\ addAge[r] >= RecoveryWindow

\* No row is lost inside the machinery: whichever worker dies holding it,
\* whichever event or answer never comes, a row does not stay claimed and
\* does not circle between claimed and reverted for ever.
EveryRowSettles == \A r \in Rows : status[r] = "pending" ~> Settled(r)

================================================================================
