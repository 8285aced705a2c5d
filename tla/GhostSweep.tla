----------------------------- MODULE GhostSweep -----------------------------
(***************************************************************************)
(* jobs/flowsheet-ghost-row-sweep with --execute, for one of its tables:   *)
(* page by page it deletes the rows whose legacy id is not in a file of    *)
(* the ids that still exist upstream, and logs a cursor from which the     *)
(* operator goes on.  DELETEs are committed asynchronously, and a crash of *)
(* Postgres may take one back.                                             *)
(***************************************************************************)
EXTENDS Naturals, FiniteSets, FiniteSetsExt

CONSTANTS Rows,        \* ids of the rows that carry a legacy id
          Upstream,    \* those that still exist upstream
          Keyspaces,   \* the files that may be loaded
          BatchSize,
          MaxCrashes   \* bound: crashes of Postgres

ASSUME SweepAssumption ==
  /\ Rows \subseteq Nat \ {0} /\ IsFiniteSet(Rows)
  /\ Upstream \subseteq Rows
  /\ Keyspaces \subseteq SUBSET Upstream
  /\ BatchSize \in Nat \ {0}
  /\ MaxCrashes \in Nat

VARIABLES
  table,     \* the rows as the statements see them
  durable,   \* the rows as a crash would leave them
  pc,        \* idle, scan, delete or verify
  keyspace,  \* the file of this run
  afterId,   \* the cursor given to this run
  lastId,    \* the cursor it logs
  page,      \* the rows read and not yet deleted
  scanned,   \* totals of the run: rows read, and
  flagged,   \*   of those not in the keyspace
  removed,   \* history: the rows that its DELETEs took
  wrote,     \* a DELETE returned
  verified,  \* the re-scan is done up to here
  remaining, \* what it found
  stopping,  \* stopRequested
  result,    \* of the last run: none, stopped, failed, refused or finished
  crashes,   \* history: crashes of Postgres,
  shaken     \*   one since the re-scan of the last run began

sweepVars == <<table, durable, pc, keyspace, afterId, lastId, page, scanned, flagged,
          removed, wrote, verified, remaining, stopping, result, crashes, shaken>>

totals == <<scanned, flagged, removed, wrote>>
files == <<keyspace, afterId>>

SweepInit ==
  /\ table = Rows /\ durable = Rows
  /\ pc = "idle"
  /\ keyspace = {}
  /\ afterId = 0 /\ lastId = 0
  /\ page = {}
  /\ scanned = 0 /\ flagged = 0 /\ removed = {}
  /\ wrote = FALSE
  /\ verified = 0 /\ remaining = {}
  /\ stopping = FALSE
  /\ result = "none"
  /\ crashes = 0 /\ shaken = FALSE

After(id) == {r \in table : r > id}
\* loadBatch: ORDER BY id LIMIT batchSize.
PageAfter(id) == {r \in After(id) : Cardinality({q \in After(id) : q < r}) < BatchSize}
GhostsOf(rows) == rows \ keyspace

\* MAX_GHOST_RATIO 0.5, from the first full page on.
TooMany(seen, ghosts) == seen >= BatchSize /\ 2 * ghosts > seen

-----------------------------------------------------------------------------

\* The operator starts from the logged cursor, or from the beginning.
StartRun(file, id) ==
  /\ pc = "idle"
  /\ id \in {0, lastId}
  /\ keyspace' = file
  /\ afterId' = id /\ lastId' = id
  /\ scanned' = 0 /\ flagged' = 0 /\ removed' = {}
  /\ wrote' = FALSE
  /\ verified' = id /\ remaining' = {}
  /\ stopping' = FALSE
  /\ page' = {}
  \* the floor: GHOST_SWEEP_MIN_KEYSPACE_SIZE 1
  /\ IF file = {} THEN pc' = "idle" /\ result' = "failed"
     ELSE pc' = "scan" /\ result' = "none"
  /\ shaken' = FALSE
  /\ UNCHANGED <<table, durable, crashes>>

End(how) ==
  /\ pc' = "idle"
  /\ result' = how

RequestStop ==
  /\ pc # "idle"
  /\ stopping' = TRUE
  /\ UNCHANGED <<table, durable, pc, files, lastId, page, totals, verified,
                 remaining, result, crashes, shaken>>

\* The head of the loop, for a quiet flowsheet.
Stops ==
  /\ pc \in {"scan", "verify"}
  /\ stopping
  /\ End("stopped")
  /\ UNCHANGED <<table, durable, files, lastId, page, totals, verified, remaining,
                 stopping, crashes, shaken>>

\* A page is read and tested, and the ceiling is checked before its DELETE.
ScanPage ==
  /\ pc = "scan" /\ ~stopping
  /\ page' = PageAfter(lastId)
  /\ page' # {}
  /\ scanned' = scanned + Cardinality(page')
  /\ flagged' = flagged + Cardinality(GhostsOf(page'))
  /\ IF TooMany(scanned', flagged') THEN End("refused")
     ELSE pc' = "delete" /\ UNCHANGED result
  /\ UNCHANGED <<table, durable, files, lastId, removed, wrote, verified, remaining,
                 stopping, crashes, shaken>>

\* Mutant: a DELETE that fails does not hold the cursor back.
FailAhead == End("failed") /\ lastId' = Max(page)

FailBehind == End("failed") /\ UNCHANGED lastId

\* A page without ghosts has no DELETE.
DeletePage ==
  /\ pc = "delete"
  /\ table' = table \ GhostsOf(page)
  /\ removed' = removed \cup (table \cap GhostsOf(page))
  /\ wrote' = (wrote \/ GhostsOf(page) # {})
  /\ lastId' = Max(page)
  /\ page' = {}
  /\ pc' = "scan"
  /\ UNCHANGED <<durable, files, scanned, flagged, verified, remaining, stopping,
                 result, crashes, shaken>>

\* The statement times out, or the connection is lost after its COMMIT.
DeleteFails ==
  /\ pc = "delete" /\ GhostsOf(page) # {}
  /\ table' \in {table, table \ GhostsOf(page)}
  /\ removed' = removed \cup (table \ table')
  /\ FailBehind
  /\ page' = {}
  /\ UNCHANGED <<durable, files, scanned, flagged, wrote, verified, remaining, stopping, crashes, shaken>>

\* loadBatch gives up after 3 attempts; with a stop on the way it was the stop.
LoadFails ==
  /\ pc \in {"scan", "verify"}
  /\ End(IF stopping THEN "stopped" ELSE "failed")
  /\ UNCHANGED <<table, durable, files, lastId, page, totals, verified, remaining,
                 stopping, crashes, shaken>>

\* The table is done.  What was written is read once more.
ScanEnds ==
  /\ pc = "scan" /\ ~stopping
  /\ PageAfter(lastId) = {}
  /\ IF wrote THEN pc' = "verify" /\ UNCHANGED result ELSE End("finished")
  /\ verified' = afterId
  /\ shaken' = FALSE
  /\ UNCHANGED <<table, durable, files, lastId, page, totals, remaining, stopping,
                 crashes>>

VerifyPage ==
  /\ pc = "verify" /\ ~stopping
  /\ PageAfter(verified) # {}
  /\ remaining' = remaining \cup GhostsOf(PageAfter(verified))
  /\ verified' = Max(PageAfter(verified))
  /\ UNCHANGED <<table, durable, pc, files, lastId, page, totals, stopping, result,
                 crashes, shaken>>

VerifyEnds ==
  /\ pc = "verify" /\ ~stopping
  /\ PageAfter(verified) = {}
  /\ End(IF remaining = {} THEN "finished" ELSE "failed")
  /\ UNCHANGED <<table, durable, files, lastId, page, totals, verified, remaining,
                 stopping, crashes, shaken>>

-----------------------------------------------------------------------------
(* Postgres                                                                *)

WalFlush ==
  /\ durable # table
  /\ durable' = table
  /\ UNCHANGED <<table, pc, files, lastId, page, totals, verified, remaining,
                 stopping, result, crashes, shaken>>

\* A DELETE under way fails; between two statements nobody notices, and the
\* next read is retried until Postgres is back.
Crash ==
  /\ crashes < MaxCrashes
  /\ crashes' = crashes + 1
  /\ shaken' = TRUE
  /\ table' = durable
  /\ IF pc = "delete" /\ GhostsOf(page) # {} THEN FailBehind /\ page' = {}
     ELSE UNCHANGED <<pc, result, lastId, page>>
  /\ UNCHANGED <<durable, files, totals, verified, remaining, stopping>>

SweepNext ==
  \/ \E file \in Keyspaces, id \in {0, lastId} : StartRun(file, id)
  \/ RequestStop \/ Stops \/ ScanPage \/ DeletePage \/ DeleteFails \/ LoadFails
  \/ ScanEnds \/ VerifyPage \/ VerifyEnds
  \/ WalFlush \/ Crash

SweepSpec == SweepInit /\ [][SweepNext]_sweepVars

-----------------------------------------------------------------------------
(* Properties                                                              *)

\* The type invariant.
SweepTypeOK ==
  /\ table \subseteq durable /\ durable \subseteq Rows
  /\ pc \in {"idle", "scan", "delete", "verify"}
  /\ keyspace \in Keyspaces \cup {{}}
  /\ afterId \in Rows \cup {0} /\ lastId \in Rows \cup {0} /\ verified \in Rows \cup {0}
  /\ page \subseteq Rows /\ removed \subseteq Rows /\ remaining \subseteq Rows
  /\ scanned \in Nat /\ flagged \in 0 .. scanned
  /\ wrote \in BOOLEAN /\ stopping \in BOOLEAN /\ shaken \in BOOLEAN
  /\ result \in {"none", "stopped", "failed", "refused", "finished"}
  /\ crashes \in 0 .. MaxCrashes

\* Over any sequence of runs, stopped, failed or refused, no ghost is left
\* behind the logged cursor, which the next run starts from, unless Postgres
\* crashed.
NothingBehindCursor ==
  crashes = 0 => \A r \in table \ Upstream : r > lastId

\* A run that says it finished has left none of its ghosts, also those that a
\* crash before the re-scan brought back behind the cursor.
FinishedIsClean ==
  result = "finished" /\ wrote /\ ~shaken => \A r \in GhostsOf(table) : r <= afterId

\* What a run with a truncated file can cost is at most half of what it read,
\* also when a DELETE failed and was done; a table of less than a page has no
\* ceiling, and rows that a crash brings back are counted again.
HalfAtMost ==
  crashes = 0 /\ scanned >= BatchSize => 2 * Cardinality(removed) <= scanned

\* The three together: the cursor has no ghost behind it, a finished run has left
\* none, and the ceiling bounds what a wrong file costs.
SweepIsSound == NothingBehindCursor /\ FinishedIsClean /\ HalfAtMost

=============================================================================
