# WXYC Backend-Service: a TLA+ model

Backend-Service is the API behind WXYC's flowsheet: DJs go live, log what they
play, and listeners read it, with artwork and streaming links that a separate
worker fetches from library-metadata-lookup (LML).  A legacy system,
tubafrenzy, runs beside it and is mirrored in both directions.  This directory
models the parts of it in which processes, requests and messages meet, checks
them with TLC and proves the most important statements with TLAPS.

- [1. The system](#1-the-system)
- [2. What is modelled, and how it corresponds to the code](#2-what-is-modelled-and-how-it-corresponds-to-the-code)
- [3. The runs](#3-the-runs)
- [4. Fairness](#4-fairness)
- [5. The proofs](#5-the-proofs)
- [6. Where code and comments disagree](#6-where-code-and-comments-disagree)
- [7. What is not modelled](#7-what-is-not-modelled)
- [8. What would come next](#8-what-would-come-next)

All paths are relative to the repository root.

## 1. The system

Three kinds of process share one PostgreSQL database: the backend (Express),
the enrichment worker, and cron jobs that run in containers of their own.
Triggers turn every change of a tracked table into a `NOTIFY`; the worker and
the backend listen.

```
 DJ / listener            tubafrenzy
      |  HTTP        mirror ^  | webhook
      v                     |  v
   backend  --- SQL --->  PostgreSQL  <--- SQL --- jobs (backfill, ETL, repair)
      ^                     |                          |
      |  SSE, websocket     | NOTIFY cdc               | HTTP
      |                     v                          v
      +--------------- CDC listeners ---> enrichment worker --limiter--> LML
```

| Component | Its state | Its operations | What makes it hard | What makes it correct |
|---|---|---|---|---|
| **Enrichment worker** `apps/enrichment-worker` | `flowsheet.metadata_status`, `enriching_since`; in memory only the candidates in flight | claim, precheck, lookup, save album, flip status, stranded-claim sweep, shutdown | several workers get the same event; events are lost; a claim outlives its handler; a crash between two statements | a verdict is never taken back; it is given after the album is saved; no row stays claimed |
| **flowsheet-metadata-backfill** `jobs/flowsheet-metadata-backfill` | the list and the slice of its run; `metadata_attempt_at` | self-heal pass, drain, slices, per-row processing, dead letters | its list is minutes old; it runs beside the workers | same as above, and the self-heal pass ends |
| **album_metadata writers** `enrich.ts`, `precheck.ts`, `streaming-reask.ts`, `streaming-merge-sql.ts`, the job's `enrich.ts` | one row per album: status and URL per service, attempts, `updated_at` | match upsert, no-match upsert, re-ask sweep | seconds of lookup between read and write; overlapping upserts; the merge exists in JS and in SQL | a verified link is never lost; a negative verdict stays; the sweep stops |
| **LML client** `shared/lml-client` | permits, waiters, tokens, breaker | `LmlLimiter.run`, `lmlFetch` | a hand-over races a queue deadline; several sleepers wake at once; late reports reach the breaker | permits are conserved; FIFO; the rate holds; the breaker recovers |
| **Show sessions** `flowsheet.controller.ts`, `flowsheet.service.ts`, `internal.route.ts`, `checkShowMember.ts` | `shows`, `show_djs`, `flowsheet` | join, leave, end, force-end, add, delete, webhook | no transactions: a handler is a chain of awaits; four writers of `end_time` | a show ends once and stays ended; the mirror signs off the right show; the DJ on air can sign off |
| **Play order** `flowsheet.service.ts`, `flowsheet.controller.ts` | `flowsheet.play_order`; a mutex in the process | `nextPlayOrder` + INSERT, `changeOrder` | read committed; the mutex covers reorders of one process only | no two entries of a show share a place |
| **Lookup batcher** `lookup-batcher.ts` | a buffer and a timer per lane | buffer, flush, route verdicts | chunks, partial failures, shed verdicts | every caller gets its own verdict or an error |
| **CDC listener** `shared/database/src/cdc-listener.ts` | probe token and time, last dispatched state | probe tick, echo, re-LISTEN | echoes that come late, a NOTIFY that hangs | a dead socket is reported, a live one recovers |
| **Metadata broadcast** `services/metadata-broadcast` | LRU of flags, reads in flight, poisoned marks | CDC event -> cached read -> SSE patch; invalidation | reads overtaken by invalidations; patches out of order | no stale flag is cached; patches of a row keep their order |
| **Lookup coordinator** `services/lml/lookup-coordinator.ts` | LRU, lookups in flight | lookup by key | coalescing, sheds and errors | one lookup per key at a time; a shed is never cached |
| **SSE hub** `utils/serverEvents.ts` | clients, topics, heartbeats | register, subscribe, broadcast, unsubscribe | a socket that closes in the middle of any of them | the maps agree; no dead client stays |
| **Legacy mirror** `middleware/legacy`, `shared/legacy-mirror`, `jobs/legacy-mirror-reconcile` | command queue with retries; id maps; `legacy_entry_id`, `legacy_show_id` | enqueue, work loop, retry, fatal stop; mirror calls; reconciliation | retries return to the head of a queue that has moved on; restarts lose the maps | tubafrenzy gets each entry once, in order |
| **Release deletion and import** `library.service.ts deleteAlbumFromDB`, `jobs/library-etl`, `jobs/legacy-linkage-resolve` | `library`, `library_delete_denylist`, the foreign keys of `rotation` and `flowsheet` | delete with row locks and a count; import of one release; linkage of plays | statements at READ COMMITTED; an import that decides by an earlier SELECT; lock order against foreign-key checks | no stored play loses its release; a deleted release does not come back unnoticed; a DJ's INSERT goes through |
| **Ghost-row sweep** `jobs/flowsheet-ghost-row-sweep` | a cursor, a ceiling on what it may delete | page, delete, stop, resume, verify | asynchronous commits, crashes, a truncated file of ids | no ghost behind the cursor; a finished run left none |
| **Conditional GETs** `conditionalGet.ts`, `watermark-cache.service.ts`, migrations 0084 and 0104 | `flowsheet_watermark`, `library_watermark`; the cached export | triggers, 304, build, join, publish | `now()` is the start of a transaction; headers have seconds; a midnight is folded in | a client that is told 304 has missed nothing |
| **Moderator roster** `internal-slack-moderators.route.ts` | `slack_ban_moderators`, an advisory lock | GET, PUT of the whole roster | READ COMMITTED | an edit replaces what its picker showed |

The remaining parts (authentication, library and search, concerts, request
line, schedules, observability, some forty repair and ETL jobs) have no
protocol between actors, or one that belongs to a library; section 7 lists them
with the reasons.  `PROJECT.json` lists every component with its sources, and
the hazards with the lines where they bite and the properties that watch them.

## 2. What is modelled, and how it corresponds to the code

| Module | Models | Composes |
|---|---|---|
| `EnrichmentLifecycle` | the life of `metadata_status`: workers, sweep, backfill job, clock, crashes, lost events | implements `VerdictBoard` |
| `VerdictBoard` | abstract: what a reader of the flowsheet is promised about verdicts | |
| `AlbumMetadata` | one `album_metadata` row and all its askers | |
| `LmlLimiter` | semaphore, bucket, breaker gate and fetch of `LmlLimiter.run` | extends `CircuitBreaker` |
| `CircuitBreaker` | the methods of `LmlCircuitBreaker` as functions of a record | |
| `LmlLimiterRate` | the limiter with an observer: a stopwatch over the requests sent | extends `LmlLimiter` |
| `ShowSession` | join, leave, end, force-end, add, delete, webhook, one action per SQL statement | implements `ShowBoard` |
| `ShowBoard` | abstract: on the air once, ended once, announced and signed off at most once; a show is closed from a marker only while that marker is its last row | |
| `PlayOrder` | the places of a show's entries | |
| `FlowsheetMirror` | the flowsheet, its copy in tubafrenzy, the webhook and the reconciliation job | |
| `MirrorQueue` | the queue of SQL commands for tubafrenzy | implements `CommandSet` |
| `CommandSet` | abstract: what is queued is sent until it is known to be done, or is lost with all the rest | |
| `LiveFeed` | from a NOTIFY through the cached flag of the album to the broadcast | |
| `CdcProbe` | the liveness probe of a LISTEN connection | |
| `LookupBatcher` | the coalescing of lookups into bulk calls | |
| `LibraryDelete` | a release: its delete, its plays, the linkage job, the import | |
| `GhostSweep` | one table under the ghost-row sweep | |
| `Watermark` | the two watermarks, their readers, the export cache | |
| `ModeratorRoster` | the roster and its edits | |
| `Places` | what a filter keeps of a sequence, for `LiveFeed` and `LookupBatcher` | |
| `EnrichmentLifecycleProofs`, `AlbumMetadataProofs`, `LmlLimiterProofs`, `ShowSessionProofs` (with `PlayOrder`), `MirrorProofs` (`FlowsheetMirror`), `FeedProofs` (`LiveFeed`, `CdcProbe`, `LookupBatcher`), `UpkeepProofs` (`LibraryDelete`, `GhostSweep`, `MirrorQueue`), `TablesProofs` (`Watermark`, `ModeratorRoster`) | theorems | extend the modules they are about, or the `MC` module that puts these side by side |
| `MCAlbumMetadata`, `MCEnrichmentLifecycle`, `MCFlowsheetMirror`, `MCShowSession`, `MCFeed`, `MCUpkeep`, `MCTables` | instances for TLC: symmetry sets, functions that a `.cfg` cannot write, bounds | extend or instantiate the modules they are about |

`MCShowSession`, `MCFeed`, `MCUpkeep` and `MCTables` hold several parts that do
not share state.  A variable `part` is picked at the start; that part runs and
the others stand still, so each is checked by itself in one run.

Some modules contain definitions whose comment begins with "Mutant:".  They
are not part of the specification: each is a plausible mistake in the
definition that follows it, and `PROJECT.json` pairs it with the property that
must fail when it is put in its place.

### EnrichmentLifecycle

The state is `flowsheet.metadata_status` per row with the ages that the
predicates look at (`now() - enriching_since`, `now() - add_time`), the form of
the album's `album_metadata` row as far as the precheck tells forms apart,
each worker's phase, undelivered events and handlers, and the position of the
job in its run.  One action is one SQL statement, or one await between two:

| Code | Actions |
|---|---|
| INSERT of a track and its trigger, DELETE | `InsertRow`, `DeleteRow`; `LoseEvent` for an oversized payload or a dead socket |
| `makeEnrichmentHandler`, `claimRow` | `Dispatch`, `ClaimWon`, `ClaimLost` |
| `hasLoadBearingAlbumMetadata`, the cached finalize | `Precheck`, `FinalizeFromCache` |
| the lookup, `finalizeRow` | `Answered`, `SaveAlbum`, `FinalizeRow`; `HandlerFails` at any await |
| `sweep.ts`, `worker.ts` | `Sweep`, `BeginShutdown`, `Stop` (exit or crash), `Start`, `ReaskAlbum` |
| `orchestrate.ts`, `worklist.ts`, the job's `enrich.ts` | `StartRun`, `BuildWorkList`, `LoadSlice`, `NextRow`, `JobAnswered`, `JobSaveAlbum`, `JobFinalize`, `JobWriteFails`, `StampDeadLetter`, `JobSkipsRow`, `FinishRun`, `AbortRun` |

Ages are capped where no predicate can tell them from larger ones, so the state
space is finite without a bound on time.  `HandlerBudget` is the longest a
handler keeps a claim; a value above `TTL` means no limit.  The answer of LML is
a free choice.  The list of the job is a set: its priority order, its lookup
cache and its pauses are left out.

### AlbumMetadata

The row has a status and a URL per streaming service, whether it is matched,
and the attempt counter.  Askers are handlers (plays), sweeps and rows of the
job; each asks, is answered or fails, begins its upsert (that is when Postgres
fixes `NOW()`), and lands or is dropped.  `begun` holds the upserts under way in
the order of their `NOW()`; when one lands, those that began before it become
`late`, and `WHERE updated_at < NOW()` drops them.  Equal timestamps are left out.

`Said` is what LML may say of a service after `sanitizeLookupStreamingUrls`;
`Incoming`, `Merged`, `Displayed` are the JavaScript rules and `Conflict` the
CASE expressions of the `ON CONFLICT` clause.  The answer is chosen in the step
that writes, which is the same as choosing it when it arrives, since nothing in
between looks at it.  Abstractions: a match always has artwork or a Discogs URL;
services without a status column (YouTube, SoundCloud) and other writers of the
row are left out.

### LmlLimiter, CircuitBreaker

A call is idle, queued, granted, sleeping for a token, fetching, or reading a
body.  `Call` is the breaker gate and `acquire`; `QueueTimeout` the waiter's
deadline; `TakeToken` one turn of the loop in `consume`; `HeadersArrive`,
`Ends`, `FetchTimeout` the fetch; `Release` the hand-over.  Time is in ticks; a
timer that is due fires before the next tick, but in any order with whatever
else happens in that tick, as in the event loop.  A token costs `TokenTicks`
units and a tick earns one, which keeps the fractional count of the code exact.
`asProbe` remembers which calls were let in by a breaker that was not closed; the code
does not store it and no action reads it: it serves `ProbeIsUnderWay`.

### ShowSession

None of the handlers opens a transaction, so each action is one SQL statement
and the JavaScript up to the next await; `call[r]` holds what request `r` has
read so far.  `Fail` ends a request at any point: a statement that throws, or a
process that dies.  A show's flowsheet rows are a sequence in the order of their
ids, and a deleted row stays in it as `gone`.

| Code | Actions |
|---|---|
| `joinShow` | `Join`, `IsLatestEntryShowEnd`, `Backfill`, `StartShow`, `StartMember`, `StartMarker`; `IsDjAlreadyActive`, `AddDJToShow`, `AddDJInsert`, `AddDJReactivate`, `JoinMarker` |
| `showMemberMiddleware` | `ShowMember`, `IsMember` |
| `leaveShow` | `LeaveShow`, `LeaveDeactivate`, `LeaveMarker` |
| `addEntry`, `deleteEntry` | `AddEntry`, `AddTrack`, `DeleteEntry` |
| `forceEndShow` | `ForceEndShow`, `ForceLatest`, `ForceMarker` |
| `endShow` | `EndShow`, `RemainingDJs`, `Deactivate`, `GuestLeaves`, `BranchFails` (the branches of `Promise.all`), `EndMarker`, `Reply` |
| `flowsheet-webhook` | `Webhook`, `WebhookStub`, `WebhookEntry`, `WebhookClose`, `WebhookDelete` |

A `notice` is a `dj_join` or `dj_leave`.  The webhook may name any show, and may
repeat or reorder deliveries, also of entries that began here.  Places are in
`PlayOrder`.  Deletion of an account, the development bypass of the membership
check and display names are left out.  Two behaviours the model has and no
property forbids: two go-lives at once may start two shows, and a `startShow`
that fails after its first INSERT leaves an open show whose primary DJ is no
member of it, until the next go-live.

### PlayOrder

| Code | Actions |
|---|---|
| `nextPlayOrder`, then the INSERT of `addTrack` | `AskPlace`, `InsertRow`, `InsertFails` |
| `flowsheet-webhook` | `WebhookInserts`, with a number of tubafrenzy |
| `removeTrack` | `RemoveRow` |
| `changeOrder` inside `orderMutex` | `SelectRow`, `ShiftRows`, `PlaceRow`, `MoveFails` |

One process, as deployed.  Names of deleted rows are used again.  `raced`
records that two of these met: `OrderIsKept` is about rows that did not race,
since the code does not prevent ties.  It says what a move, and the mutex between
moves, may do; that two adds, or an add and a move, end up with one number is a
behaviour of the model that no property forbids.

### FlowsheetMirror

The handlers of the mirror run after the reply has gone out, so a reply and its
handler are different steps, and handlers overlap.

| Code | Actions |
|---|---|
| the replies of go-live, add, end, update, delete | `GoLive`, `AddEntry`, `EndShow`, `UpdateEntry`, `DeleteEntry` |
| `flowsheet.mirror.ts` after the reply | `MirrorCreateShow`, `MirrorSignoff`, `MirrorAnnouncement`, `MirrorCreateEntry`, `PersistLegacyEntryId`, `MirrorUpdateEntry`, `PatchDone`, `MirrorDeleteEntry`; `RunDelete` and `QueueDies` for the queue |
| tubafrenzy and its webhook | `TubafrenzyAdds`, `WebhookUpsert`, `WebhookDelete` |
| `legacy-mirror-reconcile` | `JobStart`, `JobCreatesShow`, `JobSelects`, `JobTakesShow`, `JobPosts`, `JobPostFails`, `JobPersists`, `JobSignsOff`, `JobFinishes`, `JobAborts` |
| time, deployments | `Ages` (settle and recency bounds), `Restart` (the id caches are lost) |

A POST whose answer is lost has been carried out; `MaxLost` bounds how often.

### MirrorQueue and CommandSet

`Enqueue`, `Executes`, `Succeeds`, `Dies`, `Fails`, `Reported`, `FatalReported`
and `Retry` are `instance`, `kick`, `workLoop`, `handleFailure` and
`fatalStop`.  A failed command waits outside the queue and returns at its head.
`CommandSet` forgets order, backoff and the succession of queues: it has the set
of outstanding commands and the one being sent.  The run checks that each step
of the queue is a step of it or a stutter, and that each command settles.

### LiveFeed

One action is one macrotask: what promises chain onto a settled read runs
before anything else.  `WriteRow` and `WriteAlbum` are the triggers,
`ConnectionBreaks` loses what is under way, `HandlePlay` and `HandleChange` the
handlers of `onCdcEvent`, `QueryRuns` the moment the query sees the database,
`ReadSettles` and `ReadFails` the continuation, `Expires` the TTL of the cache.

Not all that is notified is meant for listeners.  `PassesFilter` is
`filterMetadataInsert` and `filterMetadataUpdate`: the INSERT of a track whose
`add_time` is older than `LIVE_FS_INSERT_MAX_AGE_HOURS` (24 by default) is taken
for an import and is not broadcast, on purpose, and neither is an UPDATE that
does not leave a terminal `metadata_status`, such as a claim.  `HandlePlay`
consumes these without a lookup (`FilterOut`).  Which rows and versions they are
is given by the constants `Historical` and `TerminalUpdates`; rows that are not
tracks are left out.  `EveryPlayGoesOut` is about what passes.

### CdcProbe

`Passes` moves the clock, `Tick` is `runProbeTick` (`GiveUp`, `Arm`),
`NotifySent` and `NotifyFails` the NOTIFY over the pool, `Echo` the handler of
`cdc_health`, `Drops` and `Relistens` the connection.  `Latency` is what the
code makes of its two settings: `Interval + Interval * ceil(Timeout / Interval)`.

### LookupBatcher

`Enqueue`, `FlushBuffer` (`Parts` by lane, `Slices` by size, `Suppressed`,
`Dispatch`), `Answered`, `Fails`.  LML may answer short, in another order, or
with items shed.

### LibraryDelete

| Code | Actions |
|---|---|
| `addTrack` and the webhook; `resolveFlowsheetAlbumIds` | `InsertPlay`, `ResolvePlay`, then `ForeignKeyCheck` once per reference, `StorePlay` |
| `resolveRotationAlbumIds` | `LinkRotation` |
| `deleteAlbumFromDB` | `DeleteBegins`, `DeleteLocksAlbum`, `DeleteLocksRotation`, `DeleteCountsLinked`, `DeleteCountsLegacy`, `DeleteCommits`, `DeleteStandsDown` |
| `library-etl`, one release | `EtlBegins`, `EtlChecks`, `EtlFinds`, `EtlUpdates`, `EtlPreflight`, `EtlUpserts`, `EtlReconciles`, `EtlCommits`, `EtlFails` |

Row locks are modelled as far as they exclude each other: `FOR UPDATE` of the
delete against `FOR KEY SHARE` of a foreign-key check.  Which of a play's two
references Postgres checks first is a free choice (`first`); a cycle ends when
the delete reaches its `lock_timeout`.  Postgres's own deadlock detector is not
modelled: the `lock_timeout` is set below its `deadlock_timeout`
(`library.service.ts:2827`) so that the delete gives up first, and
`PlayIsNotStuck` does not rely on the detector.

### GhostSweep

`StartRun`, `RequestStop`, `Stops`, `ScanPage`, `DeletePage`, `DeleteFails`,
`LoadFails`, `ScanEnds`, `VerifyPage`, `VerifyEnds` are `runSweep`, `runTarget`
and `countRemainingGhosts`.  DELETEs run with `synchronous_commit = off`:
`WalFlush` makes them durable and `Crash` may take one back.

### Watermark

| Code | Actions |
|---|---|
| a transaction that writes the table; the trigger | `Begin`, `Write` (`Bumped`), `Commit`, `RollBack` |
| `conditionalGet` | `Passes` (the 304 is `NotModified`: nothing changes) |
| `GET /flowsheet` | `Reads` |
| `createWatermarkCache().get` | `ReadsMark`, `AnswersFromCache`, `JoinsBuild`, `StartsBuild`, `Scans`, `Publishes`, `BuildFails` |

`now()` in the trigger is the time of `Begin`; the row of the watermark is
locked from the first `Write` to the end.  Time is in half seconds, because
headers are compared in seconds and the cache compares exactly.  `table` picks
the formula (the flowsheet adds a second, the catalog does not), the provider
(the flowsheet folds in midnight) and the handler.  Database and backend share
a clock.

### ModeratorRoster

`OpensPicker` is the GET and the choice; `Locks`, `Compares`, `Refuses`,
`Deletes`, `Inserts`, `Commits`, `RollsBack` are the statements of the PUT.
Uncommitted deletes and inserts are visible to no one and make others wait, so
the model does not depend on the advisory lock to be meaningful.

## 3. The runs

| Run | Instance | Checks | Distinct states |
|---|---|---|---|
| `LifecycleTwoWorkers` | 2 workers, 1 linked rotation row, TTL 1, no handler limit | `LinkedVerdictIsReadable`, `HealedOnce`, `ImplementsBoard`, `EveryRowSettles` | 417,060 |
| `AlbumWorker` | 2 plays, 1 sweep; a service with fallback and one without; 2 links; cap 2 | `MergeAgrees`, `SearchIsOffered`, `VerifiedIsKept`, `SweepSettles` | 4,950 |
| `LimiterSmall` | 4 calls, 2 permits, burst 1, 2 ticks per token, breaker threshold 2, window 5 | `PermitsInUse`, `ProbeIsUnderWay`, `NoOvertaking`, `RateRespected`, `BreakerRecovers` | 808,581 |
| `ShowHandlers` | 2 DJs, 2 requests at once, 2 shows, 3 rows, 4 calls; places: 3 rows, 2 moves, numbers to 4 | `PartsTypeOK`, `HostCanSignOff`, `ImplementsBoard`, `OrderIsKept` | 370,834 |
| `Mirror` | 1 show, 2 handlers, 2 entries, 1 lost answer | `CopiesAreRight`, `HealedInOrder` | 500,385 |
| `Feed` | feed: 2 rows (1 imported), 3 and 2 versions, 1 album, 2 reads, 2 changes, 1 lost; probe: interval 2, timeout 5; batcher: 4 callers, 2 per call; lifecycle with handlers within the TTL | `PartsTypeOK`, `CacheFresh`, `RowsInOrder`, `DeathIsSeen`, `LookupsAreOwn`, `OneHolder`, `EveryPlayGoesOut`, `LifeIsSeen`, `EveryLookupSettles` | 165,588 |
| `Upkeep` | delete: 1 play, 2 ids; sweep: 6 rows in pages of 2, 4 files, 1 crash; mirror with edits and deletes off; queue: 3 commands, 2 attempts, 2 queues | `PartsTypeOK`, `ResurrectionIsReported`, `SweepIsSound`, `PlaysKeepTheirLinks`, `PlayIsNotStuck`, `ShowsHeal`, `ImplementsCommandSet` | 54,380 |
| `Tables` | watermark: 2 clients, 3 transactions, 3 half seconds around a midnight; roster: 3 edits, 2 members; album: 2 plays, 1 sweep, 1 row of the job | `PartsTypeOK`, `NothingIsMissed`, `EditReplacesWhatItSaw`, `AttemptsBounded`, `AbsentIsTerminal` | 792,128 |
| `AlbumJobClobbers` | 1 play, 1 row of the job | `VerifiedIsKept`, violated |  |
| `MirrorDoublePost` | 1 handler, nothing lost | `NoDoublePost`, violated |  |
| `DeleteResurrects` | as `Upkeep` | `DeletedStaysDeleted`, violated |  |
| `CatalogMissed` | 2 clients, 2 transactions | `OnlySameSecondIsMissed`, violated |  |

The type invariants of the lifecycle, of the feed, the probe and the batcher are
in `PartsTypeOK` of `Feed`; those of the album, the watermark and the roster in
that of `Tables`; all are theorems, for any constants.

Why the bounds are enough for the cases that matter:

- **Lifecycle.**  Two workers are the fewest that race for a claim, and one of
  them can crash, be restarted and come second to its own earlier claim.  TTL 1
  leaves room for a claim below, at and above it; a recovery window of 2 for a
  row that the job still takes and one that it has given up.  Rows share an
  album only in what the album looks like, and any album may change between any
  two steps of a handler (`ReaskAlbum`, the job).
- **Limiter.**  Two permits and four calls give two holders and two waiters: the
  fewest with which order among waiters means something.  Burst 1 and two ticks
  per token make sleepers collide, and timeouts of 1 and 2 put a failure before
  and after a queue deadline of 1.
- **Album.**  Two plays and a sweep overlap in every order; a third concurrent
  upsert is either late or not, like the second.  Two links tell an
  overwritten URL from the same one.  A cap of 2 has one attempt below it and
  one that reaches it.
- **Shows.**  Two requests at once are what each race in the hazard list needs;
  four calls in all let a show start, be joined, be ended and be followed by the
  next, or be ended twice and replied to late.  Three rows hold a `show_start`,
  an entry and a `show_end`.  The number of calls is bounded by a CONSTRAINT in
  `MCShowSession`, by a counter that no action reads.  Three rows and two moves
  give a move that shifts over another, with an insert between its statements.
- **Mirror.**  Two handlers overlap; two entries have an order that can go
  wrong, with the job, the live path and tubafrenzy as authors; one lost answer
  is what each repair has to face.
- **Feed.**  A read that is overtaken needs one album, a change, and a second
  read; a second change, a read that is over while its successor can be joined.
  An insert and an update of a row, and a second row beside it, are what
  order is about: the linked row is inserted, claimed and enriched; the other is
  an import, of which only the enrichment is broadcast, and has two versions
  (`R2IsShort` in `MCFeed`).  Timeout 5 is not a multiple of interval 2, so the tick that
  sees it is later than the timeout.  Four callers of two lanes and two items per call
  fill a call, split a lane and mix lanes.
- **Upkeep.**  One play, and rotation entries to go through, make the cycle of
  locks; two ids let a release be deleted and come back.  Six rows in pages of
  two have a first, a middle and a last page.  Two attempts and two queues let
  a queue die with commands waiting, queued and being sent.
- **Tables.**  Three transactions are one that is late, one that overtakes it
  and one that makes up for it; two clients build, join and publish for
  different watermarks.  Three edits are two that collide and one that comes
  after.

Symmetry is used in runs that check safety only.  `CHECK_DEADLOCK FALSE` is set
where the system may really stop (an album that is settled is not asked about
any more, a command queue is empty) or a bound stops it.

## 4. Fairness

- **Lifecycle** (`EveryRowSettles`): the clock runs (`WF Tick`); a draining
  worker exits, because `drainInFlightCandidates` and the other shutdown steps
  are bounded (`WF Exit`); a stopped container is restarted (`WF Start`); and
  some worker's sweep is not put off for ever (`SF` of a sweep by any worker:
  `worker.ts` runs one at every start and then every minute).  Nothing is
  assumed of handlers, of LML, of the delivery of events or of the job.
- **Limiter** (`BreakerRecovers`): the clock runs; a caller whose turn it is
  takes its token; timers fire; LML answers in the end (`WF Ends`); and
  requests keep coming, in the sense that some call is made if calls are
  admitted again and again (`SF`).  Without callers an open breaker stays open:
  it has no timer of its own, and the code does not claim otherwise.
- **Album** (`SweepSettles`): the hourly sweep comes round (`WF SweepAsks`), a
  lookup that is retried for ever succeeds now and then (`SF BeginWrite`, the
  alternative being `LookupFails`), and an upsert that has begun ends (`WF`).
- **Feed** (`EveryPlayGoesOut`, `LifeIsSeen`, `EveryLookupSettles`): the event
  loop handles what was notified and a query that was sent runs and settles or
  fails (`WF Handle`, `QueryRuns`, `ReadSettles`); the interval timer fires and
  what the pool and the connection have accepted is delivered (`WF Tick`,
  `NotifySent`, `Echo`), and a probe that is sent again and again gets its
  echo now and then (`SF SendCurrent`, `EchoCurrent`): a connection of
  which no probe ever returns is not a live one; the flush timer fires and a
  bulk call ends (`WF FlushBuffer`, `CallOfEnds`), which its client's timeout
  ensures.
- **Upkeep**: a lock that is free again and again is granted in the end (`SF
  ForeignKeyCheck`), the delete goes on or stands down (`WF Delete`,
  `DeleteStandsDown`), because its `lock_timeout` is finite; the nightly job
  starts and goes on, and a request that it makes night after night succeeds
  now and then (`SF JobSelects`, `JobCreatesShow`, `JobTakesShow`, `JobPosts`,
  `JobPersists`); the loop and the retry timers of the queue run (`WF
  LoopGoesOn`, `Retry`).
- **Shows, watermark, roster**: safety only.  Handlers may stop at any await.

## 5. The proofs

Each theorem holds for every value of the constants that satisfies the named
assumptions in the module (`LifecycleAssumption`, `AlbumAssumption`,
`BreakerAssumption`, `LimiterAssumption`, `WindowAssumption`, `ShowAssumption`,
`OrderAssumption`, `MirrorAssumption`, `QueueAssumption`, `DeleteAssumption`,
`SweepAssumption`, `FeedAssumption`, `ProbeAssumption`, `BatcherAssumption`,
`WatermarkAssumption`, `RosterAssumption`; `MCFeed` adds `InstanceAssumption`).  They ask for little more than
types; TLC evaluates them on the run of each module.  Three say more: `Midnight`
is a whole second of the clock (a tick is half a second), which it is; the rows
of `PlayOrder` are finitely many; and `OneHolderPerRow` alone assumes
`HandlerBudget <= TTL`, which is how sweep.ts derives its TTL.

**EnrichmentLifecycleProofs.**  `TypeCorrect` is inductive by itself.
`FlipFollowsSave` (a handler or job run at a status flip has its album written)
needs `StagesFit`: only a linked row is at a step that touches an album.  From
the two, `LinkedVerdictIsReadable` follows, since only a flip gives such a
verdict and no action removes an `album_metadata` row.  `VerdictsAreKept` needs
no timing assumption at all: every status write is `GuardedFlip`, and the two
statuses it starts from are never final.  `OneHolder` is inductive with
`ClaimsAreInTime`: a claim somebody is behind is not pending and no older than
the budget, so the sweep, which is the only way back to pending, leaves it.
`HealedOnce` is an action property of `TypeOK` alone: each of the job's writes
stamps the row it writes.  `RefinesBoard` maps each action to a step of
`VerdictBoard` or to a stutter.

**LmlLimiterProofs.**  The invariant is `TypeOK` with `QueueIsWaiters`,
`NobodyWaitsInVain` and `PermitsAccounted`; none of the last three is inductive
without the others: a hand-over keeps the sum only if the head of the queue is
a call that waits.  `Release` caps the count at the maximum as the code does;
`PermitsAccounted` shows that the cap is never reached by a holder.  `NoWedge`
(`ProbeIsUnderWay`) is separate.  `RateKept` rests on an invariant that adds up
what was sent in the window and what is left in the bucket, and compares it
with the burst and the ticks gone by.

**AlbumMetadataProofs.**  `BaseInv` is `TypeOK` with two facts about the row: a
matched album has one, and an album without one is blank.  `ShowInv` adds what
the worker's upserts keep for every service: with a fallback it shows the
search URL unless it is verified, without one it shows verified links only.  On
such rows the JavaScript rules and the SQL rules agree (`MergesAgree`); on
arbitrary rows they do not, which is why the invariant is needed.  `BudgetInv`
counts the askers that are away against the attempts still to be spent.

**ShowSessionProofs.**  `EndInv` has four parts: a request that is about to end
a show knows one (`EndersKnow`); a request past the compare-and-set has its show
to itself - closed by a host or operator, its marker in only when the reply is
next, not signed off, and no other request past it for the same show
(`ClosingOwns`); and the two properties `EndsOnce` and `SignOffOwnShow`.  Most
actions disturb nothing of this and are handled by one lemma about "mild"
steps.  `ShowsCloseForGood` and `RefinesShowBoard` follow.

`HostCanSignOff` needs to know what a handler counts on between its statements
(`CallersFit`): a go-live that is about to announce its show has made its DJ an
active member of it, and whoever leaves as a guest is not the host of the show
they leave.  `BegunHaveHosts` adds that an announced show has a host.

`OrderIsKept` of `PlayOrder` rests on `Calm`, which holds until an add has raced:
the numbers differ, a number that was asked for is beyond all there are, and a
move knows exactly the rows between its two ends, each one further
(`MoveIsExact`).  Once the rows in between are shifted and the moved row is
placed, the places are those of before, permuted.

**MirrorProofs.**  `CopiesStayRight` and `ShowsHealInOrder` share an invariant
of four parts, because the live handlers, the webhook and the job write the
same columns.  `TiesInv`: every number that an entry, the cache or a handler
holds is that of a copy of the entry it is held for, and what has a copy was
logged here.  `OnceInv`: a row is posted by one handler at most, once, and a
marker is looked for by one handler only and before it was posted - the
handlers find a marker by its type and not by its id, so it matters that no
second one is about.  `JobInv`: the job's list is in order, what is on it has no
copy of the job's that it knows of, and before an entry on it every entry of
its show is on it too or has a copy.  The fourth part is `HealedInOrder`
itself; it is kept because the job takes the first of the list and stops at the
first failure.  One lemma says of a step what it does to entries and copies
(`Effects`: numbers are given once, copies are added at the end, nothing
changes its entry), and each part is shown to survive any such step that leaves
the handlers, or the job, alone.  `InPlayOrder` is defined by CHOOSE; that the
sequence it picks exists is shown by ranks (`Places`).

`MirrorTypeCorrect` is mostly the bound on the number of copies in tubafrenzy,
`MaxCopies`, for any number of entries and any `MaxLost`.  A copy is of one of
three kinds, and each is small (`CountInv`): the live mirror's and those that
began in tubafrenzy, one for each entry; the job's whose number was not lost
(`Plain`), one for each entry too; and a set of the job's whose number was lost
(`Astray`), which no entry has, so that `MayLose` counts them.

**UpkeepProofs.**  `LinksAreKept` (no delete sets the link of a stored
play to NULL) is about locks: a write that has been checked holds its parents
(`HoldsParent`), every stored reference was checked (`IsChecked`), and the
delete's locks and a check's lock on one row exclude each other
(`DeleteExcludes`).  `DeletedIsReported` needs to know what an import may have
inserted since its last look at the denylist (`ImportInserts`).

`SweepSound`: no ghost stays behind the cursor (`CursorInv`), a run that says it
finished has left none (`CleanInv`), and the rows removed are at most half of
the rows read (`HalfInv`), for any table, page size and file.  The last rests on
facts about the page after a cursor - its size, that it leaves nothing out -
which are lemmas about the least and greatest element of a finite set.

`QueueKeepsPromise` is the safety of `ImplementsCommandSet`, step by step: what
is outstanding is what the last queue holds, in line, in hand or behind a timer
(`LastView`), because every command is in exactly one of these places and every
queue but the last is dead (`QueueInv`).  Then a retry, which moves a command
from a timer to the head of the line, is a stutter, and a fatal stop is the loss
of all of them.

**FeedProofs.**  `CacheIsFresh`: a cached flag is the one of the database,
or a notification that will invalidate it is still to come.  The invariant
follows a value from the query to the cache: no read is ahead of the database
(`NothingFromAhead`), a read that is behind is marked or its notification is
under way, and what a caller joins is a read that is under way
(`ReadsAreFound`, `JoinedAreUnderWay`).

`RowsComeInOrder` adds to it that the versions of a row on the stream are in
order and ahead of all that the feed has (`StreamInOrder`, `StreamIsAhead`), a
version waits at one place and was not sent (`WaitersAreApart`), and, until a
change of an album is heard, there is no read of it beside a cached flag or
another read (`OneReadAtATime`), so that the versions of its rows wait in order
at one read, after those that were sent (`WaitersInOrder`).  `FeedTypeCorrect`
adds that a flag, in the cache or read, is one committed version of its album
(`FlagsFit`).

`DeathIsSeenInTime`: after its socket died a listener is called healthy for
`Latency` at most, for every interval and timeout that fit.  The invariant
bounds the age of the outstanding probe by the tick that will give it up
(`ProbeAge`) and the time since the death by what is left of it
(`DeathIsYoung`).

`EveryLookupIsOwn` is about what `flushBuffer` makes of the buffer: the callers
of a chunk are of one lane and different, so the item that carries the index of
a caller's place answers that caller, in whatever order LML lists the items.

**TablesProofs.**  `NoChangeIsMissed`: what a client or the export cache holds
is complete up to its mark (`UpTo`), or is the flowsheet of today at midnight.
Writers take turns (`OneHasTheRow`, the row lock of the trigger's UPDATE), a
request that was let past carries a time of the past (`RequestsAreInTime`), and
a build that is joined runs for the mark of those who wait (`BuildsRun`).
`EditsReplaceWhatTheySaw`: an edit at work holds the advisory lock
(`LockIsHeld`), so what it compared with, deleted and inserted is still true of
the roster when it commits (`WorkIsCurrent`).

**The runs that put parts side by side.**  `FeedPartsTypeCorrect`,
`UpkeepPartsTypeCorrect`, `TablesPartsTypeCorrect`, `ShowPartsTyped` and
`OneHolderInFeed` carry over to these runs what is proved of their parts: each
step of the run is one of a part and leaves the variables of the others alone
(`PartsStart`, `PartsStep`).  Where the run gives a part its constants in
INSTANCE, it instantiates the module of the part's proofs, and a lemma shows
that the constants meet the assumptions of the part.

Model-checked only:

- the liveness properties `EveryRowSettles`, `BreakerRecovers`, `SweepSettles`,
  `EveryPlayGoesOut`, `LifeIsSeen`, `EveryLookupSettles`, `PlayIsNotStuck`,
  `ShowsHeal` and the liveness of `CommandSet` in `ImplementsCommandSet`:
  liveness under fairness needs ENABLED, which is out of the prover's reach.
  Of `ImplementsCommandSet` the safety part is proved (`QueueKeepsPromise`).

Every invariant that a run checks is stated by a theorem.

## 6. Where code and comments disagree

Four runs check what a comment in the repository says and find it violated.
`PROJECT.json` quotes the lines.

1. `AlbumJobClobbers`: the backfill job is said not to overwrite a fresher
   enrichment, because its upsert carries `updated_at < NOW()`.  `NOW()` is the
   time of the upsert, after the lookup, so the guard holds nearly always; a
   link that a play verified in the meantime is replaced and its status stays
   `verified`, so nothing asks again.
2. `MirrorDoublePost`: the settle bound of the reconciliation job is said to
   keep it from an entry that is just being mirrored.  It compares the start of
   the show; a show that has no number yet and has been open for longer passes
   it while a track of it is on its way.
3. `DeleteResurrects`: a release that the import inserts although it was
   deleted is said to be deleted again.  The set that decides this is filled by
   a SELECT before the upsert; a delete between the two is only reported.
4. `CatalogMissed`: the formula of the catalog's watermark is said to give up
   nothing but to tell transactions of one second apart.  `now()` is the start of a
   transaction; one that begins first and commits last leaves the watermark
   where the other one put it, and clients and the export cache miss it until
   the next write.

Read off the code while modelling, and not stated by a run:

- `flowsheet.service.ts:93-97`, `0084_flowsheet-updated-at.sql:39-46`: the
  midnight that `getLastModifiedAt` hands out is stored nowhere.  A write
  stamped with the first second of the day, or by a transaction that began
  before it, hides behind that midnight; and a watermark that a burst of
  statements has pushed past midnight, a second each, keeps yesterday's feed
  "not modified" after it.  `NothingIsMissed` excepts exactly these two.
- `flowsheet.service.ts:1178-1183` says that ending the show before writing the
  marker makes a concurrent add fail its guard; `flowsheet.controller.ts:614`
  reads the guard once, several awaits before the INSERT, and the add lands
  after the `show_end`.
- `cdc-listener.ts:263-265` puts the detection of a dead socket at 35 s; with
  its defaults the tick that sees the timeout comes at 40 s.
- `metadata-broadcast.ts:360-368` keeps insert and update of a row in order by
  their shared read; after an invalidation they wait for different reads.
- `orchestrate.ts` of the ghost-row sweep, 632-634: a truncated file is said to
  trip with nothing removed; one that has lost its tail is complete for the
  first pages.  The bound of one half does not hold after a crash of Postgres,
  nor for a table of less than a page.
- `flowsheet.mirror.ts:435-438`: the fallback of `updateEntry` is never reached.
- `commandqueue.mirror.ts:99-101`: a dead queue is said to go on draining; its
  loop stops when it is not alive, and commands in backoff at that time are in
  no report.
- `orchestrate.ts:357-360` of the reconciliation job: a show that was posted in
  part is said to be appendable by the next run; the selection drops it.
- `lookup-batcher.ts:138-140`: a permit is said to be held for 29 s at most;
  `lml-client/src/index.ts:744` reads the body after the abort timer is cleared.
- `streaming-url-guard.ts:17-19`: a rejected link is said to be replaced by the
  search URL; `enrich.ts:285` leaves the verdict `verified` and stores nothing.
- `docs/env-vars.md:145` calls the wait for a token after admission small, some
  1.2 s; whoever wakes first takes the token, so a sleeper may have to sleep
  again, several times, and holds its permit all the while.
- `flowsheet.controller.ts:1066`: positions "are serialized starting at 1"; they
  may have gaps, ties, and 0.

## 7. What is not modelled

Listed with sources and reasons in `PROJECT.json`; in short:

- `SseHub` (`serverEvents.ts`): every operation is synchronous, so no two
  interleave; the lookup coordinator: `cache.set` and `inflight.delete` are
  steps of one promise chain; the CDC dispatcher: one map of clients.  What
  could go wrong in them is a mistake in straight-line code, which tests reach;
- further writers of the modelled tables: `jobs/streaming-url-upgrade`,
  `apple-music-url-backfill`, `flowsheet-no-match-recheck`,
  `flowsheet-artwork-repair`, `flowsheet-linked-reenrichment`,
  `flowsheet-reenrichment`, `album-level-backfill`, and the backend's own
  `metadata/enrichment.service.ts`.  The properties of `AlbumMetadata` are about
  the writers it has;
- ETL, backfill and concert jobs: single sequential passes, mostly SQL and
  matching;
- library, search, suggest, schedule, DJs, labels: queries and CRUD, stateless
  between requests;
- authentication (`apps/auth`, `shared/authentication`): the state machine is
  better-auth's;
- request line, artwork, Slack, SES events: pipelines of external calls;
- health, metrics, logging, formatting: no state that a property is about.

The share of the code's lines that the model stands for is small, and stays so:
most of the repository is queries, request validation, scraping, mapping of
rows between systems and plumbing, in which one actor at a time runs a fixed
sequence of steps.  The modules cover the places where actors meet.

`PROJECT.json` lists the hazards of the code at their lines; one that no
property covers says why in its note.

## 8. What would come next

1. More writers in `AlbumMetadata`, first `streaming-url-upgrade`, which writes
   a URL without a status.
2. A second backend process in `PlayOrder`, whose mutex is per process.
3. The order of locks between the import, which holds the row of
   `library_watermark` for its whole run, and `deleteAlbumFromDB`.
