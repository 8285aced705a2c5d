---------------------------- MODULE LookupBatcher ----------------------------
(***************************************************************************)
(* The enrichment worker's coalescing of lookups (lookup-batcher.ts).  The *)
(* callers of 50 ms are buffered, parted by lane, and sent to LML in bulk  *)
(* calls of at most BulkMax items; an answer tags each verdict with the    *)
(* index of its item.  A caller is a promise: it gets its own verdict or a *)
(* rejection, which leaves its row to the sweep.                           *)
(***************************************************************************)
EXTENDS Places, SequencesExt

CONSTANTS Callers,    \* candidates of the worker
          LaneOf,     \* the lane each declares
          BulkMax,    \* BULK_MAX_ITEMS
          Suppress    \* ENRICHMENT_SUPPRESS_LML_BUDGET

Lanes == {"live", "sweep"}

ASSUME BatcherAssumption ==
  /\ LaneOf \in [Callers -> Lanes]
  /\ BulkMax \in Nat \ {0}
  /\ Suppress \in BOOLEAN

VARIABLES
  buffer,   \* the callers of this window
  timer,    \* flushTimer is set
  due,      \* the timeout that it stands for will fire
  calls,    \* the bulk calls under way
  outcome   \* of each caller's promise

batcherVars == <<buffer, timer, due, calls, outcome>>

Chunks == UNION {[1 .. n -> Callers] : n \in 1 .. BulkMax}
Calls == [chunk : Chunks, suppressed : BOOLEAN]

\* LML's verdicts: ones that carry a lookup, and the two sheds, which carry an
\* empty one.  A verdict is that of the item it was computed for.
Statuses == {"match", "error", "shed"}

Idle == <<"idle">>
Waiting == <<"waiting">>
Rejected == <<"rejected">>
Resolved == {"resolved"} \X Callers \X Statuses

BatcherInit ==
  /\ buffer = << >>
  /\ timer = FALSE
  /\ due = FALSE
  /\ calls = {}
  /\ outcome = [c \in Callers |-> Idle]

-----------------------------------------------------------------------------

\* enrichmentBulkLookup, scheduleFlush
Enqueue(c) ==
  /\ outcome[c] # Waiting
  /\ outcome' = [outcome EXCEPT ![c] = Waiting]
  /\ buffer' = Append(buffer, c)
  /\ timer' = TRUE
  /\ due' = (due \/ ~timer)
  /\ UNCHANGED calls

\* The callers of each lane, in their order.
Parts(pending) ==
  {AtPlaces(pending, {i \in DOMAIN pending : LaneOf[pending[i]] = lane}) : lane \in Lanes}

\* The slices of at most BulkMax items.
Slices(s) ==
  {SubSeq(s, k * BulkMax + 1, IF (k + 1) * BulkMax < Len(s) THEN (k + 1) * BulkMax ELSE Len(s))
     : k \in {j \in 0 .. Len(s) : j * BulkMax < Len(s)}}

Suppressed(lane) == lane = "live" /\ Suppress

\* dispatchChunk, to its await.
Dispatch(chunk) == [chunk |-> chunk, suppressed |-> Suppressed(LaneOf[Head(chunk)])]

\* Mutant: the timer that has fired is still set.
StillSet == TRUE

Unset == FALSE

\* The timer fires.
FlushBuffer ==
  /\ due
  /\ due' = FALSE
  /\ timer' = Unset
  /\ calls' = calls \cup {Dispatch(chunk) : chunk \in UNION {Slices(p) : p \in Parts(buffer)}}
  /\ buffer' = << >>
  /\ UNCHANGED outcome

\* What LML may answer: verdicts in any order, some missing, some repeated.
Answers(chunk) ==
  UNION {[1 .. n -> [index : DOMAIN chunk, status : Statuses]] : n \in 0 .. Len(chunk)}

\* Mutant: by the place in the results.
VerdictByPlace(results, index) == {k \in DOMAIN results : k = index}

\* The last one with that index.
VerdictOf(results, index) ==
  {k \in DOMAIN results :
     /\ results[k].index = index
     /\ \A j \in DOMAIN results : results[j].index = index => j <= k}

Rejects(status) == status \in {"error", "shed"}

Settle(chunk, results, index) ==
  LET found == VerdictOf(results, index)
      verdict == results[CHOOSE k \in found : TRUE]
  IN IF found = {} \/ Rejects(verdict.status) THEN Rejected
     ELSE <<"resolved", chunk[verdict.index], verdict.status>>

Answered(call, results) ==
  /\ calls' = calls \ {call}
  /\ outcome' = [c \in Callers |->
       IF c \in ToSet(call.chunk)
       THEN Settle(call.chunk, results, CHOOSE i \in DOMAIN call.chunk : call.chunk[i] = c)
       ELSE outcome[c]]
  /\ UNCHANGED <<buffer, timer, due>>

\* The bulk call itself fails.
Fails(call) ==
  /\ calls' = calls \ {call}
  /\ outcome' = [c \in Callers |-> IF c \in ToSet(call.chunk) THEN Rejected ELSE outcome[c]]
  /\ UNCHANGED <<buffer, timer, due>>

CallEnds(call) ==
  \/ \E results \in Answers(call.chunk) : Answered(call, results)
  \/ Fails(call)

BatcherNext ==
  \/ \E c \in Callers : Enqueue(c)
  \/ FlushBuffer
  \/ \E call \in calls : CallEnds(call)

BatcherSpec == BatcherInit /\ [][BatcherNext]_batcherVars

CallOfEnds(c) == \E call \in calls : c \in ToSet(call.chunk) /\ CallEnds(call)

\* The timer fires, and a call ends: at the latest the client times out.
BatcherFairness == WF_batcherVars(FlushBuffer) /\ \A c \in Callers : WF_batcherVars(CallOfEnds(c))

BatcherFairSpec == BatcherSpec /\ BatcherFairness

-----------------------------------------------------------------------------
(* Properties                                                              *)

\* The type invariant.
BatcherTypeOK ==
  /\ buffer \in Seq(Callers)
  /\ timer \in BOOLEAN /\ due \in BOOLEAN
  /\ calls \subseteq Calls
  /\ outcome \in [Callers -> {Idle, Waiting, Rejected} \cup Resolved]

\* A caller that is answered has the verdict of its own row, and one that LML
\* did compute: a short or reordered answer cannot give it another row's, and
\* a shed never passes for "no match", which would be final.
OwnVerdict ==
  \A c \in Callers : outcome[c] \in Resolved => outcome[c] = <<"resolved", c, "match">>

\* A lookup of the re-ask sweep never rides a call without the budget header,
\* whoever was buffered with it.
SweepKeepsBudget ==
  \A call \in calls : call.suppressed => \A c \in ToSet(call.chunk) : LaneOf[c] = "live"

\* Both: a caller gets its own verdict, computed under its own lane's budget.
LookupsAreOwn == OwnVerdict /\ SweepKeepsBudget

\* Every lookup is settled: else its row would wait for the sweep for ever.
EveryLookupSettles == \A c \in Callers : outcome[c] = Waiting ~> outcome[c] # Waiting
=============================================================================
