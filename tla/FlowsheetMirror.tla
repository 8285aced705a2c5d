-------------------------- MODULE FlowsheetMirror --------------------------
(***************************************************************************)
(* The flowsheet and its copy in tubafrenzy.  After a reply has gone out,  *)
(* a handler of the mirror POSTs the new row, PATCHes an edited one or     *)
(* queues the DELETE of a removed one; the number that tubafrenzy gives a  *)
(* row is cached in the process and written to flowsheet.legacy_entry_id.  *)
(* tubafrenzy sends its own rows back over the webhook, and every night    *)
(* legacy-mirror-reconcile drives shows that were not mirrored at all.     *)
(* One action is what happens between two awaits; POST and answer are one, *)
(* since nothing here looks at the answer before it is there.              *)
(***************************************************************************)
EXTENDS Naturals, Sequences, FiniteSets

CONSTANTS Shows,        \* shows, numbered in the order they start
          Handlers,     \* mirror handlers that can be under way at once
          MaxEntries,   \* bound: flowsheet rows, deleted ones too
          MaxLost       \* bound: copies whose number a failure loses

ASSUME MirrorAssumption ==
  /\ Shows \subseteq Nat \ {0}
  /\ MaxEntries \in Nat
  /\ MaxLost \in Nat

\* The show of an entry that belongs to a show of tubafrenzy only.
Stub == 0

EntryIds == 1 .. MaxEntries
MaxCopies == 2 * MaxEntries + MaxLost
CopyIds == 1 .. MaxCopies

Entries == [show : Shows \cup {Stub}, type : {"show_start", "show_end", "track"},
            legacy : CopyIds \cup {0}, native : BOOLEAN, gone : BOOLEAN]

\* "of" is 0 for an entry that began in tubafrenzy.
Copies == [of : EntryIds \cup {0}, by : {"live", "job", "tubafrenzy"}, gone : BOOLEAN]

\* "id" is the legacy id in the reply that set the handler off, or the number
\* a POST was answered with.
Calls == [at : {"idle", "createShow", "startMarker", "signoff", "endMarker",
                "post", "persist", "update", "patch", "enqueue"},
          show : Shows \cup {Stub}, entry : EntryIds \cup {0},
          id : CopyIds \cup {0}]

Jobs == [at : {"idle", "create", "select", "entries", "post", "persist"},
         list : SUBSET Shows, todo : Seq(EntryIds), id : CopyIds \cup {0}]

VARIABLES
  show,       \* shows: its phase, whether legacy_show_id is set, its age
  entry,      \* the flowsheet rows by id, which is the order they were logged in
  tuba,       \* tubafrenzy's FLOWSHEET_ENTRY_PROD by id
  showCache,  \* showIdMap: the shows whose tubafrenzy id the process knows
  cache,      \* entryIdMap
  call,       \* the mirror handlers under way
  deletes,    \* the copies whose deletion is queued
  job         \* legacy-mirror-reconcile; at most one runs (advisory lock)

vars == <<show, entry, tuba, showCache, cache, call, deletes, job>>

Idle == [at |-> "idle", show |-> Stub, entry |-> 0, id |-> 0]
NoJob == [at |-> "idle", list |-> {}, todo |-> << >>, id |-> 0]

Init ==
  /\ show = [s \in Shows |-> [phase |-> "none", mirrored |-> FALSE, age |-> "settling"]]
  /\ entry = << >>
  /\ tuba = << >>
  /\ showCache = {}
  /\ cache = [e \in EntryIds |-> 0]
  /\ call = [h \in Handlers |-> Idle]
  /\ deletes = {}
  /\ job = NoJob

-----------------------------------------------------------------------------
At(h, step) == call[h].at = step
Goto(h, step, e, id) ==
  call' = [call EXCEPT ![h] = [@ EXCEPT !.at = step, !.entry = e, !.id = id]]
Done(h) == call' = [call EXCEPT ![h] = Idle]

Live == {e \in DOMAIN entry : ~entry[e].gone}
CopiesOf(e, by) == {i \in DOMAIN tuba : tuba[i].of = e /\ tuba[i].by = by}

Row(s, type, id) == [show |-> s, type |-> type, legacy |-> id, native |-> id # 0,
                     gone |-> FALSE]

Insert(row) == Len(entry) < MaxEntries /\ entry' = Append(entry, row)
Create(e, by) ==
  tuba' = Append(tuba, [of |-> e, by |-> by, gone |-> FALSE])
NextCopy == Len(tuba) + 1

InFlight == {job.id} \cup {call[h].id : h \in {k \in Handlers : At(k, "persist")}}

\* The copies of ours whose number is neither on their entry nor on its way.
Lost == {i \in DOMAIN tuba : /\ tuba[i].by # "tubafrenzy"
                            /\ i \notin InFlight
                            /\ entry[tuba[i].of].legacy # i}
MayLose(n) == Cardinality(Lost) + n <= MaxLost

\* UPDATE flowsheet SET legacy_entry_id: nothing to update on a deleted row,
\* and the unique index refuses a number that another row has.
Taken(id) == \E e \in Live : entry[e].legacy = id

-----------------------------------------------------------------------------
(* The requests.  Each is over but for its mirror when it replies; the     *)
(* backend-mirror flag decides whether a handler of the mirror starts.     *)

Reply(h, step, s, e, id) ==
  \/ /\ At(h, "idle")
     /\ call' = [call EXCEPT ![h] = [at |-> step, show |-> s, entry |-> e, id |-> id]]
  \/ UNCHANGED call

GoLive(h, s) ==
  /\ show[s].phase = "none"
  /\ \A t \in Shows : t < s => show[t].phase # "none"
  /\ show' = [show EXCEPT ![s].phase = "open"]
  /\ Insert(Row(s, "show_start", 0))
  /\ Reply(h, "createShow", s, 0, 0)
  /\ UNCHANGED <<tuba, showCache, cache, deletes, job>>

AddEntry(h, s) ==
  /\ show[s].phase = "open"
  /\ Insert(Row(s, "track", 0))
  /\ Reply(h, "post", s, Len(entry) + 1, 0)
  /\ UNCHANGED <<show, tuba, showCache, cache, deletes, job>>

\* The reply carries the show as it was when it ended, legacy_show_id included.
EndShow(h, s) ==
  /\ show[s].phase = "open"
  /\ show' = [show EXCEPT ![s].phase = "ended"]
  /\ Insert(Row(s, "show_end", 0))
  /\ Reply(h, "signoff", s, 0, IF show[s].mirrored THEN 1 ELSE 0)
  /\ UNCHANGED <<tuba, showCache, cache, deletes, job>>

\* Markers have a message, and are not updated.
UpdateEntry(h, e) ==
  /\ entry[e].type = "track"
  /\ Reply(h, "update", entry[e].show, e, 0)
  /\ UNCHANGED <<show, entry, tuba, showCache, cache, deletes, job>>

DeleteEntry(h, e) ==
  /\ entry' = [entry EXCEPT ![e].gone = TRUE]
  /\ Reply(h, "enqueue", entry[e].show, e, entry[e].legacy)
  /\ UNCHANGED <<show, tuba, showCache, cache, deletes, job>>

-----------------------------------------------------------------------------
(* The mirror's handlers                                                   *)

\* After five failures the show is left to the nightly job; the UPDATE of
\* legacy_show_id is best effort.
MirrorCreateShow(h) ==
  /\ At(h, "createShow")
  /\ \/ Done(h) /\ UNCHANGED <<show, showCache>>
     \/ /\ showCache' = showCache \cup {call[h].show}
        /\ \/ show' = [show EXCEPT ![call[h].show].mirrored = TRUE]
           \/ UNCHANGED show
        /\ Goto(h, "startMarker", 0, 0)
  /\ UNCHANGED <<entry, tuba, cache, deletes, job>>

\* No tubafrenzy show known here, cached or persisted: nothing to hang it off.
MirrorSignoff(h) ==
  /\ At(h, "signoff")
  /\ IF call[h].show \in showCache \/ call[h].id = 1
     THEN Goto(h, "endMarker", 0, 0)
     ELSE Done(h)
  /\ UNCHANGED <<show, entry, tuba, showCache, cache, deletes, job>>

MarkerType(h) == IF At(h, "startMarker") THEN "show_start" ELSE "show_end"

Announcement(h) ==
  {e \in Live : /\ entry[e].show = call[h].show
                /\ entry[e].type = MarkerType(h)
                /\ entry[e].legacy = 0}

MirrorAnnouncement(h) ==
  /\ At(h, "startMarker") \/ At(h, "endMarker")
  /\ \/ \E e \in Announcement(h) : Goto(h, "post", e, 0)
     \/ Announcement(h) = {} /\ Done(h)
  /\ UNCHANGED <<show, entry, tuba, showCache, cache, deletes, job>>

\* Mutant: keyed by the place in the show, as before the row id was.
CacheByPlace(e, id) ==
  LET Place(f) == Cardinality({g \in 1 .. f : entry[g].show = entry[f].show})
  IN cache' = [f \in EntryIds |->
       IF f \in DOMAIN entry /\ Place(f) = Place(e) THEN id ELSE cache[f]]

\* Mutant: the number after it, as a guess from the highest one would be.
CacheNextId(e, id) == cache' = [cache EXCEPT ![e] = id + 1]

CacheEntryId(e, id) == cache' = [cache EXCEPT ![e] = id]

\* One attempt.  An answer that is lost leaves the row in tubafrenzy, and
\* nobody here knows its number.
MirrorCreateEntry(h) ==
  /\ At(h, "post")
  /\ \/ Done(h) /\ UNCHANGED <<tuba, cache>>
     \/ /\ MayLose(1)
        /\ Create(call[h].entry, "live")
        /\ Done(h)
        /\ UNCHANGED cache
     \/ /\ Create(call[h].entry, "live")
        /\ CacheEntryId(call[h].entry, NextCopy)
        /\ Goto(h, "persist", call[h].entry, NextCopy)
  /\ showCache' = IF call[h].show # Stub /\ show[call[h].show].mirrored
                  THEN showCache \cup {call[h].show} ELSE showCache
  /\ UNCHANGED <<show, entry, deletes, job>>

\* The live path does not look whether the row has a number by now.
PersistLegacyEntryId(h) ==
  /\ At(h, "persist")
  /\ \/ /\ call[h].entry \in Live /\ ~Taken(call[h].id)
        /\ entry' = [entry EXCEPT ![call[h].entry].legacy = call[h].id]
     \/ /\ call[h].entry \notin Live \/ Taken(call[h].id) \/ MayLose(1)
        /\ UNCHANGED entry
  /\ Done(h)
  /\ UNCHANGED <<show, tuba, showCache, cache, deletes, job>>

\* Only a number that this process has cached is patched: a row with a
\* persisted number and no cached one counts as imported.
MirrorUpdateEntry(h) ==
  /\ At(h, "update")
  /\ IF cache[call[h].entry] # 0
     THEN Goto(h, "patch", call[h].entry, cache[call[h].entry])
     ELSE Done(h)
  /\ UNCHANGED <<show, entry, tuba, showCache, cache, deletes, job>>

\* The PATCH of copy call[h].id is answered, or not; nothing is kept of it.
PatchDone(h) ==
  /\ At(h, "patch")
  /\ Done(h)
  /\ UNCHANGED <<show, entry, tuba, showCache, cache, deletes, job>>

-----------------------------------------------------------------------------
(* The deletions that MirrorCommandQueue holds: each is run sooner or      *)
(* later, unless the queue gives up.                                       *)

MirrorDeleteEntry(h) ==
  /\ At(h, "enqueue")
  /\ deletes' = deletes \cup ({call[h].id} \ {0})
  /\ Done(h)
  /\ UNCHANGED <<show, entry, tuba, showCache, cache, job>>

Executed(id) == tuba' = [tuba EXCEPT ![id].gone = TRUE]

\* A deletion that failed may have run all the same, and is run again.
RunDelete(id) ==
  /\ Executed(id)
  /\ deletes' \in {deletes, deletes \ {id}}
  /\ UNCHANGED <<show, entry, showCache, cache, call, job>>

QueueDies ==
  /\ deletes # {}
  /\ deletes' = {}
  /\ UNCHANGED <<show, entry, tuba, showCache, cache, call, job>>

-----------------------------------------------------------------------------
(* tubafrenzy: entries of its own, and the webhook                         *)

\* An entry of its own, and the webhook for it.
TubafrenzyAdds(s) ==
  /\ s # Stub => show[s].mirrored
  /\ Insert(Row(s, "track", NextCopy))
  /\ Create(0, "tubafrenzy")
  /\ UNCHANGED <<show, showCache, cache, call, deletes, job>>

\* A create or update is delivered late or again, also for a row that the
\* mirror put there.  Only a number that no row has is new.  Under which show
\* tubafrenzy filed what the live mirror sent without one is its own affair.
WebhookUpsert(i, s) ==
  /\ s # Stub => show[s].mirrored
  /\ tuba[i].by = "job" => s = entry[tuba[i].of].show
  /\ ~Taken(i)
  /\ Insert(Row(s, "track", i))
  /\ UNCHANGED <<show, tuba, showCache, cache, call, deletes, job>>

WebhookDelete(i) ==
  /\ tuba[i].gone \/ tuba[i].by = "tubafrenzy"
  /\ \E e \in Live : /\ entry[e].legacy = i
                     /\ entry' = [entry EXCEPT ![e].gone = TRUE]
  /\ Executed(i)
  /\ UNCHANGED <<show, showCache, cache, call, deletes, job>>

-----------------------------------------------------------------------------
(* legacy-mirror-reconcile.  Its pause waits for a minute without new      *)
(* entries and counts a failed probe as quiet: it rules no order out.      *)

Numbered(s) == \E e \in Live : entry[e].show = s /\ entry[e].legacy # 0
Orphans(s) == {e \in Live : entry[e].show = s /\ entry[e].legacy = 0}
Due(s) == show[s].phase # "none" /\ show[s].age = "due"

SelectShowsToCreate == {s \in Shows : Due(s) /\ ~show[s].mirrored /\ ~Numbered(s)}

\* Mutant: finalized shows only.
SelectEndedShows ==
  {s \in Shows : /\ Due(s) /\ show[s].mirrored /\ show[s].phase = "ended"
                 /\ Orphans(s) # {} /\ ~Numbered(s)}

SelectEntrySweepShows ==
  {s \in Shows : /\ Due(s) /\ show[s].mirrored
                 /\ Orphans(s) # {} /\ ~Numbered(s)}

JobStart ==
  /\ job.at = "idle"
  /\ job' = [NoJob EXCEPT !.at = "create", !.list = SelectShowsToCreate]
  /\ UNCHANGED <<show, entry, tuba, showCache, cache, call, deletes>>

First(list) == CHOOSE s \in list : \A t \in list : s <= t

\* mirrorCreateShow and persistLegacyShowId; FALSE when the flag is off for
\* its DJ or tubafrenzy refuses, and the next run tries again.
JobCreatesShow(works) ==
  /\ job.at = "create" /\ job.list # {}
  /\ show' = IF works THEN [show EXCEPT ![First(job.list)].mirrored = TRUE] ELSE show
  /\ job' = [job EXCEPT !.list = @ \ {First(@)}]
  /\ UNCHANGED <<entry, tuba, showCache, cache, call, deletes>>

JobSelects ==
  /\ job.at = "create" /\ job.list = {}
  /\ job' = [job EXCEPT !.at = "select", !.list = SelectEntrySweepShows]
  /\ UNCHANGED <<show, entry, tuba, showCache, cache, call, deletes>>

\* The ids of a set in play_order.
InPlayOrder(ids) ==
  CHOOSE q \in [1 .. Cardinality(ids) -> ids] :
    \A j, k \in 1 .. Cardinality(ids) : j < k => q[j] < q[k]

JobFinishes ==
  /\ job.at = "select" /\ job.list = {}
  /\ job' = NoJob
  /\ UNCHANGED <<show, entry, tuba, showCache, cache, call, deletes>>

\* The flag of its DJ, then the entries as they are now.
JobTakesShow(on) ==
  /\ job.at = "select" /\ job.list # {}
  /\ job' = [job EXCEPT !.list = @ \ {First(@)},
       !.todo = IF on THEN InPlayOrder(Orphans(First(job.list))) ELSE << >>,
       !.at = IF on THEN "post" ELSE "select"]
  /\ UNCHANGED <<show, entry, tuba, showCache, cache, call, deletes>>

\* Mutant: a failure is passed over, and the rest of the show is driven.
PassOver == [job EXCEPT !.todo = Tail(@)]

\* The rest of a show is left alone after the first failure.
StopShow == [job EXCEPT !.at = "select", !.todo = << >>]

JobPosts ==
  /\ job.at = "post" /\ job.todo # << >>
  /\ Create(Head(job.todo), "job")
  /\ job' = [job EXCEPT !.at = "persist", !.id = NextCopy]
  /\ UNCHANGED <<show, entry, showCache, cache, call, deletes>>

JobPostFails ==
  /\ job.at = "post" /\ job.todo # << >>
  /\ UNCHANGED tuba \/ (MayLose(1) /\ Create(Head(job.todo), "job"))
  /\ job' = StopShow
  /\ UNCHANGED <<show, entry, showCache, cache, call, deletes>>

\* persistLegacyEntryId, WHERE legacy_entry_id IS NULL: a number that came in
\* between stays.
JobPersists ==
  LET e == Head(job.todo) IN
  /\ job.at = "persist"
  /\ ~Taken(job.id)
  /\ IF e \in Live /\ entry[e].legacy = 0
     THEN entry' = [entry EXCEPT ![e].legacy = job.id]
     ELSE UNCHANGED entry
  /\ job' = [job EXCEPT !.at = "post", !.todo = Tail(@), !.id = 0]
  /\ UNCHANGED <<show, tuba, showCache, cache, call, deletes>>

\* The show is done; its sign-off, if it has ended, changes no entry.
JobSignsOff ==
  /\ job.at = "post" /\ job.todo = << >>
  /\ job' = [job EXCEPT !.at = "select"]
  /\ UNCHANGED <<show, entry, tuba, showCache, cache, call, deletes>>

\* An exception of a query, the unique index's among them, ends the run.
JobAborts ==
  /\ job.at # "idle"
  /\ job.at = "persist" => Taken(job.id) \/ MayLose(1)
  /\ job' = NoJob
  /\ UNCHANGED <<show, entry, tuba, showCache, cache, call, deletes>>

-----------------------------------------------------------------------------
\* start_time passes the settle bound, 15 minutes, and then the window of 48
\* hours.  No handler that is under way for the show takes that long.
Ages(s) ==
  /\ show[s].phase # "none"
  /\ show[s].age # "aged"
  /\ \A h \in Handlers : call[h].show # s
  /\ show' = [show EXCEPT ![s].age = IF @ = "settling" THEN "due" ELSE "aged"]
  /\ UNCHANGED <<entry, tuba, showCache, cache, call, deletes, job>>

\* The backend restarts: maps, handlers and queue are gone.
Restart ==
  /\ showCache' = {}
  /\ cache' = [e \in EntryIds |-> 0]
  /\ call' = [h \in Handlers |-> Idle]
  /\ deletes' = {}
  /\ MayLose(Cardinality(InFlight \ {0, job.id}))
  /\ UNCHANGED <<show, entry, tuba, job>>

Requests(h) ==
  \/ \E s \in Shows : GoLive(h, s) \/ AddEntry(h, s) \/ EndShow(h, s)
  \/ \E e \in Live : UpdateEntry(h, e) \/ DeleteEntry(h, e)

Mirror(h) ==
  \/ MirrorCreateShow(h)
  \/ MirrorSignoff(h)
  \/ MirrorAnnouncement(h)
  \/ MirrorCreateEntry(h)
  \/ PersistLegacyEntryId(h)
  \/ MirrorUpdateEntry(h)
  \/ PatchDone(h)
  \/ MirrorDeleteEntry(h)

Queue == QueueDies \/ \E id \in deletes : RunDelete(id)

Tubafrenzy ==
  \/ \E s \in Shows \cup {Stub} : TubafrenzyAdds(s)
  \/ \E i \in DOMAIN tuba : \/ WebhookDelete(i)
                            \/ \E s \in Shows \cup {Stub} : WebhookUpsert(i, s)

JobGoesOn ==
  \/ \E works \in BOOLEAN : JobCreatesShow(works)
  \/ JobSelects
  \/ JobFinishes
  \/ \E on \in BOOLEAN : JobTakesShow(on)
  \/ JobPosts
  \/ JobPostFails
  \/ JobPersists
  \/ JobSignsOff
  \/ JobAborts

Next ==
  \/ \E h \in Handlers : Requests(h) \/ Mirror(h)
  \/ Queue
  \/ Tubafrenzy
  \/ JobStart
  \/ JobGoesOn
  \/ \E s \in Shows : Ages(s)
  \/ Restart

Spec == Init /\ [][Next]_vars

\* cron runs the job every night, its queries answer, and now and then
\* tubafrenzy takes what it is sent and the flag of the show's DJ is on.
\* Nothing is asked of the DJs, the live handlers or tubafrenzy's own rows.
Fairness ==
  /\ WF_vars(JobStart)
  /\ WF_vars(JobGoesOn)
  /\ SF_vars(JobSelects)
  /\ SF_vars(JobCreatesShow(TRUE))
  /\ SF_vars(JobTakesShow(TRUE))
  /\ SF_vars(JobPosts)
  /\ SF_vars(JobPersists)

FairSpec == Spec /\ Fairness

-----------------------------------------------------------------------------
(* Properties                                                              *)

\* The type invariant.
TypeOK ==
  /\ show \in [Shows -> [phase : {"none", "open", "ended"}, mirrored : BOOLEAN,
                         age : {"settling", "due", "aged"}]]
  /\ entry \in Seq(Entries) /\ Len(entry) <= MaxEntries
  /\ tuba \in Seq(Copies)
  /\ showCache \subseteq Shows
  /\ cache \in [EntryIds -> DOMAIN tuba \cup {0}]
  /\ call \in [Handlers -> Calls]
  /\ deletes \subseteq DOMAIN tuba
  /\ job \in Jobs

\* Whatever the order of replies, POSTs and writes, an entry is tied to its
\* own copy: the cached and the written number lead there, and so does the
\* PATCH that is sent for it (BS#1103: keys that two rows can share).
OwnCopies ==
  /\ \A e \in EntryIds : cache[e] # 0 => tuba[cache[e]].of = e
  /\ \A e \in DOMAIN entry :
       entry[e].legacy # 0 /\ ~entry[e].native => tuba[entry[e].legacy].of = e
  /\ \A h \in Handlers : At(h, "patch") => tuba[call[h].id].of = call[h].entry

\* The live mirror POSTs a row once, though the marker's handler looks for its
\* row while other rows are mirrored, and the job POSTs a row again only when
\* the number of its first POST was lost (BS#1705).
OneCopyEach ==
  \A e \in DOMAIN entry : /\ Cardinality(CopiesOf(e, "live")) <= 1
                          /\ Cardinality(CopiesOf(e, "job") \ Lost) <= 1

\* What came from tubafrenzy is not sent back to it (BS#908).
NoLoop == \A i \in DOMAIN tuba : tuba[i].of # 0 => ~entry[tuba[i].of].native

\* The three together: every copy upstream belongs to the one entry it was made
\* of, which was logged here.
CopiesAreRight == OwnCopies /\ OneCopyEach /\ NoLoop

\* tubafrenzy orders a show by insertion.  Where the job has put an entry,
\* it has left no gap before it and comes back to none: what it POSTs of a
\* show is in order and starts at the first entry that is still there.
HealedInOrder ==
  \A j \in DOMAIN tuba : tuba[j].by = "job" =>
    \A f \in Live :
      entry[f].show = entry[tuba[j].of].show /\ f < tuba[j].of /\ ~entry[f].native
        => \E i \in DOMAIN tuba : tuba[i].of = f /\ (tuba[i].by = "job" => i < j)

\* A show that was not mirrored at all does not stay so as long as it is in
\* the job's window: something of it arrives, or nothing is left to send.
ShowsHeal ==
  \A s \in Shows :
    Due(s) /\ ~Numbered(s) /\ Orphans(s) # {}
      ~> Numbered(s) \/ Orphans(s) = {} \/ ~Due(s)

\* orchestrate.ts of the settle bound: "Sweeping then would double-POST that
\* entry.  The cooperative pause mitigates but is a heuristic; this bound is
\* deterministic."  So no entry has a copy by the live mirror and one by the
\* job of which neither number was lost on the way.
NoDoublePost ==
  \A e \in DOMAIN entry : CopiesOf(e, "live") = {} \/ CopiesOf(e, "job") = {} \/ Lost # {}
=============================================================================
