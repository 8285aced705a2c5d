---------------------------- MODULE ShowSession ----------------------------
(***************************************************************************)
(* The life of a radio show: POST /flowsheet/join, /flowsheet/end,         *)
(* /flowsheet, /flowsheet/shows/:id/force-end, DELETE /flowsheet and the   *)
(* tubafrenzy webhook, as handlers that interleave at every await.  No     *)
(* handler opens a transaction: each action is one SQL statement and the   *)
(* JavaScript that follows it up to the next await.                        *)
(***************************************************************************)
EXTENDS Naturals, Sequences, FiniteSets

CONSTANTS DJs,        \* DJs with an account
          NoDJ,       \* shows.primary_dj_id = NULL
          Requests,   \* the HTTP requests that can be under way at once
          MaxShows,   \* bound: rows of shows
          MaxLog      \* bound: flowsheet rows, deleted ones too

ASSUME ShowAssumption ==
  /\ NoDJ \notin DJs
  /\ MaxShows \in Nat
  /\ MaxLog \in Nat

ShowIds == 1 .. MaxShows
Closers == {"host", "operator", "webhook", "backfill"}

\* A notice is a dj_join or a dj_leave.
EntryTypes == {"show_start", "show_end", "notice", "track"}

Entries == [type : EntryTypes, via : {"backend", "webhook"}, gone : BOOLEAN]

Steps == {"idle",
          "isLatestEntryShowEnd", "backfill", "startShow", "startMember",
          "startMarker", "isDjAlreadyActive", "addDJ", "addDJInsert",
          "addDJReactivate", "joinMarker",
          "memberOfEnd", "leaveShow", "leaveDeactivate", "leaveMarker",
          "memberOfAdd", "addEntry", "addTrack",
          "memberOfDelete", "deleteEntry",
          "forceLatest", "forceMarker",
          "endShow", "remaining", "closing", "reply",
          "webhookEntry", "webhookClose"}

Calls == [at : Steps, dj : DJs \cup {NoDJ}, show : 0 .. MaxShows,
          by : {"host", "operator"}, todo : SUBSET DJs, owed : SUBSET DJs,
          broken : BOOLEAN]

VARIABLES
  newest,     \* MAX(shows.id), 0 while there is no show
  primary,    \* shows.primary_dj_id
  end,        \* shows.end_time: "open" is NULL, else who wrote it
  member,     \* show_djs: no row, active or inactive
  log,        \* the flowsheet rows of a show by id; a deleted one is gone
  call,       \* the handlers under way and what they have read
  signedOff   \* sign-offs of a show handed to the tubafrenzy mirror

vars == <<newest, primary, end, member, log, call, signedOff>>

Idle == [at |-> "idle", dj |-> NoDJ, show |-> 0, by |-> "host",
         todo |-> {}, owed |-> {}, broken |-> FALSE]

Init ==
  /\ newest = 0
  /\ primary = [s \in ShowIds |-> NoDJ]
  /\ end = [s \in ShowIds |-> "none"]
  /\ member = [s \in ShowIds |-> [d \in DJs |-> "none"]]
  /\ log = [s \in ShowIds |-> << >>]
  /\ call = [r \in Requests |-> Idle]
  /\ signedOff = [s \in ShowIds |-> 0]

-----------------------------------------------------------------------------
At(r, step) == call[r].at = step
Show(r) == call[r].show
Dj(r) == call[r].dj
Todo(r) == call[r].todo
Owed(r) == call[r].owed

Begin(r, step, d, s, by) ==
  /\ At(r, "idle")
  /\ call' = [call EXCEPT ![r] =
       [Idle EXCEPT !.at = step, !.dj = d, !.show = s, !.by = by]]

Goto(r, step) == call' = [call EXCEPT ![r].at = step]
GotoOn(r, step, s) == call' = [call EXCEPT ![r] = [@ EXCEPT !.at = step, !.show = s]]
Branches(r, todo, owed, broken) == call' = [call EXCEPT ![r] =
  [@ EXCEPT !.todo = todo, !.owed = owed, !.broken = broken]]
Done(r) == call' = [call EXCEPT ![r] = Idle]

\* getLatestShow, and whether the row it reads has end_time NULL.
OnAir == newest > 0 /\ end[newest] = "open"

Entry(type, via) == [type |-> type, via |-> via, gone |-> FALSE]

Rows == {row \in ShowIds \X (1 .. MaxLog) : row[2] <= Len(log[row[1]])}

Log(s, type, via) ==
  /\ Cardinality(Rows) < MaxLog
  /\ log' = [log EXCEPT ![s] = Append(@, Entry(type, via))]

\* The last row logged for the show, by id, is a show_end.
LastIsShowEnd(s) ==
  \E i \in DOMAIN log[s] :
    /\ log[s][i].type = "show_end"
    /\ ~log[s][i].gone
    /\ \A j \in DOMAIN log[s] : j > i => log[s][j].gone

\* UPDATE shows SET end_time ... WHERE id = s AND end_time IS NULL
Close(s, by) == end' = [end EXCEPT ![s] = IF @ = "open" THEN by ELSE @]

SetMember(s, d, state) == member' = [member EXCEPT ![s][d] = state]

-----------------------------------------------------------------------------
(* POST /flowsheet/join                                                    *)

\* getLatestShow: a closed or absent show means a new one.
Join(r, d) ==
  /\ Begin(r, IF OnAir THEN "isLatestEntryShowEnd" ELSE "startShow", d, newest, "host")
  /\ UNCHANGED <<newest, primary, end, member, log, signedOff>>

IsLatestEntryShowEnd(r) ==
  /\ At(r, "isLatestEntryShowEnd")
  /\ Goto(r, IF LastIsShowEnd(Show(r)) THEN "backfill" ELSE "isDjAlreadyActive")
  /\ UNCHANGED <<newest, primary, end, member, log, signedOff>>

\* Mutant: the UPDATE trusts the marker that was read before it.
CloseFromRead(s) == Close(s, "backfill")

\* The marker is looked at again in the UPDATE itself.
CloseFromMarker(s) == IF LastIsShowEnd(s) THEN Close(s, "backfill") ELSE UNCHANGED end

\* A database error is reported and swallowed.
Backfill(r) ==
  /\ At(r, "backfill")
  /\ CloseFromMarker(Show(r)) \/ UNCHANGED end
  /\ Goto(r, "startShow")
  /\ UNCHANGED <<newest, primary, member, log, signedOff>>

InsertShow(d) ==
  /\ newest < MaxShows
  /\ newest' = newest + 1
  /\ primary' = [primary EXCEPT ![newest + 1] = d]
  /\ end' = [end EXCEPT ![newest + 1] = "open"]

StartShow(r) ==
  /\ At(r, "startShow")
  /\ InsertShow(Dj(r))
  /\ GotoOn(r, "startMember", newest + 1)
  /\ UNCHANGED <<member, log, signedOff>>

StartMember(r) ==
  /\ At(r, "startMember")
  /\ SetMember(Show(r), Dj(r), "active")
  /\ Goto(r, "startMarker")
  /\ UNCHANGED <<newest, primary, end, log, signedOff>>

StartMarker(r) ==
  /\ At(r, "startMarker")
  /\ Log(Show(r), "show_start", "backend")
  /\ Done(r)
  /\ UNCHANGED <<newest, primary, end, member, signedOff>>

\* A retried go-live is answered without a second marker.
IsDjAlreadyActive(r) ==
  /\ At(r, "isDjAlreadyActive")
  /\ IF primary[Show(r)] = Dj(r) \/ member[Show(r)][Dj(r)] = "active"
     THEN Done(r)
     ELSE Goto(r, "addDJ")
  /\ UNCHANGED <<newest, primary, end, member, log, signedOff>>

AddDJToShow(r) ==
  /\ At(r, "addDJ")
  /\ \/ member[Show(r)][Dj(r)] = "none" /\ Goto(r, "addDJInsert")
     \/ member[Show(r)][Dj(r)] = "inactive" /\ Goto(r, "addDJReactivate")
     \/ member[Show(r)][Dj(r)] = "active" /\ Done(r)
  /\ UNCHANGED <<newest, primary, end, member, log, signedOff>>

\* The unique index on (show_id, dj_id) turns the second first join into a 500.
AddDJInsert(r) ==
  /\ At(r, "addDJInsert")
  /\ IF member[Show(r)][Dj(r)] = "none"
     THEN SetMember(Show(r), Dj(r), "active") /\ Goto(r, "joinMarker")
     ELSE Done(r) /\ UNCHANGED member
  /\ UNCHANGED <<newest, primary, end, log, signedOff>>

AddDJReactivate(r) ==
  /\ At(r, "addDJReactivate")
  /\ SetMember(Show(r), Dj(r), "active")
  /\ Goto(r, "joinMarker")
  /\ UNCHANGED <<newest, primary, end, log, signedOff>>

\* A DJ without a display name gets no marker.
Notice(s) == Log(s, "notice", "backend") \/ UNCHANGED log

JoinMarker(r) ==
  /\ At(r, "joinMarker")
  /\ Notice(Show(r))
  /\ Done(r)
  /\ UNCHANGED <<newest, primary, end, member, signedOff>>

-----------------------------------------------------------------------------
(* The routes behind showMemberMiddleware, which reads the latest show and *)
(* its members before the controller reads the latest show again.          *)

ShowMember(r, d, step) ==
  /\ OnAir
  /\ Begin(r, step, d, newest, "host")
  /\ UNCHANGED <<newest, primary, end, member, log, signedOff>>

IsMember(r, gate, handler) ==
  /\ At(r, gate)
  /\ IF member[Show(r)][Dj(r)] = "active" THEN Goto(r, handler) ELSE Done(r)
  /\ UNCHANGED <<newest, primary, end, member, log, signedOff>>

\* Mutant: everybody leaves as a guest.
LeaveAsGuest(r) ==
  /\ At(r, "leaveShow")
  /\ IF OnAir THEN GotoOn(r, "leaveDeactivate", newest) ELSE Done(r)
  /\ UNCHANGED <<newest, primary, end, member, log, signedOff>>

\* POST /flowsheet/end: the primary DJ ends the show, a guest leaves it.
LeaveShow(r) ==
  /\ At(r, "leaveShow")
  /\ IF OnAir
     THEN GotoOn(r, IF primary[newest] = Dj(r) THEN "endShow" ELSE "leaveDeactivate", newest)
     ELSE Done(r)
  /\ UNCHANGED <<newest, primary, end, member, log, signedOff>>

LeaveDeactivate(r) ==
  /\ At(r, "leaveDeactivate")
  /\ IF member[Show(r)][Dj(r)] = "none"
     THEN Done(r) /\ UNCHANGED member
     ELSE SetMember(Show(r), Dj(r), "inactive") /\ Goto(r, "leaveMarker")
  /\ UNCHANGED <<newest, primary, end, log, signedOff>>

LeaveMarker(r) ==
  /\ At(r, "leaveMarker")
  /\ Notice(Show(r))
  /\ Done(r)
  /\ UNCHANGED <<newest, primary, end, member, signedOff>>

\* POST /flowsheet: the entry goes to the show read here, several awaits later.
AddEntry(r) ==
  /\ At(r, "addEntry")
  /\ IF OnAir THEN GotoOn(r, "addTrack", newest) ELSE Done(r)
  /\ UNCHANGED <<newest, primary, end, member, log, signedOff>>

AddTrack(r) ==
  /\ At(r, "addTrack")
  /\ Log(Show(r), "track", "backend")
  /\ Done(r)
  /\ UNCHANGED <<newest, primary, end, member, signedOff>>

Remove(s, i) ==
  /\ i \in DOMAIN log[s]
  /\ log' = [log EXCEPT ![s][i].gone = TRUE]

\* DELETE /flowsheet takes any entry id, of any show and any type.
DeleteEntry(r) ==
  /\ At(r, "deleteEntry")
  /\ \E s \in ShowIds : \E i \in DOMAIN log[s] : Remove(s, i)
  /\ Done(r)
  /\ UNCHANGED <<newest, primary, end, member, signedOff>>

-----------------------------------------------------------------------------
(* Ending a show                                                           *)

\* POST /flowsheet/shows/:id/force-end
ForceEndShow(r, s, force) ==
  /\ s <= newest
  /\ end[s] = "open"
  /\ Begin(r, IF force THEN "endShow" ELSE "forceLatest", NoDJ, s, "operator")
  /\ UNCHANGED <<newest, primary, end, member, log, signedOff>>

ForceLatest(r) ==
  /\ At(r, "forceLatest")
  /\ Goto(r, IF Show(r) = newest THEN "forceMarker" ELSE "endShow")
  /\ UNCHANGED <<newest, primary, end, member, log, signedOff>>

\* The current show is not ended without ?force=true, unless its marker is in.
ForceMarker(r) ==
  /\ At(r, "forceMarker")
  /\ IF LastIsShowEnd(Show(r)) THEN Goto(r, "endShow") ELSE Done(r)
  /\ UNCHANGED <<newest, primary, end, member, log, signedOff>>

\* Mutant: the markers first and end_time after them.
EndShowLater(r) ==
  /\ At(r, "endShow")
  /\ IF end[Show(r)] = "open" THEN Goto(r, "remaining") ELSE Done(r)
  /\ UNCHANGED <<newest, primary, end, member, log, signedOff>>

\* The compare-and-set on end_time comes before any other write.
EndShow(r) ==
  /\ At(r, "endShow")
  /\ Close(Show(r), call[r].by)
  /\ IF end[Show(r)] = "open" THEN Goto(r, "remaining") ELSE Done(r)
  /\ UNCHANGED <<newest, primary, member, log, signedOff>>

\* Mutant: the primary DJ is taken along, whether there is one or not.
RemainingAndPrimary(r) ==
  /\ At(r, "remaining")
  /\ call' = [call EXCEPT ![r] = [@ EXCEPT !.at = "closing",
       !.todo = {d \in DJs : member[Show(r)][d] = "active"} \cup {primary[Show(r)]}]]
  /\ UNCHANGED <<newest, primary, end, member, log, signedOff>>

RemainingDJs(r) ==
  /\ At(r, "remaining")
  /\ call' = [call EXCEPT ![r] = [@ EXCEPT !.at = "closing",
       !.todo = {d \in DJs : member[Show(r)][d] = "active"}]]
  /\ UNCHANGED <<newest, primary, end, member, log, signedOff>>

\* Promise.all: each remaining DJ is made inactive, and a guest gets a marker.
Deactivate(r, d) ==
  /\ At(r, "closing")
  /\ d \in Todo(r)
  /\ SetMember(Show(r), d, "inactive")
  /\ Branches(r, Todo(r) \ {d}, Owed(r) \cup ({d} \ {primary[Show(r)]}), call[r].broken)
  /\ UNCHANGED <<newest, primary, end, log, signedOff>>

GuestLeaves(r, d) ==
  /\ At(r, "closing")
  /\ d \in Owed(r)
  /\ Notice(Show(r))
  /\ Branches(r, Todo(r), Owed(r) \ {d}, call[r].broken)
  /\ UNCHANGED <<newest, primary, end, member, signedOff>>

\* One branch rejects; the others run on, but no show_end will be written.
BranchFails(r, d) ==
  /\ At(r, "closing")
  /\ d \in Todo(r) \cup Owed(r)
  /\ Branches(r, Todo(r) \ {d}, Owed(r) \ {d}, TRUE)
  /\ UNCHANGED <<newest, primary, end, member, log, signedOff>>

EndMarker(r) ==
  /\ At(r, "closing")
  /\ Todo(r) = {} /\ Owed(r) = {} /\ ~call[r].broken
  /\ Log(Show(r), "show_end", "backend")
  /\ Goto(r, "reply")
  /\ UNCHANGED <<newest, primary, end, member, signedOff>>

\* The row the UPDATE returned goes out, and the mirror signs that show off.
Reply(r) ==
  /\ At(r, "reply")
  /\ signedOff' = [signedOff EXCEPT ![Show(r)] = @ + 1]
  /\ Done(r)
  /\ UNCHANGED <<newest, primary, end, member, log>>

-----------------------------------------------------------------------------
(* POST /internal/flowsheet-webhook: tubafrenzy's entries, and ours that   *)
(* the mirror gave it.  "track" stands for any entry but a show_end, and   *)
(* an entry keeps its type in tubafrenzy.                                  *)

\* resolveShow finds the show ...
Webhook(r, s) ==
  /\ s <= newest
  /\ Begin(r, "webhookEntry", NoDJ, s, "host")
  /\ UNCHANGED <<newest, primary, end, member, log, signedOff>>

\* ... or creates a stub of it.
WebhookStub(r) ==
  /\ InsertShow(NoDJ)
  /\ Begin(r, "webhookEntry", NoDJ, newest + 1, "host")
  /\ UNCHANGED <<member, log, signedOff>>

Delivered(s, type) ==
  \E i \in DOMAIN log[s] : log[s][i].type = type /\ ~log[s][i].gone

\* A second delivery refreshes the row's texts; a show_end goes on to the show.
WebhookEntry(r, type) ==
  /\ At(r, "webhookEntry")
  /\ \/ Log(Show(r), type, "webhook")
     \/ Delivered(Show(r), type) /\ UNCHANGED log
  /\ IF type = "show_end" THEN Goto(r, "webhookClose") ELSE Done(r)
  /\ UNCHANGED <<newest, primary, end, member, signedOff>>

WebhookClose(r) ==
  /\ At(r, "webhookClose")
  /\ Close(Show(r), "webhook")
  /\ Done(r)
  /\ UNCHANGED <<newest, primary, member, log, signedOff>>

WebhookDelete(s, i) ==
  /\ Remove(s, i)
  /\ UNCHANGED <<newest, primary, end, member, call, signedOff>>

\* A statement fails or the process dies: what was written stays.
Fail(r) ==
  /\ ~At(r, "idle")
  /\ Done(r)
  /\ UNCHANGED <<newest, primary, end, member, log, signedOff>>

-----------------------------------------------------------------------------
JoinSteps(r) ==
  \/ \E d \in DJs : Join(r, d)
  \/ IsLatestEntryShowEnd(r)
  \/ Backfill(r)
  \/ StartShow(r)
  \/ StartMember(r)
  \/ StartMarker(r)
  \/ IsDjAlreadyActive(r)
  \/ AddDJToShow(r)
  \/ AddDJInsert(r)
  \/ AddDJReactivate(r)
  \/ JoinMarker(r)

MemberSteps(r) ==
  \/ \E d \in DJs, gate \in {"memberOfEnd", "memberOfAdd", "memberOfDelete"} :
       ShowMember(r, d, gate)
  \/ IsMember(r, "memberOfEnd", "leaveShow")
  \/ IsMember(r, "memberOfAdd", "addEntry")
  \/ IsMember(r, "memberOfDelete", "deleteEntry")
  \/ LeaveShow(r)
  \/ LeaveDeactivate(r)
  \/ LeaveMarker(r)
  \/ AddEntry(r)
  \/ AddTrack(r)
  \/ DeleteEntry(r)

EndSteps(r) ==
  \/ \E s \in ShowIds, force \in BOOLEAN : ForceEndShow(r, s, force)
  \/ ForceLatest(r)
  \/ ForceMarker(r)
  \/ EndShow(r)
  \/ RemainingDJs(r)
  \/ \E d \in DJs : Deactivate(r, d) \/ GuestLeaves(r, d) \/ BranchFails(r, d)
  \/ EndMarker(r)
  \/ Reply(r)

WebhookSteps(r) ==
  \/ \E s \in ShowIds : Webhook(r, s)
  \/ WebhookStub(r)
  \/ \E type \in {"show_end", "track"} : WebhookEntry(r, type)
  \/ WebhookClose(r)

Next ==
  \/ \E r \in Requests :
       JoinSteps(r) \/ MemberSteps(r) \/ EndSteps(r) \/ WebhookSteps(r) \/ Fail(r)
  \/ \E s \in ShowIds : \E i \in DOMAIN log[s] : WebhookDelete(s, i)

Spec == Init /\ [][Next]_vars

-----------------------------------------------------------------------------
(* Properties                                                              *)

\* Every variable keeps its type, and a show has rows only once it exists.
TypeOK ==
  /\ newest \in 0 .. MaxShows
  /\ primary \in [ShowIds -> DJs \cup {NoDJ}]
  /\ end \in [ShowIds -> {"none", "open"} \cup Closers]
  /\ member \in [ShowIds -> [DJs -> {"none", "active", "inactive"}]]
  /\ log \in [ShowIds -> Seq(Entries)]
  /\ call \in [Requests -> Calls]
  /\ signedOff \in [ShowIds -> Nat]
  /\ \A s \in ShowIds : end[s] = "none" <=> s > newest

\* Our own show_end rows of a show, deleted ones included.
Ends(s) == {i \in DOMAIN log[s] :
              log[s][i].type = "show_end" /\ log[s][i].via = "backend"}

\* A double click on sign-off, or an operator's click beside it, writes one
\* show_end, and only for a show that such a click closed (endShow's
\* compare-and-set before every other write).
EndsOnce == \A s \in ShowIds :
  /\ \A i, j \in Ends(s) : i = j
  /\ Ends(s) # {} => end[s] \in {"host", "operator"}

\* Four writers close shows; whichever is first, no later or repeated
\* delivery changes the end_time it wrote (WHERE end_time IS NULL in each).
ClosedForGood == [][\A s \in ShowIds :
  end[s] \in Closers => end'[s] = end[s]]_vars

\* The mirror signs a show off in tubafrenzy at most once, and only one that
\* was ended here and announced; a show that starts while another one ends
\* is never signed off in its place (endShow returns the row it closed).
SignOffOwnShow == \A s \in ShowIds :
  /\ signedOff[s] <= 1
  /\ signedOff[s] = 1 => Ends(s) # {}

\* Once a show of ours has begun on the flowsheet and until it is closed, its
\* primary DJ is an active member, so that the DJ on the air is let through
\* to add entries and to sign off (showMemberMiddleware).
HostCanSignOff == \A s \in ShowIds :
  end[s] = "open" /\ (\E i \in DOMAIN log[s] : log[s][i].type = "show_start")
    => member[s][primary[s]] = "active"

Board == INSTANCE ShowBoard WITH
  Shows <- ShowIds,
  ended <- end,
  announced <- [s \in ShowIds |-> Cardinality(Ends(s))],
  marked <- {s \in ShowIds : LastIsShowEnd(s)}

\* The handlers, however they interleave and fail, keep what ShowBoard says:
\* also that a go-live closes the previous show from its marker only if that is
\* still the last row when the column is written
\* (closeShowFromTerminalShowEndMarker looks again inside the UPDATE).
ImplementsBoard == Board!Spec

=============================================================================
