-------------------------- MODULE ShowSessionProofs --------------------------
(***************************************************************************)
(* Proofs about ShowSession and PlayOrder, for any DJs and requests and any *)
(* number of shows and flowsheet rows, moves and play-order numbers.        *)
(***************************************************************************)
EXTENDS MCShowSession, FiniteSetTheorems, TLAPS

(***************************************************************************)
(* What the operators the handlers are built from do to the state.          *)
(***************************************************************************)
\* A handler that begins leaves the calls typed.
LEMMA BeginTyped ==
    ASSUME TypeOK, NEW r \in Requests, NEW step \in Steps,
           NEW d \in DJs \cup {NoDJ}, NEW s \in 0 .. MaxShows,
           NEW by \in {"host", "operator"}, Begin(r, step, d, s, by)
    PROVE  call' \in [Requests -> Calls]
<1>1. [Idle EXCEPT !.at = step, !.dj = d, !.show = s, !.by = by] \in Calls
  BY ZenonT(40) DEF Idle, Calls, Steps
<1> QED
  BY <1>1 DEF Begin, TypeOK

\* A handler that goes on leaves the calls typed.
LEMMA GotoTyped ==
    ASSUME TypeOK, NEW r \in Requests, NEW step \in Steps, Goto(r, step)
    PROVE  call' \in [Requests -> Calls]
<1>1. [call[r] EXCEPT !.at = step] \in Calls
  BY DEF TypeOK, Calls
<1> QED
  BY <1>1 DEF Goto, TypeOK

\* A handler that goes on about another show leaves the calls typed.
LEMMA GotoOnTyped ==
    ASSUME TypeOK, NEW r \in Requests, NEW step \in Steps,
           NEW s \in 0 .. MaxShows, GotoOn(r, step, s)
    PROVE  call' \in [Requests -> Calls]
<1>1. [call[r] EXCEPT !.at = step, !.show = s] \in Calls
  BY ZenonT(40) DEF TypeOK, Calls
<1> QED
  BY <1>1 DEF GotoOn, TypeOK

\* A handler that ends leaves the calls typed.
LEMMA DoneTyped ==
    ASSUME TypeOK, NEW r \in Requests, Done(r)
    PROVE  call' \in [Requests -> Calls]
<1>1. Idle \in Calls
  BY ShowAssumption DEF Idle, Calls, Steps
<1> QED
  BY <1>1 DEF Done, TypeOK

\* An insert leaves the flowsheet typed.
LEMMA LogTyped ==
    ASSUME TypeOK, NEW s, NEW type \in EntryTypes,
           NEW via \in {"backend", "webhook"}, Log(s, type, via)
    PROVE  log' \in [ShowIds -> Seq(Entries)]
<1>1. Entry(type, via) \in Entries
  BY DEF Entry, Entries
<1>2. \A t \in ShowIds : Append(log[t], Entry(type, via)) \in Seq(Entries)
  BY <1>1 DEF TypeOK
<1> QED
  BY <1>2 DEF Log, TypeOK

\* A notice is an insert or nothing.
LEMMA NoticeTyped ==
    ASSUME TypeOK, NEW s, Notice(s)
    PROVE  log' \in [ShowIds -> Seq(Entries)]
BY LogTyped DEF Notice, EntryTypes, TypeOK

\* A delete leaves the flowsheet typed.
LEMMA RemoveTyped ==
    ASSUME TypeOK, NEW s \in ShowIds, NEW i \in DOMAIN log[s], Remove(s, i)
    PROVE  log' \in [ShowIds -> Seq(Entries)]
<1>1. log[s] \in Seq(Entries)
  BY DEF TypeOK
<1>2. [log[s][i] EXCEPT !.gone = TRUE] \in Entries
  <2>1. log[s][i] \in Entries
    BY <1>1
  <2> QED
    BY <2>1 DEF Entries
<1>3. [log[s] EXCEPT ![i] = [log[s][i] EXCEPT !.gone = TRUE]] \in Seq(Entries)
  BY <1>1, <1>2
<1>4. log' = [log EXCEPT ![s] = [log[s] EXCEPT ![i] = [log[s][i] EXCEPT !.gone = TRUE]]]
  BY DEF Remove, TypeOK
<1> QED
  BY <1>3, <1>4 DEF TypeOK

\* The guarded UPDATE changes the end of an open show only.
LEMMA CloseTyped ==
    ASSUME TypeOK, NEW s, NEW by \in Closers, Close(s, by)
    PROVE  /\ end' \in [ShowIds -> {"none", "open"} \cup Closers]
           /\ \A t \in ShowIds : end'[t] = "none" <=> end[t] = "none"
BY DEF Close, TypeOK, Closers

\* The INSERT of a show is typed and opens the next row.
LEMMA InsertTyped ==
    ASSUME TypeOK, NEW d \in DJs \cup {NoDJ}, InsertShow(d)
    PROVE  /\ newest' \in 0 .. MaxShows
           /\ primary' \in [ShowIds -> DJs \cup {NoDJ}]
           /\ end' \in [ShowIds -> {"none", "open"} \cup Closers]
           /\ \A t \in ShowIds : end'[t] = "none" <=> t > newest'
BY ShowAssumption DEF InsertShow, TypeOK, ShowIds

\* A write of show_djs is typed.
LEMMA MemberTyped ==
    ASSUME TypeOK, NEW s, NEW d, NEW state \in {"none", "active", "inactive"},
           SetMember(s, d, state)
    PROVE  member' \in [ShowIds -> [DJs -> {"none", "active", "inactive"}]]
<1>1. \A t \in ShowIds : [member[t] EXCEPT ![d] = state] \in [DJs -> {"none", "active", "inactive"}]
  BY DEF TypeOK
<1> QED
  BY <1>1 DEF SetMember, TypeOK

(***************************************************************************)
(* The type invariant.                                                      *)
(***************************************************************************)
\* The steps of a go-live keep every variable typed.
LEMMA JoinTyped ==
    ASSUME TypeOK, NEW r \in Requests, JoinSteps(r)
    PROVE  TypeOK'
<1> USE ShowAssumption
<1>a. Show(r) \in 0 .. MaxShows /\ Dj(r) \in DJs \cup {NoDJ}
  BY DEF TypeOK, Calls, Show, Dj
<1>1. ASSUME NEW d \in DJs, Join(r, d) PROVE TypeOK'
  <2>1. newest \in 0 .. MaxShows
    BY DEF TypeOK
  <2> DEFINE step == IF OnAir THEN "isLatestEntryShowEnd" ELSE "startShow"
  <2>2. step \in Steps
    BY DEF Steps
  <2>3. Begin(r, step, d, newest, "host")
    BY <1>1 DEF Join
  <2> HIDE DEF step
  <2>4. call' \in [Requests -> Calls]
    BY <2>1, <2>2, <2>3, BeginTyped
  <2> QED
    BY <1>1, <2>4 DEF Join, TypeOK
<1>2. CASE IsLatestEntryShowEnd(r)
  <2>1. call' \in [Requests -> Calls]
    BY <1>2, <1>a, GotoTyped DEF IsLatestEntryShowEnd, Steps
  <2> QED
    BY <1>2, <2>1 DEF IsLatestEntryShowEnd, TypeOK
<1>3. CASE Backfill(r)
  <2>1. call' \in [Requests -> Calls]
    BY <1>3, <1>a, GotoTyped DEF Backfill, Steps
  <2> QED
    BY <1>3, <2>1, CloseTyped DEF Backfill, TypeOK, CloseFromMarker, Closers
<1>4. CASE StartShow(r)
  <2>1. newest + 1 \in 0 .. MaxShows
    BY <1>4 DEF StartShow, InsertShow, TypeOK
  <2>2. call' \in [Requests -> Calls]
    BY <1>4, <2>1, GotoOnTyped DEF StartShow, Steps
  <2> QED
    BY <1>4, <2>2, <1>a, InsertTyped DEF StartShow, TypeOK
<1>5. CASE StartMember(r)
  <2>1. call' \in [Requests -> Calls]
    BY <1>5, <1>a, GotoTyped DEF StartMember, Steps
  <2> QED
    BY <1>5, <2>1, MemberTyped DEF StartMember, TypeOK
<1>6. CASE StartMarker(r)
  <2>1. call' \in [Requests -> Calls]
    BY <1>6, <1>a, DoneTyped DEF StartMarker, Steps
  <2> QED
    BY <1>6, <2>1, LogTyped DEF StartMarker, TypeOK, EntryTypes
<1>7. CASE IsDjAlreadyActive(r)
  <2>1. call' \in [Requests -> Calls]
    BY <1>7, <1>a, GotoTyped, DoneTyped DEF IsDjAlreadyActive, Steps
  <2> QED
    BY <1>7, <2>1 DEF IsDjAlreadyActive, TypeOK
<1>8. CASE AddDJToShow(r)
  <2>1. call' \in [Requests -> Calls]
    BY <1>8, <1>a, GotoTyped, DoneTyped DEF AddDJToShow, Steps
  <2> QED
    BY <1>8, <2>1 DEF AddDJToShow, TypeOK
<1>9. CASE AddDJInsert(r)
  <2>1. call' \in [Requests -> Calls]
    BY <1>9, <1>a, GotoTyped, DoneTyped DEF AddDJInsert, Steps
  <2> QED
    BY <1>9, <2>1, MemberTyped DEF AddDJInsert, TypeOK
<1>10. CASE AddDJReactivate(r)
  <2>1. call' \in [Requests -> Calls]
    BY <1>10, <1>a, GotoTyped DEF AddDJReactivate, Steps
  <2> QED
    BY <1>10, <2>1, MemberTyped DEF AddDJReactivate, TypeOK
<1>11. CASE JoinMarker(r)
  <2>1. call' \in [Requests -> Calls]
    BY <1>11, <1>a, DoneTyped DEF JoinMarker, Steps
  <2> QED
    BY <1>11, <2>1, NoticeTyped DEF JoinMarker, TypeOK
<1> QED
  BY <1>1, <1>2, <1>3, <1>4, <1>5, <1>6, <1>7, <1>8, <1>9, <1>10, <1>11
  DEF JoinSteps

\* The steps of the routes behind the membership check keep every variable
\* typed.
LEMMA MembersTyped ==
    ASSUME TypeOK, NEW r \in Requests, MemberSteps(r)
    PROVE  TypeOK'
<1> USE ShowAssumption
<1>a. Show(r) \in 0 .. MaxShows /\ Dj(r) \in DJs \cup {NoDJ}
  BY DEF TypeOK, Calls, Show, Dj
<1>b. newest \in 0 .. MaxShows
  BY DEF TypeOK
<1>1. ASSUME NEW d \in DJs, NEW gate \in {"memberOfEnd", "memberOfAdd", "memberOfDelete"},
             ShowMember(r, d, gate)
      PROVE  TypeOK'
  <2>1. gate \in Steps
    BY DEF Steps
  <2>2. call' \in [Requests -> Calls]
    BY <1>1, <1>b, <2>1, BeginTyped DEF ShowMember
  <2> QED
    BY <1>1, <2>2 DEF ShowMember, TypeOK
<1>2. ASSUME NEW gate, NEW handler \in Steps, IsMember(r, gate, handler)
      PROVE  TypeOK'
  <2>1. call' \in [Requests -> Calls]
    BY <1>2, GotoTyped, DoneTyped DEF IsMember
  <2> QED
    BY <1>2, <2>1 DEF IsMember, TypeOK
<1>3. CASE LeaveShow(r)
  <2>1. call' \in [Requests -> Calls]
    BY <1>3, <1>a, <1>b, GotoOnTyped, DoneTyped DEF LeaveShow, Steps
  <2> QED
    BY <1>3, <2>1 DEF LeaveShow, TypeOK
<1>4. CASE LeaveDeactivate(r)
  <2>1. call' \in [Requests -> Calls]
    BY <1>4, <1>a, GotoTyped, DoneTyped DEF LeaveDeactivate, Steps
  <2> QED
    BY <1>4, <2>1, MemberTyped DEF LeaveDeactivate, TypeOK
<1>5. CASE LeaveMarker(r)
  <2>1. call' \in [Requests -> Calls]
    BY <1>5, <1>a, DoneTyped DEF LeaveMarker, Steps
  <2> QED
    BY <1>5, <2>1, NoticeTyped DEF LeaveMarker, TypeOK
<1>6. CASE AddEntry(r)
  <2>1. call' \in [Requests -> Calls]
    BY <1>6, <1>a, <1>b, GotoOnTyped, DoneTyped DEF AddEntry, Steps
  <2> QED
    BY <1>6, <2>1 DEF AddEntry, TypeOK
<1>7. CASE AddTrack(r)
  <2>1. call' \in [Requests -> Calls]
    BY <1>7, <1>a, DoneTyped DEF AddTrack, Steps
  <2> QED
    BY <1>7, <2>1, LogTyped DEF AddTrack, TypeOK, EntryTypes
<1>8. CASE DeleteEntry(r)
  <2>1. call' \in [Requests -> Calls]
    BY <1>8, <1>a, DoneTyped DEF DeleteEntry, Steps
  <2> QED
    BY <1>8, <2>1, RemoveTyped DEF DeleteEntry, TypeOK
<1>9. {"leaveShow", "addEntry", "deleteEntry"} \subseteq Steps
  BY DEF Steps
<1> QED
  BY <1>1, <1>2, <1>3, <1>4, <1>5, <1>6, <1>7, <1>8, <1>9 DEF MemberSteps

\* The steps of ending a show keep every variable typed.
LEMMA EndTyped ==
    ASSUME TypeOK, NEW r \in Requests, EndSteps(r)
    PROVE  TypeOK'
<1> USE ShowAssumption
<1>a. Show(r) \in 0 .. MaxShows /\ Dj(r) \in DJs \cup {NoDJ} /\ call[r] \in Calls
  BY DEF TypeOK, Calls, Show, Dj
<1>1. ASSUME NEW s \in ShowIds, NEW force \in BOOLEAN, ForceEndShow(r, s, force)
      PROVE  TypeOK'
  <2> DEFINE step == IF force THEN "endShow" ELSE "forceLatest"
  <2>1. step \in Steps /\ s \in 0 .. MaxShows
    BY DEF Steps, ShowIds
  <2>2. Begin(r, step, NoDJ, s, "operator")
    BY <1>1 DEF ForceEndShow
  <2> HIDE DEF step
  <2>3. call' \in [Requests -> Calls]
    BY <2>1, <2>2, BeginTyped
  <2> QED
    BY <1>1, <2>3 DEF ForceEndShow, TypeOK
<1>2. CASE ForceLatest(r)
  <2>1. call' \in [Requests -> Calls]
    BY <1>2, <1>a, GotoTyped DEF ForceLatest, Steps
  <2> QED
    BY <1>2, <2>1 DEF ForceLatest, TypeOK
<1>3. CASE ForceMarker(r)
  <2>1. call' \in [Requests -> Calls]
    BY <1>3, <1>a, GotoTyped, DoneTyped DEF ForceMarker, Steps
  <2> QED
    BY <1>3, <2>1 DEF ForceMarker, TypeOK
<1>4. CASE EndShow(r)
  <2>1. call' \in [Requests -> Calls]
    BY <1>4, GotoTyped, DoneTyped DEF EndShow, Steps
  <2>2. call[r].by \in Closers
    BY <1>a DEF Calls, Closers
  <2> QED
    BY <1>4, <2>1, <2>2, CloseTyped DEF EndShow, TypeOK
<1>5. ASSUME NEW todo \in SUBSET DJs, NEW owed \in SUBSET DJs,
             NEW broken \in BOOLEAN, Branches(r, todo, owed, broken)
      PROVE  call' \in [Requests -> Calls]
  <2>1. [call[r] EXCEPT !.todo = todo, !.owed = owed, !.broken = broken] \in Calls
    BY <1>a DEF Calls
  <2> QED
    BY <1>5, <2>1 DEF Branches, TypeOK
<1>b. Todo(r) \in SUBSET DJs /\ Owed(r) \in SUBSET DJs /\ call[r].broken \in BOOLEAN
  BY <1>a DEF Calls, Todo, Owed
<1>6. CASE RemainingDJs(r)
  <2>1. [call[r] EXCEPT !.at = "closing",
           !.todo = {d \in DJs : member[Show(r)][d] = "active"}] \in Calls
    BY <1>a DEF Calls, Steps
  <2> QED
    BY <1>6, <2>1 DEF RemainingDJs, TypeOK
<1>7. ASSUME NEW d \in DJs, Deactivate(r, d) PROVE TypeOK'
  <2>1. call' \in [Requests -> Calls]
    BY <1>7, <1>b, <1>5 DEF Deactivate
  <2> QED
    BY <1>7, <2>1, MemberTyped DEF Deactivate, TypeOK
<1>8. ASSUME NEW d \in DJs, GuestLeaves(r, d) PROVE TypeOK'
  <2>1. call' \in [Requests -> Calls]
    BY <1>8, <1>b, <1>5 DEF GuestLeaves
  <2> QED
    BY <1>8, <2>1, NoticeTyped DEF GuestLeaves, TypeOK
<1>9. ASSUME NEW d \in DJs, BranchFails(r, d) PROVE TypeOK'
  <2>1. call' \in [Requests -> Calls]
    BY <1>9, <1>b, <1>5 DEF BranchFails
  <2> QED
    BY <1>9, <2>1 DEF BranchFails, TypeOK
<1>10. CASE EndMarker(r)
  <2>1. call' \in [Requests -> Calls]
    BY <1>10, <1>a, GotoTyped DEF EndMarker, Steps
  <2> QED
    BY <1>10, <2>1, LogTyped DEF EndMarker, TypeOK, EntryTypes
<1>11. CASE Reply(r)
  <2>1. call' \in [Requests -> Calls]
    BY <1>11, <1>a, DoneTyped DEF Reply, Steps
  <2>2. \A s \in ShowIds : signedOff[s] + 1 \in Nat
    BY DEF TypeOK
  <2>3. signedOff' \in [ShowIds -> Nat]
    BY <1>11, <2>2 DEF Reply, TypeOK
  <2> QED
    BY <1>11, <2>1, <2>3 DEF Reply, TypeOK
<1> QED
  BY <1>1, <1>2, <1>3, <1>4, <1>6, <1>7, <1>8, <1>9, <1>10, <1>11 DEF EndSteps

\* The steps of the webhook keep every variable typed.
LEMMA WebhookTyped ==
    ASSUME TypeOK, NEW r \in Requests, WebhookSteps(r)
    PROVE  TypeOK'
<1> USE ShowAssumption
<1>a. Show(r) \in 0 .. MaxShows
  BY DEF TypeOK, Calls, Show
<1>b. "webhookEntry" \in Steps
  BY DEF Steps
<1>1. ASSUME NEW s \in ShowIds, Webhook(r, s) PROVE TypeOK'
  <2>1. s \in 0 .. MaxShows
    BY DEF ShowIds
  <2>2. call' \in [Requests -> Calls]
    BY <1>1, <1>b, <2>1, BeginTyped DEF Webhook
  <2> QED
    BY <1>1, <2>2 DEF Webhook, TypeOK
<1>2. CASE WebhookStub(r)
  <2>1. newest + 1 \in 0 .. MaxShows
    BY <1>2 DEF WebhookStub, InsertShow, TypeOK
  <2>2. call' \in [Requests -> Calls]
    BY <1>2, <1>b, <2>1, BeginTyped DEF WebhookStub
  <2> QED
    BY <1>2, <2>2, InsertTyped DEF WebhookStub, TypeOK
<1>3. ASSUME NEW type \in {"show_end", "track"}, WebhookEntry(r, type)
      PROVE  TypeOK'
  <2>1. call' \in [Requests -> Calls]
    BY <1>3, GotoTyped, DoneTyped DEF WebhookEntry, Steps
  <2>2. log' \in [ShowIds -> Seq(Entries)]
    BY <1>3, LogTyped DEF WebhookEntry, EntryTypes, TypeOK
  <2> QED
    BY <1>3, <2>1, <2>2 DEF WebhookEntry, TypeOK
<1>4. CASE WebhookClose(r)
  <2>1. call' \in [Requests -> Calls]
    BY <1>4, <1>a, DoneTyped DEF WebhookClose, Steps
  <2> QED
    BY <1>4, <2>1, CloseTyped DEF WebhookClose, TypeOK, Closers
<1> QED
  BY <1>1, <1>2, <1>3, <1>4 DEF WebhookSteps

\* TypeOK holds in every reachable state: in particular a show has an end, open
\* or written, exactly from its INSERT on.
THEOREM ShowTypeCorrect == Spec => []TypeOK
<1>1. Init => TypeOK
  <2>1. Idle \in Calls
    BY ShowAssumption DEF Idle, Calls, Steps
  <2> QED
    BY <2>1, ShowAssumption DEF Init, TypeOK, ShowIds
<1>2. TypeOK /\ [Next]_vars => TypeOK'
  <2> SUFFICES ASSUME TypeOK, [Next]_vars PROVE TypeOK'
    OBVIOUS
  <2>1. ASSUME NEW r \in Requests, Fail(r) PROVE TypeOK'
    <3>1. call' \in [Requests -> Calls]
      BY <2>1, DoneTyped DEF Fail
    <3> QED
      BY <2>1, <3>1 DEF Fail, TypeOK
  <2>2. ASSUME NEW s \in ShowIds, NEW i \in DOMAIN log[s], WebhookDelete(s, i)
        PROVE  TypeOK'
    BY <2>2, RemoveTyped DEF WebhookDelete, TypeOK
  <2>3. CASE UNCHANGED vars
    BY <2>3 DEF vars, TypeOK
  <2> QED
    BY <2>1, <2>2, <2>3, JoinTyped, MembersTyped, EndTyped, WebhookTyped DEF Next
<1> QED
  BY <1>1, <1>2, PTL DEF Spec

(***************************************************************************)
(* Ending a show: who is past the compare-and-set, and what is announced.   *)
(***************************************************************************)
\* The steps before endShow's compare-and-set, and those after it.
Enders == {"forceLatest", "forceMarker", "endShow"}
Closing == {"remaining", "closing", "reply"}

\* A handler about to end a show knows one.
EndersKnow == \A q \in Requests : call[q].at \in Enders => call[q].show \in ShowIds

\* A handler past the compare-and-set has its show to itself: the show is
\* closed by it, announced only when the reply is next, and not signed off.
OwnsShow(q) ==
  /\ call[q].show \in ShowIds
  /\ end[call[q].show] \in {"host", "operator"}
  /\ signedOff[call[q].show] = 0
  /\ Ends(call[q].show) = {} <=> call[q].at # "reply"

ClosingOwns ==
  /\ \A q \in Requests : call[q].at \in Closing => OwnsShow(q)
  /\ \A q, p \in Requests :
       call[q].at \in Closing /\ call[p].at \in Closing /\ q # p =>
         call[q].show # call[p].show

EndInv == EndersKnow /\ ClosingOwns /\ EndsOnce /\ SignOffOwnShow

\* What the column end_time can do in a step.
EndStep ==
  \/ end' = end
  \/ \E s \in ShowIds : end[s] = "none" /\ end' = [end EXCEPT ![s] = "open"]
  \/ \E s \in ShowIds, by \in Closers :
       /\ end[s] = "open" /\ end' = [end EXCEPT ![s] = by]
       /\ by = "backfill" => LastIsShowEnd(s)

\* A step in which no handler passes the compare-and-set or goes on to reply.
CallsMild ==
  /\ \A q \in Requests : call'[q].at \in Closing =>
       /\ call[q].at \in Closing
       /\ call'[q].show = call[q].show
       /\ call'[q].at = "reply" <=> call[q].at = "reply"
  /\ \A q \in Requests : call'[q].at \in Enders => call'[q].show \in ShowIds

\* A step that announces nothing and signs nothing off.
EndsKept == \A s \in ShowIds : Ends(s)' = Ends(s)
Mild == EndStep /\ CallsMild /\ EndsKept /\ signedOff' = signedOff

\* A move of one handler to a step outside Closing is mild.
LEMMA MovesMild ==
    ASSUME TypeOK, EndersKnow, NEW r \in Requests, NEW new,
           call' = [call EXCEPT ![r] = new], new.at \notin Closing,
           new.at \in Enders => new.show \in ShowIds
    PROVE  CallsMild
BY DEF TypeOK, EndersKnow, CallsMild

\* A handler that goes on to a step outside Closing is mild.
LEMMA GotoMild ==
    ASSUME TypeOK, EndersKnow, NEW r \in Requests, NEW step \in Steps \ Closing,
           Goto(r, step), step \in Enders => call[r].show \in ShowIds
    PROVE  CallsMild
<1> DEFINE new == [call[r] EXCEPT !.at = step]
<1>1. new.at = step /\ new.show = call[r].show /\ call' = [call EXCEPT ![r] = new]
  BY DEF Goto, TypeOK, Calls
<1> QED
  BY <1>1, MovesMild

\* The same for one that goes on about another show.
LEMMA GotoOnMild ==
    ASSUME TypeOK, EndersKnow, NEW r \in Requests, NEW step \in Steps \ Closing,
           NEW s, GotoOn(r, step, s), step \in Enders => s \in ShowIds
    PROVE  CallsMild
<1> DEFINE new == [call[r] EXCEPT !.at = step, !.show = s]
<1>1. new.at = step /\ new.show = s /\ call' = [call EXCEPT ![r] = new]
  BY DEF GotoOn, TypeOK, Calls
<1> QED
  BY <1>1, MovesMild

\* The same for one that begins.
LEMMA BeginMild ==
    ASSUME TypeOK, EndersKnow, NEW r \in Requests, NEW step \in Steps \ Closing,
           NEW d, NEW s, NEW by, Begin(r, step, d, s, by),
           step \in Enders => s \in ShowIds
    PROVE  CallsMild
<1> DEFINE new == [Idle EXCEPT !.at = step, !.dj = d, !.show = s, !.by = by]
<1>1. new.at = step /\ new.show = s /\ call' = [call EXCEPT ![r] = new]
  BY DEF Begin, Idle
<1> QED
  BY <1>1, MovesMild

\* The same for one that ends.
LEMMA DoneMild ==
    ASSUME TypeOK, EndersKnow, NEW r \in Requests, Done(r)
    PROVE  CallsMild
<1>1. Idle.at = "idle"
  BY DEF Idle
<1> QED
  BY <1>1, MovesMild DEF Done, Closing, Enders

\* An insert that is not our own show_end announces nothing.
LEMMA LogKeepsEnds ==
    ASSUME TypeOK, NEW s, NEW type \in EntryTypes, NEW via \in {"backend", "webhook"},
           Log(s, type, via), type # "show_end" \/ via # "backend"
    PROVE  EndsKept
<1> SUFFICES ASSUME NEW t \in ShowIds PROVE Ends(t)' = Ends(t)
  BY DEF EndsKept
<1>1. log[t] \in Seq(Entries) /\ Len(log[t]) \in Nat
  BY DEF TypeOK
<1>2. CASE t = s
  <2> DEFINE e == Entry(type, via)
  <2>1. log'[t] = Append(log[t], e)
    BY <1>2 DEF Log, TypeOK
  <2>2. e.type = type /\ e.via = via /\ e \in Entries
    BY DEF Entry, Entries
  <2> HIDE DEF e
  <2>3. DOMAIN log'[t] = 1 .. Len(log[t]) + 1 /\ DOMAIN log[t] = 1 .. Len(log[t])
    BY <1>1, <2>1, <2>2
  <2>4. log'[t][Len(log[t]) + 1] = e
    BY <1>1, <2>1, <2>2
  <2>5. \A i \in 1 .. Len(log[t]) : log'[t][i] = log[t][i]
    BY <1>1, <2>1, <2>2
  <2> QED
    BY <1>1, <2>2, <2>3, <2>4, <2>5 DEF Ends
<1>3. CASE t # s
  BY <1>3 DEF Log, TypeOK, Ends
<1> QED
  BY <1>2, <1>3

\* A notice announces no end.
LEMMA NoticeKeepsEnds ==
    ASSUME TypeOK, NEW s, Notice(s)
    PROVE  EndsKept
<1>1. CASE Log(s, "notice", "backend")
  BY <1>1, LogKeepsEnds DEF EntryTypes
<1>2. CASE UNCHANGED log
  BY <1>2 DEF EndsKept, Ends
<1> QED
  BY <1>1, <1>2 DEF Notice

\* A delete leaves the history of ends: the row is gone, not forgotten.
LEMMA RemoveKeepsEnds ==
    ASSUME TypeOK, NEW s \in ShowIds, NEW i \in DOMAIN log[s], Remove(s, i)
    PROVE  EndsKept
<1> SUFFICES ASSUME NEW t \in ShowIds PROVE Ends(t)' = Ends(t)
  BY DEF EndsKept
<1>1. CASE t = s
  <2>1. log[s] \in Seq(Entries)
    BY DEF TypeOK
  <2>2. log'[s] = [log[s] EXCEPT ![i] = [log[s][i] EXCEPT !.gone = TRUE]]
    BY DEF Remove, TypeOK
  <2>3. DOMAIN log'[s] = DOMAIN log[s]
    BY <2>2
  <2>4. log[s][i] \in Entries
    BY <2>1
  <2>5. [log[s][i] EXCEPT !.gone = TRUE].type = log[s][i].type
        /\ [log[s][i] EXCEPT !.gone = TRUE].via = log[s][i].via
    BY <2>4 DEF Entries
  <2>6. \A j \in DOMAIN log[s] : log'[s][j].type = log[s][j].type
                               /\ log'[s][j].via = log[s][j].via
    BY <2>2, <2>5
  <2> QED
    BY <1>1, <2>3, <2>6 DEF Ends
<1>2. CASE t # s
  BY <1>2 DEF Remove, TypeOK, Ends
<1> QED
  BY <1>1, <1>2

\* The guarded UPDATE is a step of end_time.
LEMMA CloseIsEndStep ==
    ASSUME TypeOK, NEW s, NEW by \in Closers, Close(s, by),
           by = "backfill" => LastIsShowEnd(s)
    PROVE  EndStep
<1>1. CASE s \in ShowIds /\ end[s] = "open"
  BY <1>1 DEF Close, EndStep
<1>2. CASE ~(s \in ShowIds /\ end[s] = "open")
  <2>1. end' = end
    BY <1>2 DEF Close, TypeOK
  <2> QED
    BY <2>1 DEF EndStep
<1> QED
  BY <1>1, <1>2

\* The INSERT of a show is a step of end_time.
LEMMA InsertIsEndStep ==
    ASSUME TypeOK, NEW d, InsertShow(d)
    PROVE  EndStep
<1>1. newest + 1 \in ShowIds /\ newest + 1 > newest
  BY ShowAssumption DEF InsertShow, TypeOK, ShowIds
<1>2. end[newest + 1] = "none"
  BY <1>1 DEF TypeOK
<1> QED
  BY <1>1, <1>2 DEF InsertShow, EndStep

\* A go-live is mild.
LEMMA JoinMild ==
    ASSUME TypeOK, EndersKnow, NEW r \in Requests, JoinSteps(r)
    PROVE  Mild
<1>a. newest \in 0 .. MaxShows
  BY DEF TypeOK
<1>1. ASSUME NEW d \in DJs, Join(r, d) PROVE Mild
  <2> DEFINE step == IF OnAir THEN "isLatestEntryShowEnd" ELSE "startShow"
  <2>1. step \in Steps \ Closing /\ step \notin Enders
    BY DEF Steps, Closing, Enders
  <2>2. Begin(r, step, d, newest, "host")
    BY <1>1 DEF Join
  <2> HIDE DEF step
  <2>3. CallsMild
    BY <2>1, <2>2, BeginMild
  <2> QED
    BY <1>1, <2>3 DEF Join, Mild, EndStep, EndsKept, Ends
<1>2. CASE IsLatestEntryShowEnd(r)
  <2>1. CallsMild
    BY <1>2, <1>a, GotoMild DEF IsLatestEntryShowEnd, Enders, Closing, Steps
  <2> QED
    BY <1>2, <2>1 DEF IsLatestEntryShowEnd, Mild, EndStep, EndsKept, Ends
<1>3. CASE Backfill(r)
  <2>1. CallsMild
    BY <1>3, GotoMild DEF Backfill, Enders, Closing, Steps
  <2>2. EndStep
    <3>1. CASE LastIsShowEnd(Show(r)) /\ Close(Show(r), "backfill")
      BY <3>1, CloseIsEndStep DEF Closers
    <3>2. CASE UNCHANGED end
      BY <3>2 DEF EndStep
    <3> QED
      BY <1>3, <3>1, <3>2 DEF Backfill, CloseFromMarker
  <2> QED
    BY <1>3, <2>1, <2>2 DEF Backfill, Mild, EndsKept, Ends
<1>4. CASE StartShow(r)
  <2>1. CallsMild
    BY <1>4, GotoOnMild DEF StartShow, Enders, Closing, Steps
  <2>2. EndStep
    BY <1>4, InsertIsEndStep DEF StartShow
  <2> QED
    BY <1>4, <2>1, <2>2 DEF StartShow, Mild, EndsKept, Ends
<1>5. CASE StartMember(r)
  <2>1. CallsMild
    BY <1>5, <1>a, GotoMild DEF StartMember, Enders, Closing, Steps
  <2> QED
    BY <1>5, <2>1 DEF StartMember, Mild, EndStep, EndsKept, Ends
<1>6. CASE StartMarker(r)
  <2>1. CallsMild
    BY <1>6, DoneMild DEF StartMarker, Enders, Closing, Steps
  <2>2. EndsKept
    BY <1>6, LogKeepsEnds DEF StartMarker, EntryTypes
  <2> QED
    BY <1>6, <2>1, <2>2 DEF StartMarker, Mild, EndStep
<1>7. CASE IsDjAlreadyActive(r)
  <2>1. CallsMild
    BY <1>7, <1>a, GotoMild, DoneMild DEF IsDjAlreadyActive, Enders, Closing, Steps
  <2> QED
    BY <1>7, <2>1 DEF IsDjAlreadyActive, Mild, EndStep, EndsKept, Ends
<1>8. CASE AddDJToShow(r)
  <2>1. CallsMild
    BY <1>8, <1>a, GotoMild, DoneMild DEF AddDJToShow, Enders, Closing, Steps
  <2> QED
    BY <1>8, <2>1 DEF AddDJToShow, Mild, EndStep, EndsKept, Ends
<1>9. CASE AddDJInsert(r)
  <2>1. CallsMild
    BY <1>9, <1>a, GotoMild, DoneMild DEF AddDJInsert, Enders, Closing, Steps
  <2> QED
    BY <1>9, <2>1 DEF AddDJInsert, Mild, EndStep, EndsKept, Ends
<1>10. CASE AddDJReactivate(r)
  <2>1. CallsMild
    BY <1>10, <1>a, GotoMild DEF AddDJReactivate, Enders, Closing, Steps
  <2> QED
    BY <1>10, <2>1 DEF AddDJReactivate, Mild, EndStep, EndsKept, Ends
<1>11. CASE JoinMarker(r)
  <2>1. CallsMild
    BY <1>11, DoneMild DEF JoinMarker, Enders, Closing, Steps
  <2>2. EndsKept
    BY <1>11, NoticeKeepsEnds DEF JoinMarker, EntryTypes
  <2> QED
    BY <1>11, <2>1, <2>2 DEF JoinMarker, Mild, EndStep
<1> QED
  BY <1>1, <1>2, <1>3, <1>4, <1>5, <1>6, <1>7, <1>8, <1>9, <1>10, <1>11
  DEF JoinSteps

\* The routes behind the membership check are mild up to endShow.
LEMMA MembersMild ==
    ASSUME TypeOK, EndersKnow, NEW r \in Requests, MemberSteps(r)
    PROVE  Mild
<1>a. OnAir => newest \in ShowIds
  BY ShowAssumption DEF TypeOK, OnAir, ShowIds
<1>1. ASSUME NEW d \in DJs, NEW gate \in {"memberOfEnd", "memberOfAdd", "memberOfDelete"},
             ShowMember(r, d, gate)
      PROVE  Mild
  <2>1. gate \in Steps \ Closing /\ gate \notin Enders
    BY DEF Steps, Closing, Enders
  <2>2. CallsMild
    BY <1>1, <2>1, BeginMild DEF ShowMember
  <2> QED
    BY <1>1, <2>2 DEF ShowMember, Mild, EndStep, EndsKept, Ends
<1>2. ASSUME NEW gate, NEW handler \in Steps \ (Closing \cup Enders), IsMember(r, gate, handler)
      PROVE  Mild
  <2>1. CallsMild
    BY <1>2, GotoMild, DoneMild DEF IsMember
  <2> QED
    BY <1>2, <2>1 DEF IsMember, Mild, EndStep, EndsKept, Ends
<1>3. CASE LeaveShow(r)
  <2>1. CallsMild
    <3>1. CASE OnAir
      <4> DEFINE step == IF primary[newest] = Dj(r) THEN "endShow" ELSE "leaveDeactivate"
      <4>1. step \in Steps \ Closing
        BY DEF Steps, Closing
      <4>2. GotoOn(r, step, newest)
        BY <1>3, <3>1 DEF LeaveShow
      <4> HIDE DEF step
      <4> QED
        BY <3>1, <1>a, <4>1, <4>2, GotoOnMild
    <3>2. CASE ~OnAir
      BY <1>3, <3>2, DoneMild DEF LeaveShow
    <3> QED
      BY <3>1, <3>2
  <2> QED
    BY <1>3, <2>1 DEF LeaveShow, Mild, EndStep, EndsKept, Ends
<1>4. CASE LeaveDeactivate(r)
  <2>1. CallsMild
    BY <1>4, <1>a, GotoMild, DoneMild DEF LeaveDeactivate, Enders, Closing, Steps
  <2> QED
    BY <1>4, <2>1 DEF LeaveDeactivate, Mild, EndStep, EndsKept, Ends
<1>5. CASE LeaveMarker(r)
  <2>1. CallsMild
    BY <1>5, DoneMild DEF LeaveMarker, Enders, Closing, Steps
  <2>2. EndsKept
    BY <1>5, NoticeKeepsEnds DEF LeaveMarker, EntryTypes
  <2> QED
    BY <1>5, <2>1, <2>2 DEF LeaveMarker, Mild, EndStep
<1>6. CASE AddEntry(r)
  <2>1. CallsMild
    BY <1>6, <1>a, GotoOnMild, DoneMild DEF AddEntry, Enders, Closing, Steps
  <2> QED
    BY <1>6, <2>1 DEF AddEntry, Mild, EndStep, EndsKept, Ends
<1>7. CASE AddTrack(r)
  <2>1. CallsMild
    BY <1>7, DoneMild DEF AddTrack, Enders, Closing, Steps
  <2>2. EndsKept
    BY <1>7, LogKeepsEnds DEF AddTrack, EntryTypes
  <2> QED
    BY <1>7, <2>1, <2>2 DEF AddTrack, Mild, EndStep
<1>8. CASE DeleteEntry(r)
  <2>1. CallsMild
    BY <1>8, DoneMild DEF DeleteEntry, Enders, Closing, Steps
  <2>2. EndsKept
    BY <1>8, RemoveKeepsEnds DEF DeleteEntry, EntryTypes
  <2> QED
    BY <1>8, <2>1, <2>2 DEF DeleteEntry, Mild, EndStep
<1>9. {"leaveShow", "addEntry", "deleteEntry"} \subseteq Steps \ (Closing \cup Enders)
  BY DEF Steps, Closing, Enders
<1> QED
  BY <1>1, <1>2, <1>3, <1>4, <1>5, <1>6, <1>7, <1>8, <1>9 DEF MemberSteps

\* endShow's compare-and-set, won.
Claims(r) == EndShow(r) /\ end[Show(r)] = "open"

\* A branch of the fan-out is mild.
LEMMA BranchMild ==
    ASSUME TypeOK, EndersKnow, NEW r \in Requests, NEW todo, NEW owed, NEW broken,
           At(r, "closing"), Branches(r, todo, owed, broken)
    PROVE  CallsMild
<1> DEFINE new == [call[r] EXCEPT !.todo = todo, !.owed = owed, !.broken = broken]
<1>1. call' = [call EXCEPT ![r] = new] /\ new.at = call[r].at /\ new.show = call[r].show
  BY DEF Branches, TypeOK, Calls
<1>2. call[r].at = "closing"
  BY DEF At
<1> HIDE DEF new
<1> QED
  BY <1>1, <1>2 DEF CallsMild, TypeOK, EndersKnow, Closing, Enders

\* Ending a show is mild but for the compare-and-set that is won, the marker
\* and the reply.
LEMMA EndMild ==
    ASSUME TypeOK, EndersKnow, NEW r \in Requests, EndSteps(r)
    PROVE  Mild \/ Claims(r) \/ EndMarker(r) \/ Reply(r)
<1>1. ASSUME NEW s \in ShowIds, NEW force \in BOOLEAN, ForceEndShow(r, s, force)
      PROVE  Mild
  <2> DEFINE step == IF force THEN "endShow" ELSE "forceLatest"
  <2>1. step \in Steps \ Closing
    BY DEF Steps, Closing
  <2>2. Begin(r, step, NoDJ, s, "operator")
    BY <1>1 DEF ForceEndShow
  <2> HIDE DEF step
  <2>3. CallsMild
    BY <2>1, <2>2, BeginMild
  <2> QED
    BY <1>1, <2>3 DEF ForceEndShow, Mild, EndStep, EndsKept, Ends
<1>2. CASE ForceLatest(r)
  <2>1. call[r].show \in ShowIds
    BY <1>2 DEF ForceLatest, At, EndersKnow, Enders
  <2>2. CallsMild
    BY <1>2, <2>1, GotoMild DEF ForceLatest, Steps, Closing
  <2> QED
    BY <1>2, <2>2 DEF ForceLatest, Mild, EndStep, EndsKept, Ends
<1>3. CASE ForceMarker(r)
  <2>1. call[r].show \in ShowIds
    BY <1>3 DEF ForceMarker, At, EndersKnow, Enders
  <2>2. CallsMild
    BY <1>3, <2>1, GotoMild, DoneMild DEF ForceMarker, Steps, Closing
  <2> QED
    BY <1>3, <2>2 DEF ForceMarker, Mild, EndStep, EndsKept, Ends
<1>4. CASE EndShow(r) /\ ~Claims(r)
  <2>1. Done(r) /\ Close(Show(r), call[r].by)
    BY <1>4 DEF EndShow, Claims
  <2>2. CallsMild
    BY <2>1, DoneMild
  <2>3. EndStep
    BY <1>4, <2>1, CloseIsEndStep DEF TypeOK, Calls, Closers
  <2> QED
    BY <1>4, <2>2, <2>3 DEF EndShow, Mild, EndsKept, Ends
<1>5. CASE RemainingDJs(r)
  <2> DEFINE new == [call[r] EXCEPT !.at = "closing",
                      !.todo = {d \in DJs : member[Show(r)][d] = "active"}]
  <2>1. call' = [call EXCEPT ![r] = new] /\ new.at = "closing" /\ new.show = call[r].show
    BY <1>5 DEF RemainingDJs, TypeOK, Calls
  <2>2. call[r].at = "remaining"
    BY <1>5 DEF RemainingDJs, At
  <2> HIDE DEF new
  <2>3. CallsMild
    BY <2>1, <2>2 DEF CallsMild, TypeOK, EndersKnow, Closing, Enders
  <2> QED
    BY <1>5, <2>3 DEF RemainingDJs, Mild, EndStep, EndsKept, Ends
<1>6. ASSUME NEW d \in DJs, Deactivate(r, d) PROVE Mild
  <2>1. CallsMild
    BY <1>6, BranchMild DEF Deactivate
  <2> QED
    BY <1>6, <2>1 DEF Deactivate, Mild, EndStep, EndsKept, Ends
<1>7. ASSUME NEW d \in DJs, GuestLeaves(r, d) PROVE Mild
  <2>1. CallsMild
    BY <1>7, BranchMild DEF GuestLeaves
  <2>2. EndsKept
    BY <1>7, NoticeKeepsEnds DEF GuestLeaves
  <2> QED
    BY <1>7, <2>1, <2>2 DEF GuestLeaves, Mild, EndStep
<1>8. ASSUME NEW d \in DJs, BranchFails(r, d) PROVE Mild
  <2>1. CallsMild
    BY <1>8, BranchMild DEF BranchFails
  <2> QED
    BY <1>8, <2>1 DEF BranchFails, Mild, EndStep, EndsKept, Ends
<1> QED
  BY <1>1, <1>2, <1>3, <1>4, <1>5, <1>6, <1>7, <1>8 DEF EndSteps

\* The webhook is mild: its show_end is not ours.
LEMMA WebhookMild ==
    ASSUME TypeOK, EndersKnow, NEW r \in Requests, WebhookSteps(r)
    PROVE  Mild
<1>1. ASSUME NEW s \in ShowIds, Webhook(r, s) PROVE Mild
  <2>1. CallsMild
    BY <1>1, BeginMild DEF Webhook, Steps, Closing, Enders
  <2> QED
    BY <1>1, <2>1 DEF Webhook, Mild, EndStep, EndsKept, Ends
<1>2. CASE WebhookStub(r)
  <2>1. CallsMild
    BY <1>2, BeginMild DEF WebhookStub, Steps, Closing, Enders
  <2>2. EndStep
    BY <1>2, InsertIsEndStep DEF WebhookStub
  <2> QED
    BY <1>2, <2>1, <2>2 DEF WebhookStub, Mild, EndsKept, Ends
<1>3. ASSUME NEW type \in {"show_end", "track"}, WebhookEntry(r, type) PROVE Mild
  <2>1. CallsMild
    BY <1>3, GotoMild, DoneMild DEF WebhookEntry, Steps, Closing, Enders
  <2>2. EndsKept
    <3>1. CASE Log(Show(r), type, "webhook")
      BY <3>1, LogKeepsEnds DEF EntryTypes
    <3>2. CASE UNCHANGED log
      BY <3>2 DEF EndsKept, Ends
    <3> QED
      BY <1>3, <3>1, <3>2 DEF WebhookEntry
  <2> QED
    BY <1>3, <2>1, <2>2 DEF WebhookEntry, Mild, EndStep
<1>4. CASE WebhookClose(r)
  <2>1. CallsMild
    BY <1>4, DoneMild DEF WebhookClose
  <2>2. EndStep
    BY <1>4, CloseIsEndStep DEF WebhookClose, Closers
  <2> QED
    BY <1>4, <2>1, <2>2 DEF WebhookClose, Mild, EndsKept, Ends
<1> QED
  BY <1>1, <1>2, <1>3, <1>4 DEF WebhookSteps

\* Every step is mild or one of the three that make a show's end.
LEMMA StepKinds ==
    ASSUME TypeOK, EndersKnow, [Next]_vars
    PROVE  Mild \/ \E r \in Requests : Claims(r) \/ EndMarker(r) \/ Reply(r)
<1>1. ASSUME NEW r \in Requests, Fail(r) PROVE Mild
  <2>1. CallsMild
    BY <1>1, DoneMild DEF Fail
  <2> QED
    BY <1>1, <2>1 DEF Fail, Mild, EndStep, EndsKept, Ends
<1>2. ASSUME NEW s \in ShowIds, NEW i \in DOMAIN log[s], WebhookDelete(s, i) PROVE Mild
  <2>1. EndsKept
    BY <1>2, RemoveKeepsEnds DEF WebhookDelete
  <2> QED
    BY <1>2, <2>1 DEF WebhookDelete, Mild, EndStep, CallsMild, EndersKnow
<1>3. CASE UNCHANGED vars
  BY <1>3 DEF vars, Mild, EndStep, EndsKept, Ends, CallsMild, EndersKnow
<1>4. ASSUME NEW r \in Requests, JoinSteps(r) PROVE Mild
  BY <1>4, JoinMild
<1>5. ASSUME NEW r \in Requests, MemberSteps(r) PROVE Mild
  BY <1>5, MembersMild
<1>6. ASSUME NEW r \in Requests, WebhookSteps(r) PROVE Mild
  BY <1>6, WebhookMild
<1>7. ASSUME NEW r \in Requests, EndSteps(r)
      PROVE  Mild \/ Claims(r) \/ EndMarker(r) \/ Reply(r)
  BY <1>7, EndMild
<1> QED
  BY <1>1, <1>2, <1>3, <1>4, <1>5, <1>6, <1>7 DEF Next

\* Whatever a mild step does to end_time, a written end stays.
LEMMA WrittenEndStays ==
    ASSUME TypeOK, EndStep, NEW s \in ShowIds, end[s] \in Closers
    PROVE  end'[s] = end[s]
BY DEF EndStep, TypeOK, Closers

\* How OwnsShow is established for the next state.
LEMMA OwnsNext ==
    ASSUME NEW q, NEW x \in ShowIds, call'[q].show = x,
           end'[x] \in {"host", "operator"}, signedOff'[x] = 0,
           Ends(x)' = {} <=> call'[q].at # "reply"
    PROVE  OwnsShow(q)'
BY DEF OwnsShow, Ends

\* EndInv survives a mild step.
LEMMA MildKeepsInv ==
    ASSUME TypeOK, EndInv, Mild
    PROVE  EndInv'
<1>1. \A s \in ShowIds : end[s] \in {"host", "operator"} => end'[s] = end[s]
  BY WrittenEndStays DEF Mild, Closers
<1>2. \A s \in ShowIds : Ends(s)' = Ends(s)
  BY DEF Mild, EndsKept
<1>3. EndersKnow'
  BY DEF Mild, CallsMild, EndersKnow
<1>4. ClosingOwns'
  <2>1. ASSUME NEW q \in Requests, call'[q].at \in Closing
        PROVE  OwnsShow(q)'
    <3>1. /\ call[q].at \in Closing
          /\ call'[q].show = call[q].show
          /\ call'[q].at = "reply" <=> call[q].at = "reply"
      BY <2>1 DEF Mild, CallsMild
    <3>2. PICK x \in ShowIds :
            /\ x = call[q].show
            /\ end[x] \in {"host", "operator"}
            /\ signedOff[x] = 0
            /\ Ends(x) = {} <=> call[q].at # "reply"
      BY <3>1 DEF EndInv, ClosingOwns, OwnsShow
    <3> QED
      BY <3>1, <3>2, <1>1, <1>2, OwnsNext DEF Mild
  <2>2. ASSUME NEW q \in Requests, NEW p \in Requests,
               call'[q].at \in Closing, call'[p].at \in Closing, q # p
        PROVE  call'[q].show # call'[p].show
    BY <2>2 DEF Mild, CallsMild, EndInv, ClosingOwns
  <2> QED
    BY <2>1, <2>2 DEF ClosingOwns
<1>5. EndsOnce'
  BY <1>1, <1>2 DEF EndInv, EndsOnce
<1>6. SignOffOwnShow'
  BY <1>2 DEF EndInv, SignOffOwnShow, Mild
<1> QED
  BY <1>3, <1>4, <1>5, <1>6 DEF EndInv

\* EndInv survives the compare-and-set: the show was open, so nobody else was
\* past it and nothing was announced.
LEMMA ClaimKeepsInv ==
    ASSUME TypeOK, EndInv, NEW r \in Requests, Claims(r), NEW s, s = Show(r)
    PROVE  /\ EndInv'
           /\ EndStep /\ EndsKept /\ signedOff' = signedOff
<1> DEFINE new == [call[r] EXCEPT !.at = "remaining"]
<1>1. s = call[r].show /\ s \in ShowIds /\ end[s] = "open" /\ call[r].by \in {"host", "operator"}
  BY DEF Claims, EndShow, At, Show, EndInv, EndersKnow, Enders, TypeOK, Calls
<1>2. /\ end' = [end EXCEPT ![s] = call[r].by]
      /\ call' = [call EXCEPT ![r] = new]
      /\ new.at = "remaining" /\ new.show = s
      /\ UNCHANGED <<log, signedOff>>
  BY <1>1 DEF Claims, EndShow, Close, Goto, Show, TypeOK, Calls
<1>3. EndStep
  BY <1>1, <1>2, CloseIsEndStep DEF Claims, EndShow, Closers
<1>4. EndsKept /\ \A t \in ShowIds : Ends(t)' = Ends(t)
  BY <1>2 DEF EndsKept, Ends
<1>5. Ends(s) = {} /\ signedOff[s] = 0
  <2>1. Ends(s) = {}
    BY <1>1 DEF EndInv, EndsOnce
  <2>2. signedOff[s] \in Nat /\ signedOff[s] <= 1 /\ signedOff[s] # 1
    BY <1>1, <2>1 DEF EndInv, SignOffOwnShow, TypeOK
  <2> QED
    BY <2>1, <2>2
<1> HIDE DEF new
<1>6. end'[s] \in {"host", "operator"} /\ \A t \in ShowIds : t # s => end'[t] = end[t]
  BY <1>1, <1>2 DEF TypeOK
<1>7. call'[r] = new /\ \A q \in Requests : q # r => call'[q] = call[q]
  BY <1>2 DEF TypeOK
<1>8. \A q \in Requests : call[q].at \in Closing => call[q].show # s
  BY <1>1 DEF EndInv, ClosingOwns, OwnsShow
<1>9. EndersKnow'
  BY <1>7, <1>2 DEF EndersKnow, EndInv, Enders
<1>10. ClosingOwns'
  <2>1. ASSUME NEW q \in Requests, call'[q].at \in Closing
        PROVE  OwnsShow(q)'
    <3>1. CASE q = r
      BY <3>1, <1>1, <1>2, <1>4, <1>5, <1>6, <1>7, OwnsNext
    <3>2. CASE q # r
      <4>1. PICK x \in ShowIds :
              /\ x = call[q].show /\ x # s /\ call'[q] = call[q]
              /\ end[x] \in {"host", "operator"}
              /\ signedOff[x] = 0
              /\ Ends(x) = {} <=> call[q].at # "reply"
        BY <2>1, <3>2, <1>7, <1>8 DEF EndInv, ClosingOwns, OwnsShow
      <4> QED
        BY <4>1, <1>2, <1>4, <1>6, OwnsNext
    <3> QED
      BY <3>1, <3>2
  <2>2. ASSUME NEW q \in Requests, NEW p \in Requests,
               call'[q].at \in Closing, call'[p].at \in Closing, q # p
        PROVE  call'[q].show # call'[p].show
    BY <2>2, <1>2, <1>7, <1>8 DEF EndInv, ClosingOwns
  <2> QED
    BY <2>1, <2>2 DEF ClosingOwns
<1>11. EndsOnce'
  BY <1>4, <1>5, <1>6 DEF EndInv, EndsOnce
<1>12. SignOffOwnShow'
  BY <1>4, <1>2 DEF EndInv, SignOffOwnShow
<1> QED
  BY <1>2, <1>3, <1>4, <1>9, <1>10, <1>11, <1>12 DEF EndInv

\* EndInv survives the marker: the show belonged to this handler alone.
LEMMA MarkerKeepsInv ==
    ASSUME TypeOK, EndInv, NEW r \in Requests, EndMarker(r), NEW s, s = Show(r)
    PROVE  /\ EndInv'
           /\ end' = end /\ signedOff' = signedOff
           /\ s \in ShowIds /\ end[s] \in {"host", "operator"}
           /\ Ends(s) = {}
           /\ \E i : Ends(s)' = {i}
           /\ \A t \in ShowIds : t # s => Ends(t)' = Ends(t)
<1> DEFINE new == [call[r] EXCEPT !.at = "reply"]
           e == Entry("show_end", "backend")
<1>1. /\ s = call[r].show /\ s \in ShowIds /\ end[s] \in {"host", "operator"}
      /\ signedOff[s] = 0 /\ Ends(s) = {} /\ call[r].at = "closing"
  BY DEF EndMarker, At, Show, EndInv, ClosingOwns, OwnsShow, Closing
<1>2. /\ call' = [call EXCEPT ![r] = new]
      /\ new.at = "reply" /\ new.show = s
      /\ UNCHANGED <<end, signedOff>>
      /\ log' = [log EXCEPT ![s] = Append(log[s], e)]
  BY DEF EndMarker, Log, Goto, Show, TypeOK, Calls
<1>3. log[s] \in Seq(Entries) /\ Len(log[s]) \in Nat
  BY <1>1 DEF TypeOK
<1>4. e.type = "show_end" /\ e.via = "backend" /\ e \in Entries
  BY DEF Entry, Entries, EntryTypes
<1> HIDE DEF new, e
<1>5. Ends(s)' = {Len(log[s]) + 1}
  <2>1. log'[s] = Append(log[s], e)
    BY <1>1, <1>2 DEF TypeOK
  <2>2. DOMAIN log'[s] = 1 .. Len(log[s]) + 1 /\ DOMAIN log[s] = 1 .. Len(log[s])
    BY <1>3, <1>4, <2>1
  <2>3. log'[s][Len(log[s]) + 1] = e
    BY <1>3, <1>4, <2>1
  <2>4. \A i \in 1 .. Len(log[s]) : log'[s][i] = log[s][i]
    BY <1>3, <1>4, <2>1
  <2>5. \A i \in 1 .. Len(log[s]) : ~(log[s][i].type = "show_end" /\ log[s][i].via = "backend")
    BY <1>1, <2>2 DEF Ends
  <2>6. \A i \in DOMAIN log'[s] :
          log'[s][i].type = "show_end" /\ log'[s][i].via = "backend" <=> i = Len(log[s]) + 1
    BY <1>3, <1>4, <2>2, <2>3, <2>4, <2>5
  <2>7. Len(log[s]) + 1 \in DOMAIN log'[s]
    BY <1>3, <2>2
  <2> QED
    BY <2>6, <2>7 DEF Ends
<1>6. \A t \in ShowIds : t # s => Ends(t)' = Ends(t)
  BY <1>2 DEF Ends, TypeOK
<1>7. call'[r] = new /\ \A q \in Requests : q # r => call'[q] = call[q]
  BY <1>2 DEF TypeOK
<1>8. \A q \in Requests : q # r /\ call[q].at \in Closing => call[q].show # s
  BY <1>1 DEF EndInv, ClosingOwns, OwnsShow, Closing
<1>9. EndersKnow'
  BY <1>7, <1>2 DEF EndersKnow, EndInv, Enders
<1>10. ClosingOwns'
  <2>1. ASSUME NEW q \in Requests, call'[q].at \in Closing
        PROVE  OwnsShow(q)'
    <3>1. CASE q = r
      <4>1. call'[q].show = s /\ call'[q].at = "reply"
        BY <3>1, <1>2, <1>7
      <4>2. Ends(s)' # {}
        BY <1>5
      <4> QED
        BY <4>1, <4>2, <1>1, <1>2, OwnsNext
    <3>2. CASE q # r
      <4>1. PICK x \in ShowIds :
              /\ x = call[q].show /\ x # s /\ call'[q] = call[q]
              /\ end[x] \in {"host", "operator"}
              /\ signedOff[x] = 0
              /\ Ends(x) = {} <=> call[q].at # "reply"
        BY <2>1, <3>2, <1>7, <1>8 DEF EndInv, ClosingOwns, OwnsShow
      <4> QED
        BY <4>1, <1>2, <1>6, OwnsNext
    <3> QED
      BY <3>1, <3>2
  <2>2. ASSUME NEW q \in Requests, NEW p \in Requests,
               call'[q].at \in Closing, call'[p].at \in Closing, q # p
        PROVE  call'[q].show # call'[p].show
    BY <2>2, <1>2, <1>7, <1>8 DEF EndInv, ClosingOwns
  <2> QED
    BY <2>1, <2>2 DEF ClosingOwns
<1>11. EndsOnce'
  <2>1. \A t \in ShowIds : \A i, j \in Ends(t)' : i = j
    <3>1. \A i, j \in Ends(s)' : i = j
      BY <1>5
    <3> QED
      BY <3>1, <1>6 DEF EndInv, EndsOnce
  <2>2. \A t \in ShowIds : Ends(t)' # {} => end'[t] \in {"host", "operator"}
    BY <1>1, <1>2, <1>6 DEF EndInv, EndsOnce
  <2> QED
    BY <2>1, <2>2 DEF EndsOnce
<1>12. SignOffOwnShow'
  <2>1. Ends(s)' # {}
    BY <1>5
  <2> QED
    BY <2>1, <1>2, <1>6 DEF EndInv, SignOffOwnShow
<1> QED
  BY <1>1, <1>2, <1>5, <1>6, <1>9, <1>10, <1>11, <1>12 DEF EndInv

\* EndInv survives the reply: its show was announced and not yet signed off.
LEMMA ReplyKeepsInv ==
    ASSUME TypeOK, EndInv, NEW r \in Requests, Reply(r), NEW s, s = Show(r)
    PROVE  /\ EndInv'
           /\ end' = end /\ EndsKept
           /\ s \in ShowIds /\ Ends(s) # {}
           /\ signedOff[s] = 0
           /\ signedOff' = [signedOff EXCEPT ![s] = 1]
<1>1. /\ s = call[r].show /\ s \in ShowIds /\ end[s] \in {"host", "operator"}
      /\ signedOff[s] = 0 /\ Ends(s) # {} /\ call[r].at = "reply"
  BY DEF Reply, At, Show, EndInv, ClosingOwns, OwnsShow, Closing
<1>2. /\ call' = [call EXCEPT ![r] = Idle] /\ Idle.at = "idle"
      /\ UNCHANGED <<end, log>>
  BY DEF Reply, Done, Idle
<1>3. signedOff' = [signedOff EXCEPT ![s] = 1]
  BY <1>1 DEF Reply, TypeOK
<1>4. EndsKept /\ \A t \in ShowIds : Ends(t)' = Ends(t)
  BY <1>2 DEF EndsKept, Ends
<1>5. call'[r].at = "idle" /\ \A q \in Requests : q # r => call'[q] = call[q]
  BY <1>2 DEF TypeOK
<1>6. \A q \in Requests : q # r /\ call[q].at \in Closing => call[q].show # s
  BY <1>1 DEF EndInv, ClosingOwns, OwnsShow, Closing
<1>7. signedOff'[s] = 1 /\ \A t \in ShowIds : t # s => signedOff'[t] = signedOff[t]
  BY <1>1, <1>3 DEF TypeOK
<1>8. EndersKnow'
  BY <1>5 DEF EndersKnow, EndInv, Enders
<1>9. ClosingOwns'
  <2>1. ASSUME NEW q \in Requests, call'[q].at \in Closing
        PROVE  q # r /\ call'[q] = call[q]
    BY <2>1, <1>5 DEF Closing
  <2>2. ASSUME NEW q \in Requests, call'[q].at \in Closing
        PROVE  OwnsShow(q)'
    <3>1. PICK x \in ShowIds :
            /\ x = call[q].show /\ x # s /\ call'[q] = call[q]
            /\ end[x] \in {"host", "operator"}
            /\ signedOff[x] = 0
            /\ Ends(x) = {} <=> call[q].at # "reply"
      BY <2>2, <2>1, <1>6 DEF EndInv, ClosingOwns, OwnsShow
    <3> QED
      BY <3>1, <1>2, <1>4, <1>7, OwnsNext
  <2>3. ASSUME NEW q \in Requests, NEW p \in Requests,
               call'[q].at \in Closing, call'[p].at \in Closing, q # p
        PROVE  call'[q].show # call'[p].show
    BY <2>3, <2>1 DEF EndInv, ClosingOwns
  <2> QED
    BY <2>2, <2>3 DEF ClosingOwns
<1>10. EndsOnce'
  BY <1>2, <1>4 DEF EndInv, EndsOnce
<1>11. SignOffOwnShow'
  BY <1>1, <1>4, <1>7 DEF EndInv, SignOffOwnShow
<1> QED
  BY <1>1, <1>2, <1>3, <1>4, <1>8, <1>9, <1>10, <1>11 DEF EndInv

\* The inductive invariant holds in every reachable state.
THEOREM EndInvariant == Spec => [](TypeOK /\ EndInv)
<1>1. Init => EndInv
  <2> SUFFICES ASSUME Init PROVE EndInv
    OBVIOUS
  <2>1. \A q \in Requests : call[q].at = "idle"
    BY DEF Init, Idle
  <2>2. \A s \in ShowIds : Ends(s) = {} /\ signedOff[s] = 0
    BY DEF Init, Ends
  <2> QED
    BY <2>1, <2>2 DEF EndInv, EndersKnow, ClosingOwns, EndsOnce, SignOffOwnShow,
                      Closing, Enders
<1>2. TypeOK /\ EndInv /\ [Next]_vars => EndInv'
  BY StepKinds, MildKeepsInv, ClaimKeepsInv, MarkerKeepsInv, ReplyKeepsInv DEF EndInv
<1> QED
  BY <1>1, <1>2, ShowTypeCorrect, PTL DEF Spec

\* EndsOnce holds in every reachable state, for any number of requests.
THEOREM ShowsEndOnce == Spec => []EndsOnce
<1>1. TypeOK /\ EndInv => EndsOnce
  BY DEF EndInv
<1> QED
  BY <1>1, EndInvariant, PTL

\* SignOffOwnShow holds in every reachable state.
THEOREM SignsOffOwnShow == Spec => []SignOffOwnShow
<1>1. TypeOK /\ EndInv => SignOffOwnShow
  BY DEF EndInv
<1> QED
  BY <1>1, EndInvariant, PTL

\* The end_time of a show moves only as EndStep says, in every step.
LEMMA EndMoves ==
    ASSUME TypeOK, EndInv, [Next]_vars
    PROVE  EndStep
<1>1. ASSUME NEW r \in Requests, EndMarker(r) \/ Reply(r) PROVE EndStep
  BY <1>1 DEF EndMarker, Reply, EndStep
<1> QED
  BY <1>1, StepKinds, ClaimKeepsInv DEF EndInv, Mild

\* ClosedForGood holds of every step: whoever writes end_time first has the
\* last word.
THEOREM ShowsCloseForGood == Spec => ClosedForGood
<1>1. TypeOK /\ EndInv /\ [Next]_vars =>
        [\A s \in ShowIds : end[s] \in Closers => end'[s] = end[s]]_vars
  BY EndMoves, WrittenEndStays
<1> QED
  BY <1>1, EndInvariant, PTL DEF Spec, ClosedForGood

(***************************************************************************)
(* The host of the show on the air.                                         *)
(***************************************************************************)
\* The show is announced on the flowsheet.
Begun(s) == \E i \in DOMAIN log[s] : log[s][i].type = "show_start"

\* The steps of a go-live up to the INSERT of the show, and those after it.
Opening == {"isLatestEntryShowEnd", "backfill", "startShow"}
Starting == {"startMember", "startMarker"}

\* What a handler about c counts on: a go-live has a DJ, who is the host of the
\* show it has inserted and active in it by the time the marker is next, and
\* whoever leaves a show as a guest is not its host.
CallerFits(c) ==
  /\ c.at \in Opening => c.dj \in DJs
  /\ c.at \in Starting =>
       /\ c.show \in ShowIds /\ c.show <= newest
       /\ c.dj \in DJs /\ primary[c.show] = c.dj
  /\ c.at = "startMarker" /\ end[c.show] = "open" => member[c.show][c.dj] = "active"
  /\ c.at = "leaveDeactivate" =>
       c.show \in ShowIds /\ c.show <= newest /\ primary[c.show] # c.dj

CallersFit == \A q \in Requests : CallerFits(call[q])

\* Only a show with a host is announced here.
BegunHaveHosts == \A s \in ShowIds :
  Begun(s) => s <= newest /\ primary[s] \in DJs

HostInv == CallersFit /\ BegunHaveHosts /\ HostCanSignOff

\* What a step leaves alone: who hosts a show, the host's membership of an open
\* one, and which shows are announced.
ShowsStay ==
  /\ newest' \in {newest, newest + 1}
  /\ \A s \in ShowIds : s <= newest => primary'[s] = primary[s]
HostsStay == \A s \in ShowIds, d \in DJs :
  end[s] = "open" /\ primary[s] = d /\ member[s][d] = "active" =>
    member'[s][d] = "active"
BegunKept == \A s \in ShowIds : Begun(s)' => Begun(s)
Quiet == ShowsStay /\ EndStep /\ HostsStay

\* A step that writes no table is quiet.
LEMMA StillQuiet ==
    ASSUME UNCHANGED <<newest, primary, end, member, log>>
    PROVE  Quiet /\ BegunKept
BY DEF Quiet, ShowsStay, EndStep, HostsStay, BegunKept, Begun

\* A show that exists and is open after a quiet step was open before it.
LEMMA OpenWasOpen ==
    ASSUME TypeOK, EndStep, NEW s \in ShowIds, s <= newest, end'[s] = "open"
    PROVE  end[s] = "open"
<1>1. end[s] # "none"
  BY DEF TypeOK, ShowIds
<1> QED
  BY <1>1 DEF EndStep, TypeOK, Closers

\* What a handler counts on survives the quiet steps of the others.
LEMMA FitsStay ==
    ASSUME TypeOK, Quiet, NEW c \in Calls, CallerFits(c)
    PROVE  CallerFits(c)'
<1>1. newest \in Nat /\ newest <= newest' /\ c.show \in Nat
  BY DEF Quiet, ShowsStay, TypeOK, Calls
<1>2. c.at \in Opening => c.dj \in DJs
  BY DEF CallerFits
<1>3. ASSUME c.at \in Starting
      PROVE  /\ c.show \in ShowIds /\ c.show <= newest /\ c.show <= newest'
             /\ c.dj \in DJs /\ primary[c.show] = c.dj /\ primary'[c.show] = c.dj
  <2>1. c.show \in ShowIds /\ c.show <= newest /\ c.dj \in DJs /\ primary[c.show] = c.dj
    BY <1>3 DEF CallerFits
  <2>2. c.show <= newest'
    BY <1>1, <2>1 DEF Quiet, ShowsStay
  <2> QED
    BY <2>1, <2>2 DEF Quiet, ShowsStay
<1>4. ASSUME c.at = "startMarker", end'[c.show] = "open"
      PROVE  member'[c.show][c.dj] = "active"
  <2>1. c.show \in ShowIds /\ c.show <= newest /\ c.dj \in DJs /\ primary[c.show] = c.dj
    BY <1>3, <1>4 DEF Starting
  <2>2. end[c.show] = "open"
    BY <1>4, <2>1, OpenWasOpen DEF Quiet
  <2>3. member[c.show][c.dj] = "active"
    BY <1>4, <2>2 DEF CallerFits
  <2> QED
    BY <2>1, <2>2, <2>3 DEF Quiet, HostsStay
<1>5. ASSUME c.at = "leaveDeactivate"
      PROVE  c.show \in ShowIds /\ c.show <= newest' /\ primary'[c.show] # c.dj
  <2>1. c.show \in ShowIds /\ c.show <= newest /\ primary[c.show] # c.dj
    BY <1>5 DEF CallerFits
  <2>2. c.show <= newest'
    BY <1>1, <2>1 DEF Quiet, ShowsStay
  <2> QED
    BY <2>1, <2>2 DEF Quiet, ShowsStay
<1> QED
  BY <1>2, <1>3, <1>4, <1>5 DEF CallerFits

\* So CallersFit survives a quiet step in which one handler moves to a place
\* where it fits.
LEMMA MovesFit ==
    ASSUME TypeOK, CallersFit, Quiet, NEW r \in Requests, NEW new,
           call' = [call EXCEPT ![r] = new], CallerFits(new)'
    PROVE  CallersFit'
<1>1. ASSUME NEW q \in Requests PROVE CallerFits(call[q])'
  <2>1. CASE q = r
    <3>1. call'[q] = new
      BY <2>1 DEF TypeOK
    <3> QED
      BY <3>1 DEF CallerFits
  <2>2. CASE q # r
    <3>1. call'[q] = call[q] /\ call[q] \in Calls
      BY <2>2 DEF TypeOK
    <3>2. \A c \in Calls : CallerFits(c) => CallerFits(c)'
      BY FitsStay
    <3> QED
      BY <3>1, <3>2 DEF CallersFit, CallerFits
  <2> QED
    BY <2>1, <2>2
<1> QED
  BY <1>1 DEF CallersFit

\* The steps at which nothing but the caller is counted on.
Easy == Steps \ (Starting \cup {"leaveDeactivate"})

\* A handler that goes on to such a step fits.
LEMMA GotoFits ==
    ASSUME TypeOK, CallersFit, Quiet, NEW r \in Requests, NEW step \in Easy,
           Goto(r, step), step \in Opening => call[r].dj \in DJs
    PROVE  CallersFit'
<1> DEFINE moved == [call[r] EXCEPT !.at = step]
<1>0. call' = [call EXCEPT ![r] = moved] /\ moved.at = step /\ moved.dj = call[r].dj
  BY DEF Goto, TypeOK, Calls
<1> HIDE DEF moved
<1>1. PICK new : call' = [call EXCEPT ![r] = new] /\ new.at = step /\ new.dj = call[r].dj
  BY <1>0
<1>2. CallerFits(new)'
  BY <1>1 DEF CallerFits, Easy, Starting
<1> QED
  BY <1>1, <1>2, MovesFit

\* The same for one that goes on about another show.
LEMMA GotoOnFits ==
    ASSUME TypeOK, CallersFit, Quiet, NEW r \in Requests, NEW step \in Easy \ Opening,
           NEW s, GotoOn(r, step, s)
    PROVE  CallersFit'
<1> DEFINE moved == [call[r] EXCEPT !.at = step, !.show = s]
<1>0. call' = [call EXCEPT ![r] = moved] /\ moved.at = step
  BY DEF GotoOn, TypeOK, Calls
<1> HIDE DEF moved
<1>1. PICK new : call' = [call EXCEPT ![r] = new] /\ new.at = step
  BY <1>0
<1>2. CallerFits(new)'
  BY <1>1 DEF CallerFits, Easy, Starting
<1> QED
  BY <1>1, <1>2, MovesFit

\* The same for one that begins.
LEMMA BeginFits ==
    ASSUME TypeOK, CallersFit, Quiet, NEW r \in Requests, NEW step \in Easy,
           NEW d, NEW s, NEW by, Begin(r, step, d, s, by),
           step \in Opening => d \in DJs
    PROVE  CallersFit'
<1> DEFINE moved == [Idle EXCEPT !.at = step, !.dj = d, !.show = s, !.by = by]
<1>0. call' = [call EXCEPT ![r] = moved] /\ moved.at = step /\ moved.dj = d
  BY DEF Begin, Idle
<1> HIDE DEF moved
<1>1. PICK new : call' = [call EXCEPT ![r] = new] /\ new.at = step /\ new.dj = d
  BY <1>0
<1>2. CallerFits(new)'
  BY <1>1 DEF CallerFits, Easy, Starting
<1> QED
  BY <1>1, <1>2, MovesFit

\* The same for one that ends.
LEMMA DoneFits ==
    ASSUME TypeOK, CallersFit, Quiet, NEW r \in Requests, Done(r)
    PROVE  CallersFit'
<1>1. Idle.at = "idle"
  BY DEF Idle
<1>2. CallerFits(Idle)'
  BY <1>1 DEF CallerFits, Opening, Starting
<1> QED
  BY <1>2, MovesFit DEF Done

\* The same for one that goes on with the branches of Promise.all.
LEMMA BranchFits ==
    ASSUME TypeOK, CallersFit, Quiet, NEW r \in Requests, NEW todo, NEW owed, NEW broken,
           At(r, "closing"), Branches(r, todo, owed, broken)
    PROVE  CallersFit'
<1> DEFINE moved == [call[r] EXCEPT !.todo = todo, !.owed = owed, !.broken = broken]
<1>0. call' = [call EXCEPT ![r] = moved] /\ moved.at = "closing"
  BY DEF Branches, TypeOK, Calls, At
<1> HIDE DEF moved
<1>1. PICK new : call' = [call EXCEPT ![r] = new] /\ new.at = "closing"
  BY <1>0
<1>2. CallerFits(new)'
  BY <1>1 DEF CallerFits, Opening, Starting
<1> QED
  BY <1>1, <1>2, MovesFit

\* An insert that is not a show_start announces no show.
LEMMA LogKeepsBegun ==
    ASSUME TypeOK, NEW s, NEW type \in EntryTypes \ {"show_start"},
           NEW via \in {"backend", "webhook"}, Log(s, type, via)
    PROVE  BegunKept
<1> SUFFICES ASSUME NEW t \in ShowIds, Begun(t)' PROVE Begun(t)
  BY DEF BegunKept
<1>1. CASE t = s
  <2> DEFINE e == Entry(type, via)
  <2>1. log'[t] = Append(log[t], e)
    BY <1>1 DEF Log, TypeOK
  <2>2. e.type = type /\ e \in Entries
    BY DEF Entry, Entries
  <2> HIDE DEF e
  <2>3. log[t] \in Seq(Entries) /\ Len(log[t]) \in Nat
    BY DEF TypeOK
  <2>4. DOMAIN log'[t] = 1 .. Len(log[t]) + 1 /\ DOMAIN log[t] = 1 .. Len(log[t])
    BY <2>1, <2>2, <2>3
  <2>5. log'[t][Len(log[t]) + 1] = e
    BY <2>1, <2>2, <2>3
  <2>6. \A i \in 1 .. Len(log[t]) : log'[t][i] = log[t][i]
    BY <2>1, <2>2, <2>3
  <2>7. PICK i \in DOMAIN log'[t] : log'[t][i].type = "show_start"
    BY DEF Begun
  <2>8. i \in DOMAIN log[t] /\ log[t][i].type = "show_start"
    BY <2>2, <2>3, <2>4, <2>5, <2>6, <2>7
  <2> QED
    BY <2>8 DEF Begun
<1>2. CASE t # s
  BY <1>2 DEF Log, TypeOK, Begun
<1> QED
  BY <1>1, <1>2

\* A notice announces no show.
LEMMA NoticeKeepsBegun ==
    ASSUME TypeOK, NEW s, Notice(s)
    PROVE  BegunKept
<1>1. CASE Log(s, "notice", "backend")
  BY <1>1, LogKeepsBegun DEF EntryTypes
<1>2. CASE UNCHANGED log
  BY <1>2 DEF BegunKept, Begun
<1> QED
  BY <1>1, <1>2 DEF Notice

\* A delete announces no show.
LEMMA RemoveKeepsBegun ==
    ASSUME TypeOK, NEW s \in ShowIds, NEW i \in DOMAIN log[s], Remove(s, i)
    PROVE  BegunKept
<1> SUFFICES ASSUME NEW t \in ShowIds PROVE Begun(t)' => Begun(t)
  BY DEF BegunKept
<1>1. CASE t = s
  <2>1. log[s] \in Seq(Entries)
    BY DEF TypeOK
  <2>2. log'[s] = [log[s] EXCEPT ![i] = [log[s][i] EXCEPT !.gone = TRUE]]
    BY DEF Remove, TypeOK
  <2>3. DOMAIN log'[s] = DOMAIN log[s]
    BY <2>2
  <2>4. log[s][i] \in Entries
    BY <2>1
  <2>5. [log[s][i] EXCEPT !.gone = TRUE].type = log[s][i].type
    BY <2>4 DEF Entries
  <2>6. \A j \in DOMAIN log[s] : log'[s][j].type = log[s][j].type
    BY <2>2, <2>5
  <2> QED
    BY <1>1, <2>3, <2>6 DEF Begun
<1>2. CASE t # s
  BY <1>2 DEF Remove, TypeOK, Begun
<1> QED
  BY <1>1, <1>2

\* The INSERT of a show is quiet: it is about the next row of shows.
LEMMA InsertIsQuiet ==
    ASSUME TypeOK, NEW d, InsertShow(d), UNCHANGED member
    PROVE  Quiet
<1>1. ShowsStay
  BY DEF InsertShow, ShowsStay, TypeOK, ShowIds
<1>2. HostsStay
  BY DEF HostsStay
<1> QED
  BY <1>1, <1>2, InsertIsEndStep DEF Quiet

\* The guarded UPDATE is quiet.
LEMMA CloseIsQuiet ==
    ASSUME TypeOK, NEW s, NEW by \in Closers, Close(s, by),
           by = "backfill" => LastIsShowEnd(s), UNCHANGED <<newest, primary, member>>
    PROVE  Quiet
BY CloseIsEndStep DEF Quiet, ShowsStay, HostsStay

\* A membership that becomes active harms no host.
LEMMA ActiveIsQuiet ==
    ASSUME TypeOK, NEW s, NEW d, SetMember(s, d, "active"),
           UNCHANGED <<newest, primary, end, log>>
    PROVE  Quiet /\ BegunKept
<1>1. HostsStay
  BY DEF SetMember, HostsStay, TypeOK
<1> QED
  BY <1>1 DEF Quiet, ShowsStay, EndStep, BegunKept, Begun

\* Nor does one that ends while the show is not open or that is not the host's.
LEMMA InactiveIsQuiet ==
    ASSUME TypeOK, NEW s \in ShowIds, NEW d, SetMember(s, d, "inactive"),
           end[s] # "open" \/ primary[s] # d,
           UNCHANGED <<newest, primary, end, log>>
    PROVE  Quiet /\ BegunKept
<1>1. HostsStay
  BY DEF SetMember, HostsStay, TypeOK
<1> QED
  BY <1>1 DEF Quiet, ShowsStay, EndStep, BegunKept, Begun

\* HostInv survives a quiet step that announces no show and after which every
\* handler fits.
LEMMA QuietKeepsInv ==
    ASSUME TypeOK, HostInv, Quiet, BegunKept, CallersFit'
    PROVE  HostInv'
<1>1. ASSUME NEW s \in ShowIds, Begun(s)'
      PROVE  /\ Begun(s) /\ s <= newest /\ s <= newest'
             /\ primary[s] \in DJs /\ primary'[s] = primary[s]
  <2>1. Begun(s) /\ s <= newest /\ primary[s] \in DJs
    BY <1>1 DEF BegunKept, HostInv, BegunHaveHosts
  <2>2. s \in Nat /\ newest \in Nat
    BY DEF TypeOK, ShowIds
  <2> QED
    BY <2>1, <2>2 DEF Quiet, ShowsStay
<1>2. BegunHaveHosts'
  BY <1>1 DEF BegunHaveHosts
<1>3. ASSUME NEW s \in ShowIds, end'[s] = "open", Begun(s)'
      PROVE  member'[s][primary'[s]] = "active"
  <2>1. end[s] = "open"
    BY <1>1, <1>3, OpenWasOpen DEF Quiet
  <2>2. member[s][primary[s]] = "active"
    BY <1>1, <1>3, <2>1 DEF HostInv, HostCanSignOff, Begun
  <2> QED
    BY <1>1, <1>3, <2>1, <2>2 DEF Quiet, HostsStay
<1>4. HostCanSignOff'
  BY <1>3 DEF HostCanSignOff, Begun
<1> QED
  BY <1>2, <1>4 DEF HostInv

\* A step that leaves the hosts alone.
Harmless == Quiet /\ BegunKept /\ CallersFit'

\* A go-live is harmless up to its marker.
LEMMA JoinHarmless ==
    ASSUME TypeOK, CallersFit, NEW r \in Requests, JoinSteps(r)
    PROVE  Harmless \/ StartMarker(r)
<1>a. call[r].at \in Opening => call[r].dj \in DJs
  BY DEF CallersFit, CallerFits
<1>1. ASSUME NEW d \in DJs, Join(r, d) PROVE Harmless
  <2>1. Quiet /\ BegunKept
    BY <1>1, StillQuiet DEF Join
  <2> DEFINE step == IF OnAir THEN "isLatestEntryShowEnd" ELSE "startShow"
  <2>2. step \in Easy
    BY DEF Easy, Steps, Starting
  <2>3. Begin(r, step, d, newest, "host")
    BY <1>1 DEF Join
  <2> HIDE DEF step
  <2> QED
    BY <2>1, <2>2, <2>3, BeginFits DEF Harmless
<1>2. CASE IsLatestEntryShowEnd(r)
  <2>1. Quiet /\ BegunKept
    BY <1>2, StillQuiet DEF IsLatestEntryShowEnd
  <2> QED
    BY <1>2, <1>a, <2>1, GotoFits
    DEF IsLatestEntryShowEnd, Harmless, At, Easy, Steps, Starting, Opening
<1>3. CASE Backfill(r)
  <2>1. Quiet
    <3>1. CASE LastIsShowEnd(Show(r)) /\ Close(Show(r), "backfill")
      BY <1>3, <3>1, CloseIsQuiet DEF Backfill, Closers
    <3>2. CASE UNCHANGED end
      BY <1>3, <3>2, StillQuiet DEF Backfill
    <3> QED
      BY <1>3, <3>1, <3>2 DEF Backfill, CloseFromMarker
  <2>2. BegunKept
    BY <1>3 DEF Backfill, BegunKept, Begun
  <2>3. At(r, "backfill") /\ Goto(r, "startShow")
    BY <1>3 DEF Backfill
  <2> QED
    BY <1>a, <2>1, <2>2, <2>3, GotoFits DEF Harmless, At, Easy, Steps, Starting, Opening
<1>4. CASE StartShow(r)
  <2>1. Quiet
    BY <1>4, InsertIsQuiet DEF StartShow
  <2>2. BegunKept
    BY <1>4 DEF StartShow, BegunKept, Begun
  <2>3. Dj(r) \in DJs
    BY <1>4, <1>a DEF StartShow, At, Opening, Dj
  <2>4. PICK d \in DJs : d = Dj(r)
    BY <2>3
  <2>a. newest + 1 \in ShowIds
    BY <1>4, ShowAssumption DEF StartShow, InsertShow, TypeOK, ShowIds
  <2>5. PICK s \in ShowIds : s = newest + 1
    BY <2>a
  <2>6. newest' = s /\ primary'[s] = d
    BY <1>4, <2>4, <2>5 DEF StartShow, InsertShow, TypeOK
  <2> DEFINE moved == [call[r] EXCEPT !.at = "startMember", !.show = s]
  <2>7. /\ call' = [call EXCEPT ![r] = moved]
        /\ moved.at = "startMember" /\ moved.show = s /\ moved.dj = d
    BY <1>4, <2>4, <2>5 DEF StartShow, GotoOn, TypeOK, Calls, Dj
  <2> HIDE DEF moved
  <2>8. PICK new : /\ call' = [call EXCEPT ![r] = new]
                   /\ new.at = "startMember" /\ new.show = s /\ new.dj = d
    BY <2>7
  <2>9. s <= newest'
    BY <2>6 DEF ShowIds
  <2>10. CallerFits(new)'
    BY <2>6, <2>8, <2>9 DEF CallerFits, Opening, Starting
  <2> QED
    BY <2>1, <2>2, <2>8, <2>10, MovesFit DEF Harmless
<1>5. CASE StartMember(r)
  <2>1. Quiet /\ BegunKept
    BY <1>5, ActiveIsQuiet DEF StartMember
  <2>2. PICK s \in ShowIds, d \in DJs : s = Show(r) /\ d = Dj(r) /\ s <= newest /\ primary[s] = d
    BY <1>5 DEF StartMember, At, CallersFit, CallerFits, Starting, Show, Dj
  <2>3. newest' = newest /\ primary' = primary /\ member'[s][d] = "active"
    BY <1>5, <2>2 DEF StartMember, SetMember, TypeOK
  <2> DEFINE moved == [call[r] EXCEPT !.at = "startMarker"]
  <2>4. /\ call' = [call EXCEPT ![r] = moved]
        /\ moved.at = "startMarker" /\ moved.show = s /\ moved.dj = d
    BY <1>5, <2>2 DEF StartMember, Goto, TypeOK, Calls, Show, Dj
  <2> HIDE DEF moved
  <2>5. PICK new : /\ call' = [call EXCEPT ![r] = new]
                   /\ new.at = "startMarker" /\ new.show = s /\ new.dj = d
    BY <2>4
  <2>6. CallerFits(new)'
    BY <2>2, <2>3, <2>5 DEF CallerFits, Opening, Starting
  <2> QED
    BY <2>1, <2>5, <2>6, MovesFit DEF Harmless
<1>6. CASE IsDjAlreadyActive(r)
  <2>1. Quiet /\ BegunKept
    BY <1>6, StillQuiet DEF IsDjAlreadyActive
  <2>2. Goto(r, "addDJ") \/ Done(r)
    BY <1>6 DEF IsDjAlreadyActive
  <2> QED
    BY <2>1, <2>2, GotoFits, DoneFits DEF Harmless, Easy, Steps, Starting, Opening
<1>7. CASE AddDJToShow(r)
  <2>1. Quiet /\ BegunKept
    BY <1>7, StillQuiet DEF AddDJToShow
  <2>2. Goto(r, "addDJInsert") \/ Goto(r, "addDJReactivate") \/ Done(r)
    BY <1>7 DEF AddDJToShow
  <2> QED
    BY <2>1, <2>2, GotoFits, DoneFits DEF Harmless, Easy, Steps, Starting, Opening
<1>8. CASE AddDJInsert(r)
  <2>1. Quiet /\ BegunKept
    BY <1>8, ActiveIsQuiet, StillQuiet DEF AddDJInsert
  <2>2. Goto(r, "joinMarker") \/ Done(r)
    BY <1>8 DEF AddDJInsert
  <2> QED
    BY <2>1, <2>2, GotoFits, DoneFits DEF Harmless, Easy, Steps, Starting, Opening
<1>9. CASE AddDJReactivate(r)
  <2>1. Quiet /\ BegunKept
    BY <1>9, ActiveIsQuiet DEF AddDJReactivate
  <2>2. Goto(r, "joinMarker")
    BY <1>9 DEF AddDJReactivate
  <2> QED
    BY <2>1, <2>2, GotoFits DEF Harmless, Easy, Steps, Starting, Opening
<1>10. CASE JoinMarker(r)
  <2>1. Quiet
    BY <1>10 DEF JoinMarker, Quiet, ShowsStay, EndStep, HostsStay
  <2>2. BegunKept
    BY <1>10, NoticeKeepsBegun DEF JoinMarker
  <2> QED
    BY <1>10, <2>1, <2>2, DoneFits DEF JoinMarker, Harmless
<1> QED
  BY <1>1, <1>2, <1>3, <1>4, <1>5, <1>6, <1>7, <1>8, <1>9, <1>10 DEF JoinSteps

\* A flowsheet insert writes no other table.
LEMMA LogIsQuiet ==
    ASSUME UNCHANGED <<newest, primary, end, member>>
    PROVE  Quiet
BY DEF Quiet, ShowsStay, EndStep, HostsStay

\* The routes behind the membership check are harmless: whoever leaves as a
\* guest is not the host of that show, then or later.
LEMMA MembersHarmless ==
    ASSUME TypeOK, CallersFit, NEW r \in Requests, MemberSteps(r)
    PROVE  Harmless
<1>1. ASSUME NEW d \in DJs, NEW gate \in {"memberOfEnd", "memberOfAdd", "memberOfDelete"},
             ShowMember(r, d, gate)
      PROVE  Harmless
  <2>1. Quiet /\ BegunKept
    BY <1>1, StillQuiet DEF ShowMember
  <2>2. gate \in Easy /\ gate \notin Opening
    BY DEF Easy, Steps, Starting, Opening
  <2> QED
    BY <1>1, <2>1, <2>2, BeginFits DEF ShowMember, Harmless
<1>2. ASSUME NEW gate, NEW handler \in Easy \ Opening, IsMember(r, gate, handler)
      PROVE  Harmless
  <2>1. Quiet /\ BegunKept
    BY <1>2, StillQuiet DEF IsMember
  <2> QED
    BY <1>2, <2>1, GotoFits, DoneFits DEF IsMember, Harmless
<1>3. CASE LeaveShow(r)
  <2>1. Quiet /\ BegunKept
    BY <1>3, StillQuiet DEF LeaveShow
  <2>2. CASE Done(r)
    BY <2>1, <2>2, DoneFits DEF Harmless
  <2>3. CASE GotoOn(r, "endShow", newest)
    BY <2>1, <2>3, GotoOnFits DEF Harmless, Easy, Steps, Starting, Opening
  <2>4. CASE OnAir /\ GotoOn(r, "leaveDeactivate", newest) /\ primary[newest] # Dj(r)
    <3>1. PICK s \in ShowIds : s = newest
      BY <2>4, ShowAssumption DEF OnAir, TypeOK, ShowIds
    <3>2. newest' = s /\ s <= newest' /\ primary' = primary
      BY <1>3, <3>1 DEF LeaveShow, ShowIds
    <3>3. PICK d : d = Dj(r)
      OBVIOUS
    <3> DEFINE moved == [call[r] EXCEPT !.at = "leaveDeactivate", !.show = newest]
    <3>4. /\ call' = [call EXCEPT ![r] = moved]
          /\ moved.at = "leaveDeactivate" /\ moved.show = s /\ moved.dj = d
      BY <2>4, <3>1, <3>3 DEF GotoOn, TypeOK, Calls, Dj
    <3> HIDE DEF moved
    <3>5. PICK new : /\ call' = [call EXCEPT ![r] = new]
                     /\ new.at = "leaveDeactivate" /\ new.show = s /\ new.dj = d
      BY <3>4
    <3>6. CallerFits(new)'
      BY <2>4, <3>1, <3>2, <3>3, <3>5 DEF CallerFits, Opening, Starting
    <3> QED
      BY <2>1, <3>5, <3>6, MovesFit DEF Harmless
  <2> QED
    BY <1>3, <2>2, <2>3, <2>4 DEF LeaveShow
<1>4. CASE LeaveDeactivate(r)
  <2>1. Quiet /\ BegunKept
    <3>1. Show(r) \in ShowIds /\ primary[Show(r)] # Dj(r)
      BY <1>4 DEF LeaveDeactivate, At, CallersFit, CallerFits, Show, Dj
    <3>2. CASE SetMember(Show(r), Dj(r), "inactive")
      BY <1>4, <3>1, <3>2, InactiveIsQuiet DEF LeaveDeactivate
    <3>3. CASE UNCHANGED member
      BY <1>4, <3>3, StillQuiet DEF LeaveDeactivate
    <3> QED
      BY <1>4, <3>2, <3>3 DEF LeaveDeactivate
  <2>2. Goto(r, "leaveMarker") \/ Done(r)
    BY <1>4 DEF LeaveDeactivate
  <2> QED
    BY <2>1, <2>2, GotoFits, DoneFits DEF Harmless, Easy, Steps, Starting, Opening
<1>5. CASE LeaveMarker(r)
  <2>1. Quiet /\ BegunKept
    BY <1>5, LogIsQuiet, NoticeKeepsBegun DEF LeaveMarker
  <2> QED
    BY <1>5, <2>1, DoneFits DEF LeaveMarker, Harmless
<1>6. CASE AddEntry(r)
  <2>1. Quiet /\ BegunKept
    BY <1>6, StillQuiet DEF AddEntry
  <2>2. GotoOn(r, "addTrack", newest) \/ Done(r)
    BY <1>6 DEF AddEntry
  <2> QED
    BY <2>1, <2>2, GotoOnFits, DoneFits DEF Harmless, Easy, Steps, Starting, Opening
<1>7. CASE AddTrack(r)
  <2>1. Quiet /\ BegunKept
    BY <1>7, LogIsQuiet, LogKeepsBegun DEF AddTrack, EntryTypes
  <2> QED
    BY <1>7, <2>1, DoneFits DEF AddTrack, Harmless
<1>8. CASE DeleteEntry(r)
  <2>1. Quiet /\ BegunKept
    BY <1>8, LogIsQuiet, RemoveKeepsBegun DEF DeleteEntry
  <2> QED
    BY <1>8, <2>1, DoneFits DEF DeleteEntry, Harmless
<1>9. {"leaveShow", "addEntry", "deleteEntry"} \subseteq Easy \ Opening
  BY DEF Easy, Steps, Starting, Opening
<1> QED
  BY <1>1, <1>2, <1>3, <1>4, <1>5, <1>6, <1>7, <1>8, <1>9 DEF MemberSteps

\* Ending a show is harmless: memberships end after the show is closed.
LEMMA EndHarmless ==
    ASSUME TypeOK, EndInv, CallersFit, NEW r \in Requests, EndSteps(r)
    PROVE  Harmless
<1>1. ASSUME NEW s \in ShowIds, NEW force \in BOOLEAN, ForceEndShow(r, s, force)
      PROVE  Harmless
  <2>1. Quiet /\ BegunKept
    BY <1>1, StillQuiet DEF ForceEndShow
  <2> DEFINE step == IF force THEN "endShow" ELSE "forceLatest"
  <2>2. step \in Easy /\ step \notin Opening
    BY DEF Easy, Steps, Starting, Opening
  <2>3. Begin(r, step, NoDJ, s, "operator")
    BY <1>1 DEF ForceEndShow
  <2> HIDE DEF step
  <2> QED
    BY <2>1, <2>2, <2>3, BeginFits DEF Harmless
<1>2. CASE ForceLatest(r)
  <2>1. Quiet /\ BegunKept
    BY <1>2, StillQuiet DEF ForceLatest
  <2>2. Goto(r, "forceMarker") \/ Goto(r, "endShow")
    BY <1>2 DEF ForceLatest
  <2> QED
    BY <2>1, <2>2, GotoFits DEF Harmless, Easy, Steps, Starting, Opening
<1>3. CASE ForceMarker(r)
  <2>1. Quiet /\ BegunKept
    BY <1>3, StillQuiet DEF ForceMarker
  <2>2. Goto(r, "endShow") \/ Done(r)
    BY <1>3 DEF ForceMarker
  <2> QED
    BY <2>1, <2>2, GotoFits, DoneFits DEF Harmless, Easy, Steps, Starting, Opening
<1>4. CASE EndShow(r)
  <2>1. call[r].by \in Closers /\ call[r].by # "backfill"
    BY DEF TypeOK, Calls, Closers
  <2>2. Quiet
    BY <1>4, <2>1, CloseIsQuiet DEF EndShow
  <2>3. BegunKept
    BY <1>4 DEF EndShow, BegunKept, Begun
  <2>4. Goto(r, "remaining") \/ Done(r)
    BY <1>4 DEF EndShow
  <2> QED
    BY <2>2, <2>3, <2>4, GotoFits, DoneFits DEF Harmless, Easy, Steps, Starting, Opening
<1>5. CASE RemainingDJs(r)
  <2>1. Quiet /\ BegunKept
    BY <1>5, StillQuiet DEF RemainingDJs
  <2> DEFINE moved == [call[r] EXCEPT !.at = "closing",
                        !.todo = {d \in DJs : member[Show(r)][d] = "active"}]
  <2>2. call' = [call EXCEPT ![r] = moved] /\ moved.at = "closing"
    BY <1>5 DEF RemainingDJs, TypeOK, Calls
  <2> HIDE DEF moved
  <2>3. PICK new : call' = [call EXCEPT ![r] = new] /\ new.at = "closing"
    BY <2>2
  <2>4. CallerFits(new)'
    BY <2>3 DEF CallerFits, Opening, Starting
  <2> QED
    BY <2>1, <2>3, <2>4, MovesFit DEF Harmless
<1>6. ASSUME NEW d \in DJs, Deactivate(r, d) PROVE Harmless
  <2>1. Show(r) \in ShowIds /\ end[Show(r)] # "open"
    BY <1>6 DEF Deactivate, At, EndInv, ClosingOwns, OwnsShow, Closing, Show
  <2>2. Quiet /\ BegunKept
    BY <1>6, <2>1, InactiveIsQuiet DEF Deactivate
  <2> QED
    BY <1>6, <2>2, BranchFits DEF Deactivate, Harmless
<1>7. ASSUME NEW d \in DJs, GuestLeaves(r, d) PROVE Harmless
  <2>1. Quiet /\ BegunKept
    BY <1>7, LogIsQuiet, NoticeKeepsBegun DEF GuestLeaves
  <2> QED
    BY <1>7, <2>1, BranchFits DEF GuestLeaves, Harmless
<1>8. ASSUME NEW d \in DJs, BranchFails(r, d) PROVE Harmless
  <2>1. Quiet /\ BegunKept
    BY <1>8, StillQuiet DEF BranchFails
  <2> QED
    BY <1>8, <2>1, BranchFits DEF BranchFails, Harmless
<1>9. CASE EndMarker(r)
  <2>1. Quiet /\ BegunKept
    BY <1>9, LogIsQuiet, LogKeepsBegun DEF EndMarker, EntryTypes
  <2> QED
    BY <1>9, <2>1, GotoFits DEF EndMarker, Harmless, Easy, Steps, Starting, Opening
<1>10. CASE Reply(r)
  <2>1. Quiet /\ BegunKept
    BY <1>10, StillQuiet DEF Reply
  <2> QED
    BY <1>10, <2>1, DoneFits DEF Reply, Harmless
<1> QED
  BY <1>1, <1>2, <1>3, <1>4, <1>5, <1>6, <1>7, <1>8, <1>9, <1>10 DEF EndSteps

\* So is the webhook: it brings no show_start.
LEMMA WebhookHarmless ==
    ASSUME TypeOK, CallersFit, NEW r \in Requests, WebhookSteps(r)
    PROVE  Harmless
<1>a. {"webhookEntry", "webhookClose"} \subseteq Easy \ Opening
  BY DEF Easy, Steps, Starting, Opening
<1>1. ASSUME NEW s \in ShowIds, Webhook(r, s) PROVE Harmless
  <2>1. Quiet /\ BegunKept
    BY <1>1, StillQuiet DEF Webhook
  <2> QED
    BY <1>1, <1>a, <2>1, BeginFits DEF Webhook, Harmless
<1>2. CASE WebhookStub(r)
  <2>1. Quiet
    BY <1>2, InsertIsQuiet DEF WebhookStub
  <2>2. BegunKept
    BY <1>2 DEF WebhookStub, BegunKept, Begun
  <2> QED
    BY <1>2, <1>a, <2>1, <2>2, BeginFits DEF WebhookStub, Harmless
<1>3. ASSUME NEW type \in {"show_end", "track"}, WebhookEntry(r, type)
      PROVE  Harmless
  <2>1. Quiet
    BY <1>3, LogIsQuiet DEF WebhookEntry
  <2>2. BegunKept
    <3>1. CASE Log(Show(r), type, "webhook")
      BY <3>1, LogKeepsBegun DEF EntryTypes
    <3>2. CASE UNCHANGED log
      BY <3>2 DEF BegunKept, Begun
    <3> QED
      BY <1>3, <3>1, <3>2 DEF WebhookEntry
  <2>3. Goto(r, "webhookClose") \/ Done(r)
    BY <1>3 DEF WebhookEntry
  <2> QED
    BY <1>a, <2>1, <2>2, <2>3, GotoFits, DoneFits DEF Harmless
<1>4. CASE WebhookClose(r)
  <2>1. Quiet
    BY <1>4, CloseIsQuiet DEF WebhookClose, Closers
  <2>2. BegunKept
    BY <1>4 DEF WebhookClose, BegunKept, Begun
  <2> QED
    BY <1>4, <2>1, <2>2, DoneFits DEF WebhookClose, Harmless
<1> QED
  BY <1>1, <1>2, <1>3, <1>4 DEF WebhookSteps

\* The show that a go-live announces is its DJ's, who is active in it if it is
\* still open by then.
LEMMA StartKeepsInv ==
    ASSUME TypeOK, HostInv, NEW r \in Requests, StartMarker(r)
    PROVE  HostInv'
<1>1. Quiet
  BY LogIsQuiet DEF StartMarker
<1>2. CallersFit'
  BY <1>1, DoneFits DEF StartMarker, HostInv
<1>3. PICK x \in ShowIds :
        /\ x = Show(r) /\ x <= newest /\ primary[x] \in DJs
        /\ end[x] = "open" => member[x][primary[x]] = "active"
  BY DEF StartMarker, At, HostInv, CallersFit, CallerFits, Starting, Show
<1>4. \A s \in ShowIds : s # x => (Begun(s)' <=> Begun(s))
  BY <1>3 DEF StartMarker, Log, TypeOK, Begun
<1>5. BegunHaveHosts'
  BY <1>3, <1>4 DEF StartMarker, HostInv, BegunHaveHosts
<1>6. HostCanSignOff'
  <2> SUFFICES ASSUME NEW s \in ShowIds, end[s] = "open", Begun(s)'
               PROVE  member[s][primary[s]] = "active"
    BY DEF HostCanSignOff, Begun, StartMarker
  <2> QED
    BY <1>3, <1>4 DEF HostInv, HostCanSignOff, Begun
<1> QED
  BY <1>2, <1>5, <1>6 DEF HostInv

\* Every other step is harmless.
LEMMA StepHarmless ==
    ASSUME TypeOK, EndInv, CallersFit, [Next]_vars
    PROVE  Harmless \/ \E r \in Requests : StartMarker(r)
<1>1. ASSUME NEW r \in Requests, Fail(r) PROVE Harmless
  <2>1. Quiet /\ BegunKept
    BY <1>1, StillQuiet DEF Fail
  <2> QED
    BY <1>1, <2>1, DoneFits DEF Fail, Harmless
<1>2. ASSUME Quiet, UNCHANGED call PROVE CallersFit'
  <2> SUFFICES ASSUME NEW q \in Requests PROVE CallerFits(call[q])'
    BY DEF CallersFit
  <2>1. \A c \in Calls : CallerFits(c) => CallerFits(c)'
    BY <1>2, FitsStay
  <2>2. call'[q] = call[q] /\ call[q] \in Calls
    BY <1>2 DEF TypeOK
  <2> QED
    BY <2>1, <2>2 DEF CallersFit, CallerFits
<1>3. ASSUME NEW s \in ShowIds, NEW i \in DOMAIN log[s], WebhookDelete(s, i) PROVE Harmless
  <2>1. Quiet /\ BegunKept
    BY <1>3, LogIsQuiet, RemoveKeepsBegun DEF WebhookDelete
  <2> QED
    BY <1>2, <1>3, <2>1 DEF WebhookDelete, Harmless
<1>4. CASE UNCHANGED vars
  <2>1. Quiet /\ BegunKept
    BY <1>4, StillQuiet DEF vars
  <2> QED
    BY <1>2, <1>4, <2>1 DEF vars, Harmless
<1> QED
  BY <1>1, <1>3, <1>4, JoinHarmless, MembersHarmless, EndHarmless, WebhookHarmless
  DEF Next

\* HostCanSignOff holds in every reachable state: the host of an announced open
\* show stays an active member of it, whoever joins, leaves and ends shows.
THEOREM HostsCanSignOff == Spec => []HostCanSignOff
<1>1. Init => HostInv
  BY DEF Init, Idle, HostInv, CallersFit, CallerFits, Opening, Starting,
         BegunHaveHosts, HostCanSignOff, Begun
<1>2. TypeOK /\ EndInv /\ HostInv /\ [Next]_vars => HostInv'
  BY StepHarmless, QuietKeepsInv, StartKeepsInv DEF HostInv, Harmless
<1>3. HostInv => HostCanSignOff
  BY DEF HostInv
<1> QED
  BY <1>1, <1>2, <1>3, EndInvariant, PTL DEF Spec

(***************************************************************************)
(* The handlers implement ShowBoard.                                        *)
(***************************************************************************)
\* A handler's step is a step of the board, or none.
THEOREM RefinesShowBoard == Spec => ImplementsBoard
<1>a. Cardinality({}) = 0 /\ \A i : Cardinality({i}) = 1
  BY FS_EmptySet, FS_Singleton
<1>1. Init => Board!Init
  <2> SUFFICES ASSUME Init PROVE Board!Init
    OBVIOUS
  <2>1. \A s \in ShowIds : Ends(s) = {}
    BY DEF Init, Ends
  <2> QED
    BY <2>1, <1>a DEF Init, Board!Init
<1>2. TypeOK /\ EndInv /\ [Next]_vars => [Board!Next]_(Board!vars)
  <2> SUFFICES ASSUME TypeOK, EndInv, [Next]_vars PROVE [Board!Next]_(Board!vars)
    OBVIOUS
  <2> DEFINE said == [s \in ShowIds |-> Cardinality(Ends(s))]
  <2>1. ASSUME EndStep, EndsKept, signedOff' = signedOff
        PROVE  [Board!Next]_(Board!vars)
    <3>1. said' = said
      BY <2>1 DEF EndsKept
    <3>2. CASE end' = end
      BY <3>1, <3>2, <2>1 DEF Board!vars
    <3>3. ASSUME NEW s \in ShowIds, end[s] = "none", end' = [end EXCEPT ![s] = "open"]
          PROVE  Board!Next
      BY <3>1, <3>3, <2>1 DEF Board!Next, Board!GoLive
    <3>4. ASSUME NEW s \in ShowIds, NEW by \in Closers, end[s] = "open",
                 end' = [end EXCEPT ![s] = by], by = "backfill" => LastIsShowEnd(s)
          PROVE  Board!Next
      BY <3>1, <3>4, <2>1 DEF Board!Next, Board!End
    <3>5. CASE \E s \in ShowIds, by \in Closers :
                 /\ end[s] = "open" /\ end' = [end EXCEPT ![s] = by]
                 /\ by = "backfill" => LastIsShowEnd(s)
      <4>1. PICK s \in ShowIds, by \in Closers :
              /\ end[s] = "open" /\ end' = [end EXCEPT ![s] = by]
              /\ by = "backfill" => LastIsShowEnd(s)
        BY <3>5, Zenon
      <4> QED
        BY <3>4, <4>1
    <3> QED
      <4>1. \/ end' = end
            \/ \E s \in ShowIds : end[s] = "none" /\ end' = [end EXCEPT ![s] = "open"]
            \/ \E s \in ShowIds, by \in Closers :
                 /\ end[s] = "open" /\ end' = [end EXCEPT ![s] = by]
                 /\ by = "backfill" => LastIsShowEnd(s)
        BY <2>1 DEF EndStep
      <4>2. CASE \E s \in ShowIds : end[s] = "none" /\ end' = [end EXCEPT ![s] = "open"]
        BY <3>3, <4>2
      <4> QED
        BY <3>2, <3>5, <4>1, <4>2
  <2>2. ASSUME NEW r \in Requests, EndMarker(r), NEW s, s = Show(r) PROVE Board!Next
    <3>1. /\ end' = end /\ signedOff' = signedOff
          /\ s \in ShowIds /\ end[s] \in {"host", "operator"}
          /\ Ends(s) = {}
          /\ \E i : Ends(s)' = {i}
          /\ \A t \in ShowIds : t # s => Ends(t)' = Ends(t)
      BY <2>2, MarkerKeepsInv
    <3>2. said[s] = 0
      BY <3>1, <1>a
    <3>3. said' = [said EXCEPT ![s] = 1]
      BY <3>1, <1>a
    <3>4. Board!Announce(s)
      BY <3>1, <3>2, <3>3 DEF Board!Announce
    <3> QED
      BY <3>1, <3>4 DEF Board!Next
  <2>3. ASSUME NEW r \in Requests, Reply(r), NEW s, s = Show(r) PROVE Board!Next
    <3>1. /\ end' = end /\ EndsKept
          /\ s \in ShowIds /\ Ends(s) # {}
          /\ signedOff[s] = 0
          /\ signedOff' = [signedOff EXCEPT ![s] = 1]
      BY <2>3, ReplyKeepsInv
    <3>2. said' = said
      BY <3>1 DEF EndsKept
    <3>3. said[s] = 1
      <4>1. PICK i : i \in Ends(s)
        BY <3>1
      <4>2. Ends(s) = {i}
        BY <4>1, <3>1 DEF EndInv, EndsOnce
      <4> QED
        BY <4>2, <3>1, <1>a
    <3>4. Board!SignOff(s)
      BY <3>1, <3>2, <3>3 DEF Board!SignOff
    <3> QED
      BY <3>1, <3>4 DEF Board!Next
  <2> QED
    BY <2>1, <2>2, <2>3, StepKinds, ClaimKeepsInv DEF EndInv, Mild
<1> QED
  BY <1>1, <1>2, EndInvariant, PTL DEF Spec, ImplementsBoard, Board!Spec

(***************************************************************************)
(* Play order.                                                              *)
(***************************************************************************)
\* A finite set of numbers that is not empty has a largest one.
LEMMA MaxOfFinite ==
    ASSUME NEW S, IsFiniteSet(S), S \subseteq Nat, S # {}
    PROVE  Max(S) \in S /\ \A y \in S : y <= Max(S)
<1>1. \E x \in S : \A y \in S : x >= y
  <2> SUFFICES ASSUME ~ \E x \in S : \A y \in S : x >= y PROVE FALSE
    OBVIOUS
  <2> DEFINE Topless == {T \in FiniteSubsetsOf(S) :
                           T # {} /\ ~ \E x \in T : \A y \in T : x >= y}
  <2>1. S \in Topless
    BY DEF FiniteSubsetsOf
  <2>2. Topless \subseteq FiniteSubsetsOf(S) /\ Topless # {}
    BY <2>1
  <2>3. PICK T \in Topless : \A U \in Topless : ~ (<<U, T>> \in StrictSubsetOrdering(S))
    <3> HIDE DEF Topless
    <3>1. IsWellFoundedOn(StrictSubsetOrdering(S), FiniteSubsetsOf(S))
      BY FS_StrictSubsetOrderingWellFounded
    <3> QED
      BY <2>2, <3>1, WFMin, Zenon
  <2>4. T \in SUBSET S /\ IsFiniteSet(T) /\ T # {}
        /\ ~ \E x \in T : \A y \in T : x >= y
    BY DEF FiniteSubsetsOf
  <2>5. PICK x \in T : TRUE
    BY <2>4
  <2> DEFINE U == T \ {x}
  <2>6. IsFiniteSet(U) /\ U \in SUBSET S /\ U # T
    BY <2>4, <2>5, FS_RemoveElement
  <2>7. <<U, T>> \in StrictSubsetOrdering(S)
    BY <2>4, <2>6 DEF StrictSubsetOrdering
  <2>8. U \notin Topless
    BY <2>3, <2>7
  <2>9. CASE U = {}
    BY <2>4, <2>5, <2>9
  <2>10. CASE U # {}
    <3>1. PICK m \in U : \A y \in U : m >= y
      BY <2>6, <2>8, <2>10 DEF FiniteSubsetsOf
    <3>2. \A y \in T : y = x \/ m >= y
      BY <3>1
    <3>3. m \in T /\ m \in Nat /\ x \in Nat /\ T \subseteq Nat
      BY <2>4, <2>5, <3>1
    <3> QED
      BY <2>4, <2>5, <3>2, <3>3
  <2> QED
    BY <2>9, <2>10
<1> QED
  BY <1>1 DEF Max

\* Two elements of a set with at most one are the same.
LEMMA AtMostOne ==
    ASSUME NEW S, IsFiniteSet(S), ~(Cardinality(S) > 1), NEW a \in S, NEW b \in S
    PROVE  a = b
<1> SUFFICES ASSUME a # b PROVE FALSE
  OBVIOUS
<1>1. IsFiniteSet({a}) /\ Cardinality({a}) = 1
  BY FS_Singleton
<1>2. b \notin {a} /\ Cardinality({a} \cup {b}) =
        IF b \in {a} THEN Cardinality({a}) ELSE Cardinality({a}) + 1
  BY <1>1, FS_AddElement, Zenon
<1>3. {a} \cup {b} \in SUBSET S
  OBVIOUS
<1>4. Cardinality({a} \cup {b}) <= Cardinality(S)
  BY <1>3, FS_Subset
<1>5. Cardinality(S) \in Nat
  BY FS_CardinalityType
<1> QED
  BY <1>1, <1>2, <1>4, <1>5

\* The rows and the rows to come are finitely many.
LEMMA RowsFinite ==
    ASSUME OrderTypeOK
    PROVE  IsFiniteSet(Present) /\ IsFiniteSet(DOMAIN asked) /\ IsFiniteSet(Range(place))
<1>1. IsFiniteSet(Present) /\ IsFiniteSet(DOMAIN asked)
  <2>1. Present \in SUBSET RowIds /\ DOMAIN asked \in SUBSET RowIds
    BY DEF OrderTypeOK
  <2> QED
    BY <2>1, FS_Subset, OrderAssumption
<1>2. IsFiniteSet(Range(place))
  <2> DEFINE f == [e \in Present |-> place[e]]
  <2>1. f \in Surjection(Present, Range(place))
    BY DEF Surjection, Range, Present
  <2> HIDE DEF f
  <2> QED
    BY <1>1, <2>1, FS_Surjection
<1> QED
  BY <1>1, <1>2

\* The next number is beyond all there are.
LEMMA NextIsBeyond ==
    ASSUME OrderTypeOK
    PROVE  NextPlayOrder \in Nat \ {0} /\ \A f \in Present : place[f] < NextPlayOrder
<1>1. CASE Present = {}
  BY <1>1 DEF NextPlayOrder
<1>2. CASE Present # {}
  <2>1. Range(place) \subseteq Nat /\ Range(place) # {}
    BY <1>2 DEF OrderTypeOK, Range, Present
  <2>2. Max(Range(place)) \in Nat /\ \A y \in Range(place) : y <= Max(Range(place))
    BY <2>1, RowsFinite, MaxOfFinite
  <2>3. \A f \in Present : place[f] \in Range(place)
    BY DEF Range, Present
  <2> HIDE DEF Present
  <2> QED
    BY <1>2, <2>1, <2>2, <2>3 DEF NextPlayOrder
<1> QED
  BY <1>1, <1>2

\* At most one reorder is under way (orderMutex), and its record is as the
\* statements left it.
MoveTyped(r) ==
  /\ move[r].at \in {"shift", "place"} /\ move[r].row \in RowIds
  /\ move[r].from \in Nat /\ move[r].to \in Nat
  /\ move[r] \in Moves(move[r].held)
  /\ \A e \in DOMAIN move[r].held : move[r].held[e] \in Nat
OrderTyped ==
  /\ DOMAIN move = Reorders
  /\ \A r \in UnderWay : MoveTyped(r)
  /\ \A r, q \in UnderWay : r = q

\* A number that is asked for is beyond all there are.
AskedIsLast == \A e \in DOMAIN asked, f \in Present : place[f] < asked[e]

\* The row of a move is still the only one with its old number, and the rows it
\* has locked are the rows between the two numbers, each one further.
MoveIsExact == \A r \in UnderWay :
  /\ \A f \in Present : place[f] = move[r].from <=> f = move[r].row
  /\ move[r].at = "place" =>
       /\ DOMAIN move[r].held = Between(move[r].from, move[r].to)
       /\ \A e \in DOMAIN move[r].held : move[r].held[e] =
            IF move[r].to < move[r].from THEN place[e] + 1 ELSE place[e] - 1

Calm == ~Races(asked, move) /\ IsInjective(place) /\ AskedIsLast /\ MoveIsExact
OrderInv == OrderTypeOK /\ OrderTyped /\ (~raced => Calm)

\* A step that leaves the moves alone leaves them typed.
LEMMA MovesUntouched ==
    ASSUME OrderTyped, move' = move
    PROVE  OrderTyped' /\ UnderWay' = UnderWay /\ (\A r \in UnderWay : move'[r] \in Moves(move'[r].held))
<1>1. UnderWay' = UnderWay
  BY DEF UnderWay
<1> QED
  BY <1>1 DEF OrderTyped, MoveTyped, Moves

\* A move that is over, done or undone, leaves no other.
LEMMA MoveOver ==
    ASSUME OrderTyped, NEW r \in UnderWay, move' = [move EXCEPT ![r] = NoMove]
    PROVE  OrderTyped' /\ UnderWay' = {}
<1>1. r \in Reorders /\ DOMAIN move' = Reorders /\ move'[r] = NoMove
      /\ \A q \in Reorders : q # r => move'[q] = move[q]
  BY DEF OrderTyped, UnderWay
<1>2. UnderWay' = {}
  BY <1>1 DEF UnderWay, OrderTyped
<1> QED
  BY <1>1, <1>2 DEF OrderTyped

\* The adds and the deletes keep everything typed.
LEMMA RowsTyped ==
    ASSUME OrderTypeOK, OrderTyped, NEW e \in RowIds,
           \/ AskPlace(e) \/ InsertRow(e) \/ InsertFails(e) \/ RemoveRow(e)
           \/ \E n \in 0 .. MaxPlace : WebhookInserts(e, n)
    PROVE  OrderTypeOK' /\ OrderTyped'
<1>a. Present \subseteq RowIds /\ DOMAIN asked \subseteq RowIds \ Present
      /\ (\A f \in Present : place[f] \in Nat)
      /\ (\A f \in DOMAIN asked : asked[f] \in Nat \ {0}) /\ raced \in BOOLEAN
  BY DEF OrderTypeOK
<1>b. move' = move
  BY DEF AskPlace, InsertRow, InsertFails, RemoveRow, WebhookInserts
<1>c. OrderTyped' /\ \A r \in UnderWay' : move'[r] \in Moves(move'[r].held)
  BY <1>b, MovesUntouched
<1>1. CASE AskPlace(e)
  <2>1. DOMAIN asked' = DOMAIN asked \cup {e} /\ asked'[e] = NextPlayOrder
        /\ \A f \in DOMAIN asked : asked'[f] \in Nat \ {0}
    BY <1>1, <1>a, NextIsBeyond DEF AskPlace
  <2>2. raced' \in BOOLEAN /\ place' = place /\ e \notin Present
    BY <1>1 DEF AskPlace, IsFree
  <2> QED
    BY <1>a, <1>c, <2>1, <2>2, NextIsBeyond DEF OrderTypeOK, Present
<1>2. CASE InsertRow(e)
  <2>1. DOMAIN asked' = DOMAIN asked \ {e} /\ \A f \in DOMAIN asked' : asked'[f] = asked[f]
    BY <1>2 DEF InsertRow, Restrict
  <2>2. DOMAIN place' = Present \cup {e} /\ \A f \in DOMAIN place' : place'[f] \in Nat
    BY <1>2, <1>a DEF InsertRow
  <2> QED
    BY <1>2, <1>a, <1>c, <2>1, <2>2 DEF OrderTypeOK, Present, InsertRow
<1>3. CASE InsertFails(e)
  <2>1. DOMAIN asked' = DOMAIN asked \ {e} /\ \A f \in DOMAIN asked' : asked'[f] = asked[f]
    BY <1>3 DEF InsertFails, Restrict
  <2> QED
    BY <1>3, <1>a, <1>c, <2>1 DEF OrderTypeOK, Present, InsertFails
<1>4. CASE RemoveRow(e)
  <2>1. DOMAIN place' = Present \ {e} /\ \A f \in DOMAIN place' : place'[f] = place[f]
    BY <1>4 DEF RemoveRow, Restrict
  <2> QED
    BY <1>4, <1>a, <1>c, <2>1 DEF OrderTypeOK, Present, RemoveRow
<1>5. ASSUME NEW n \in 0 .. MaxPlace, WebhookInserts(e, n)
      PROVE  OrderTypeOK' /\ OrderTyped'
  <2>1. DOMAIN place' = Present \cup {e} /\ \A f \in DOMAIN place' : place'[f] \in Nat
    BY <1>5, <1>a DEF WebhookInserts
  <2>2. e \notin DOMAIN asked
    BY <1>5 DEF WebhookInserts, IsFree
  <2> QED
    BY <1>5, <1>a, <1>c, <2>1, <2>2 DEF OrderTypeOK, Present, WebhookInserts
<1> QED
  BY <1>1, <1>2, <1>3, <1>4, <1>5

\* What the first statement of a move does: the move is alone.
LEMMA Selected ==
    ASSUME OrderTypeOK, OrderTyped, NEW r \in Reorders, NEW e \in RowIds,
           NEW to \in 1 .. MaxPlace, SelectRow(r, e, to)
    PROVE  /\ UnderWay' = {r} /\ DOMAIN move' = Reorders
           /\ move'[r].at = "shift" /\ move'[r].row = e /\ move'[r].from = place[e]
           /\ move'[r].to = to /\ move'[r].held = << >>
           /\ move'[r] \in Moves(<< >>) /\ place[e] \in Nat
<1> DEFINE new == [at |-> "shift", row |-> e, from |-> place[e], to |-> to, held |-> << >>]
<1>1. move' = [move EXCEPT ![r] = new] /\ UnderWay = {} /\ place[e] \in Nat
  BY DEF SelectRow, MutexIsFree, OrderTypeOK
<1>2. new.at = "shift" /\ new.row = e /\ new.from = place[e] /\ new.to = to
      /\ new.held = << >> /\ new \in Moves(<< >>)
  BY <1>1 DEF Moves
<1> HIDE DEF new
<1>3. new # NoMove
  BY <1>2 DEF NoMove
<1>4. DOMAIN move' = Reorders /\ move'[r] = new
      /\ \A q \in Reorders : q # r => move'[q] = NoMove
  BY <1>1 DEF OrderTyped, UnderWay
<1>5. UnderWay' = {r}
  BY <1>3, <1>4 DEF UnderWay
<1> QED
  BY <1>1, <1>2, <1>4, <1>5

\* What the second statement of a move does: it locks the rows between.
LEMMA Shifted ==
    ASSUME OrderTypeOK, OrderTyped, NEW r \in Reorders, ShiftRows(r)
    PROVE  /\ r \in UnderWay /\ UnderWay' = UnderWay /\ DOMAIN move' = Reorders
           /\ move'[r].at = "place" /\ move'[r].row = move[r].row
           /\ move'[r].from = move[r].from /\ move'[r].to = move[r].to
           /\ DOMAIN move'[r].held = Between(move[r].from, move[r].to)
           /\ \A e \in DOMAIN move'[r].held :
                move'[r].held[e] = (IF move[r].to < move[r].from THEN place[e] + 1
                                                                 ELSE place[e] - 1)
           /\ move'[r] \in Moves(move'[r].held)
<1> DEFINE from == move[r].from
           to == move[r].to
           locked == [e \in Between(from, to) |-> IF to < from THEN place[e] + 1 ELSE place[e] - 1]
           new == [move[r] EXCEPT !.at = "place", !.held = locked]
<1>1. r \in UnderWay
  BY DEF ShiftRows, UnderWay
<1>2. move[r] \in Moves(move[r].held) /\ DOMAIN move = Reorders
  BY <1>1 DEF OrderTyped, MoveTyped
<1>3. move' = [move EXCEPT ![r] = new]
  BY <1>2 DEF ShiftRows, Moves
<1>4. new.at = "place" /\ new.row = move[r].row /\ new.from = from /\ new.to = to
      /\ new.held = locked /\ new \in Moves(locked)
  BY <1>2 DEF Moves
<1>5. DOMAIN locked = Between(from, to)
      /\ \A e \in DOMAIN locked : locked[e] = IF to < from THEN place[e] + 1 ELSE place[e] - 1
  OBVIOUS
<1> HIDE DEF new, locked
<1>6. new # NoMove
  BY <1>4 DEF NoMove
<1>7. DOMAIN move' = Reorders /\ move'[r] = new
      /\ \A q \in Reorders : q # r => move'[q] = move[q]
  BY <1>2, <1>3
<1>8. UnderWay' = UnderWay
  BY <1>1, <1>6, <1>7 DEF UnderWay
<1> QED
  BY <1>1, <1>4, <1>5, <1>7, <1>8

\* A move keeps everything typed.
LEMMA MovesTyped ==
    ASSUME OrderTypeOK, OrderTyped, NEW r \in Reorders,
           \/ \E e \in RowIds, to \in 1 .. MaxPlace : SelectRow(r, e, to)
           \/ ShiftRows(r) \/ PlaceRow(r) \/ MoveFails(r)
    PROVE  OrderTypeOK' /\ OrderTyped'
<1>a. Present \subseteq RowIds /\ DOMAIN asked \subseteq RowIds \ Present
      /\ (\A f \in Present : place[f] \in Nat)
      /\ (\A f \in DOMAIN asked : asked[f] \in Nat \ {0}) /\ raced \in BOOLEAN
  BY DEF OrderTypeOK
<1>b. asked' = asked /\ raced' \in BOOLEAN
  BY <1>a DEF SelectRow, ShiftRows, PlaceRow, MoveFails
<1>1. ASSUME NEW e \in RowIds, NEW to \in 1 .. MaxPlace, SelectRow(r, e, to)
      PROVE  OrderTypeOK' /\ OrderTyped'
  <2>1. place' = place
    BY <1>1 DEF SelectRow
  <2>2. /\ UnderWay' = {r} /\ DOMAIN move' = Reorders
        /\ move'[r].at = "shift" /\ move'[r].row = e /\ move'[r].from \in Nat
        /\ move'[r].to \in Nat /\ move'[r].held = << >>
        /\ move'[r] \in Moves(move'[r].held)
    BY <1>1, Selected
  <2>3. DOMAIN move'[r].held = {}
    BY <2>2
  <2>4. OrderTyped'
    BY <2>2, <2>3 DEF OrderTyped, MoveTyped
  <2> QED
    BY <1>a, <1>b, <2>1, <2>2, <2>4 DEF OrderTypeOK, Present
<1>2. CASE ShiftRows(r)
  <2>1. place' = place
    BY <1>2 DEF ShiftRows
  <2>2. r \in UnderWay /\ UnderWay' = UnderWay /\ UnderWay = {r} /\ MoveTyped(r)
    BY <1>2, Shifted DEF OrderTyped
  <2>3. /\ DOMAIN move' = Reorders
        /\ move'[r].at = "place" /\ move'[r].row \in RowIds /\ move'[r].from \in Nat
        /\ move'[r].to \in Nat /\ move'[r] \in Moves(move'[r].held)
    BY <1>2, <2>2, Shifted DEF MoveTyped
  <2>4. \A e \in DOMAIN move'[r].held : move'[r].held[e] \in Nat
    <3> SUFFICES ASSUME NEW e \in DOMAIN move'[r].held PROVE move'[r].held[e] \in Nat
      OBVIOUS
    <3>1. e \in Between(move[r].from, move[r].to)
          /\ move'[r].held[e] = (IF move[r].to < move[r].from THEN place[e] + 1
                                                              ELSE place[e] - 1)
      BY <1>2, Shifted
    <3> QED
      BY <1>a, <2>2, <3>1 DEF Between, MoveTyped
  <2>5. OrderTyped'
    BY <2>2, <2>3, <2>4 DEF OrderTyped, MoveTyped
  <2> QED
    BY <1>a, <1>b, <2>1, <2>2, <2>3, <2>5 DEF OrderTypeOK, Present
<1>3. CASE PlaceRow(r)
  <2>1. r \in UnderWay /\ move' = [move EXCEPT ![r] = NoMove]
    BY <1>3 DEF PlaceRow, UnderWay
  <2>2. OrderTyped' /\ UnderWay' = {}
    BY <2>1, MoveOver
  <2>3. MoveTyped(r)
    BY <2>1 DEF OrderTyped
  <2>4. DOMAIN place' = Present /\ \A f \in Present : place'[f] \in Nat
    BY <1>3, <1>a, <2>3 DEF PlaceRow, MoveTyped
  <2> QED
    BY <1>a, <1>b, <2>2, <2>4 DEF OrderTypeOK, Present
<1>4. CASE MoveFails(r)
  <2>1. r \in UnderWay /\ move' = [move EXCEPT ![r] = NoMove] /\ place' = place
    BY <1>4 DEF MoveFails, UnderWay
  <2>2. OrderTyped' /\ UnderWay' = {}
    BY <2>1, MoveOver
  <2> QED
    BY <1>a, <1>b, <2>1, <2>2 DEF OrderTypeOK, Present
<1> QED
  BY <1>1, <1>2, <1>3, <1>4

\* While a number is asked for and nothing races, no move is under way.
LEMMA AskedAlone ==
    ASSUME OrderTypeOK, OrderTyped, ~Races(asked, move), DOMAIN asked # {}
    PROVE  UnderWay = {} /\ \A e, f \in DOMAIN asked : e = f
<1>1. asked # << >>
  <2>1. DOMAIN << >> = {}
    OBVIOUS
  <2> QED
    BY <2>1
<1>2. UnderWay = {}
  BY <1>1 DEF Races, UnderWay
<1>3. ~(Cardinality(DOMAIN asked) > 1)
  BY DEF Races
<1> QED
  BY <1>2, <1>3, RowsFinite, AtMostOne

\* Without a number asked for, nothing races.
LEMMA NothingRaces ==
    ASSUME NEW asks, DOMAIN asks = {}, NEW moves, \A r \in Reorders : moves[r] = NoMove
    PROVE  ~Races(asks, moves)
BY FS_EmptySet DEF Races

\* Adds one at a time, with no move under way, keep the numbers apart.
LEMMA RowsCalm ==
    ASSUME OrderInv, ~raced', NEW e \in RowIds,
           \/ AskPlace(e) \/ InsertRow(e) \/ InsertFails(e) \/ RemoveRow(e)
           \/ \E n \in 0 .. MaxPlace : WebhookInserts(e, n)
    PROVE  Calm'
<1>a. ~raced /\ ~ \E n \in 0 .. MaxPlace : WebhookInserts(e, n)
  <2>1. CASE AskPlace(e)
    BY <2>1 DEF AskPlace, WebhookInserts
  <2>2. CASE InsertRow(e) \/ InsertFails(e) \/ RemoveRow(e)
    BY <2>2 DEF InsertRow, InsertFails, RemoveRow, WebhookInserts
  <2>3. ~ \E n \in 0 .. MaxPlace : WebhookInserts(e, n)
    BY DEF WebhookInserts
  <2> QED
    BY <2>1, <2>2, <2>3
<1>b. /\ OrderTypeOK /\ OrderTyped /\ ~Races(asked, move) /\ IsInjective(place)
      /\ AskedIsLast /\ MoveIsExact
  BY <1>a DEF OrderInv, Calm
<1>c. OrderTypeOK' /\ OrderTyped'
  BY <1>b, RowsTyped
<1>d. move' = move /\ UnderWay' = UnderWay
  BY DEF AskPlace, InsertRow, InsertFails, RemoveRow, WebhookInserts, UnderWay
<1>e. Present \subseteq RowIds /\ DOMAIN asked \subseteq RowIds \ Present
      /\ \A f \in Present : place[f] \in Nat
  BY <1>b DEF OrderTypeOK
<1>1. CASE AskPlace(e)
  <2>1. ~Races(asked', move')
    BY <1>1, <1>d DEF AskPlace
  <2>2. place' = place /\ e \in DOMAIN asked' /\ asked'[e] = NextPlayOrder
    BY <1>1 DEF AskPlace
  <2>3. UnderWay' = {} /\ \A f, g \in DOMAIN asked' : f = g
    <3>1. asked' # << >>
      <4>1. DOMAIN << >> = {}
        OBVIOUS
      <4> QED
        BY <2>2, <4>1
    <3>2. UnderWay' = {}
      BY <2>1, <3>1 DEF Races, UnderWay
    <3>3. DOMAIN asked' \in SUBSET RowIds /\ ~(Cardinality(DOMAIN asked') > 1)
      BY <1>c, <2>1 DEF OrderTypeOK, Races
    <3>4. IsFiniteSet(DOMAIN asked')
      BY <3>3, FS_Subset, OrderAssumption
    <3> QED
      BY <3>2, <3>3, <3>4, AtMostOne
  <2>4. AskedIsLast'
    BY <1>b, <2>2, <2>3, NextIsBeyond DEF AskedIsLast, Present
  <2>5. MoveIsExact' /\ IsInjective(place')
    BY <1>b, <2>2, <2>3 DEF MoveIsExact
  <2> QED
    BY <2>1, <2>4, <2>5 DEF Calm
<1>2. CASE InsertRow(e)
  <2>1. e \in DOMAIN asked
    BY <1>2 DEF InsertRow
  <2>2. UnderWay = {} /\ DOMAIN asked = {e}
    BY <1>b, <2>1, AskedAlone
  <2>3. DOMAIN asked' = {}
    BY <1>2, <2>2 DEF InsertRow, Restrict
  <2>4. ~Races(asked', move')
    BY <1>d, <2>2, <2>3, NothingRaces DEF UnderWay
  <2>5. /\ DOMAIN place' = Present \cup {e} /\ e \notin Present
        /\ place'[e] = asked[e] /\ \A f \in Present : place'[f] = place[f]
    BY <1>2, <1>e, <2>1 DEF InsertRow
  <2>6. \A f \in Present : place'[f] # place'[e]
    BY <1>b, <1>e, <2>1, <2>5 DEF AskedIsLast
  <2>7. IsInjective(place')
    BY <1>b, <2>5, <2>6 DEF IsInjective, Present
  <2> QED
    BY <1>d, <2>2, <2>3, <2>4, <2>7 DEF Calm, AskedIsLast, MoveIsExact
<1>3. CASE InsertFails(e)
  <2>1. e \in DOMAIN asked /\ place' = place
    BY <1>3 DEF InsertFails
  <2>2. UnderWay = {} /\ DOMAIN asked = {e}
    BY <1>b, <2>1, AskedAlone
  <2>3. DOMAIN asked' = {}
    BY <1>3, <2>2 DEF InsertFails, Restrict
  <2>4. ~Races(asked', move')
    BY <1>d, <2>2, <2>3, NothingRaces DEF UnderWay
  <2> QED
    BY <1>b, <1>d, <2>1, <2>2, <2>3, <2>4 DEF Calm, AskedIsLast, MoveIsExact
<1>4. CASE RemoveRow(e)
  <2>1. asked' = asked
    BY <1>4 DEF RemoveRow
  <2>2. /\ Present' = Present \ {e} /\ ~Held(e)
        /\ \A f \in Present' : f \in Present /\ place'[f] = place[f]
    BY <1>4 DEF RemoveRow, Restrict, Present
  <2>3. IsInjective(place')
    BY <1>b, <2>2 DEF IsInjective, Present
  <2>4. AskedIsLast'
    BY <1>b, <2>1, <2>2 DEF AskedIsLast
  <2>5. MoveIsExact'
    <3> SUFFICES ASSUME NEW r \in UnderWay
                 PROVE  /\ \A f \in Present' : place'[f] = move[r].from <=> f = move[r].row
                        /\ move[r].at = "place" =>
                             /\ DOMAIN move[r].held = Between(move[r].from, move[r].to)'
                             /\ \A f \in DOMAIN move[r].held : move[r].held[f] =
                                  IF move[r].to < move[r].from THEN place'[f] + 1 ELSE place'[f] - 1
      BY <1>d DEF MoveIsExact, Between
    <3>1. \A f \in Present' : place'[f] = move[r].from <=> f = move[r].row
      BY <1>b, <2>2 DEF MoveIsExact
    <3>2. ASSUME move[r].at = "place"
          PROVE  /\ DOMAIN move[r].held = Between(move[r].from, move[r].to)'
                 /\ \A f \in DOMAIN move[r].held : move[r].held[f] =
                      IF move[r].to < move[r].from THEN place'[f] + 1 ELSE place'[f] - 1
      <4>1. e \notin DOMAIN move[r].held
        BY <2>2 DEF Held
      <4>2. /\ DOMAIN move[r].held = Between(move[r].from, move[r].to)
            /\ \A f \in DOMAIN move[r].held : move[r].held[f] =
                 IF move[r].to < move[r].from THEN place[f] + 1 ELSE place[f] - 1
        BY <1>b, <3>2 DEF MoveIsExact
      <4>3. Between(move[r].from, move[r].to)' = Between(move[r].from, move[r].to) \ {e}
        BY <1>d, <2>2 DEF Between
      <4>4. \A f \in DOMAIN move[r].held : f \in Present'
        BY <2>2, <4>1, <4>2 DEF Between
      <4> QED
        BY <2>2, <4>1, <4>2, <4>3, <4>4
    <3> QED
      BY <3>1, <3>2
  <2> QED
    BY <1>b, <1>d, <2>1, <2>3, <2>4, <2>5 DEF Calm
<1> QED
  BY <1>a, <1>1, <1>2, <1>3, <1>4

\* What the last statement of an undisturbed move does to the numbers.
LEMMA PlacedExactly ==
    ASSUME OrderTypeOK, OrderTyped, MoveIsExact, NEW r \in Reorders, PlaceRow(r)
    PROVE  /\ r \in UnderWay /\ UnderWay' = {} /\ Present' = Present
           /\ \E from, to \in Nat :
                /\ \A f \in Present : place[f] = from <=> f = move[r].row
                /\ \A f \in Present : place'[f] =
                     IF f = move[r].row THEN to
                     ELSE IF to <= place[f] /\ place[f] < from THEN place[f] + 1
                     ELSE IF from < place[f] /\ place[f] <= to THEN place[f] - 1
                     ELSE place[f]
<1>1. r \in UnderWay /\ move' = [move EXCEPT ![r] = NoMove] /\ move[r].at = "place"
  BY DEF PlaceRow, UnderWay
<1>2. UnderWay' = {}
  BY <1>1, MoveOver
<1>3. DOMAIN place' = Present
      /\ \A f \in Present : place'[f] =
           IF f = move[r].row THEN move[r].to
           ELSE IF f \in DOMAIN move[r].held THEN move[r].held[f] ELSE place[f]
  BY DEF PlaceRow
<1>4. move[r].from \in Nat /\ move[r].to \in Nat
  BY <1>1 DEF OrderTyped, MoveTyped
<1>5. /\ \A f \in Present : place[f] = move[r].from <=> f = move[r].row
      /\ DOMAIN move[r].held = Between(move[r].from, move[r].to)
      /\ \A f \in DOMAIN move[r].held : move[r].held[f] =
           IF move[r].to < move[r].from THEN place[f] + 1 ELSE place[f] - 1
  BY <1>1 DEF MoveIsExact
<1>6. PICK from \in Nat, to \in Nat : from = move[r].from /\ to = move[r].to
  BY <1>4
<1>7. \A f \in Present : place[f] \in Nat
  BY DEF OrderTypeOK
<1>8. \A f \in Present : f \in DOMAIN move[r].held <=>
        (to <= place[f] /\ place[f] < from) \/ (from < place[f] /\ place[f] <= to)
  BY <1>5, <1>6 DEF Between
<1>9. \A f \in Present : place'[f] =
        IF f = move[r].row THEN to
        ELSE IF to <= place[f] /\ place[f] < from THEN place[f] + 1
        ELSE IF from < place[f] /\ place[f] <= to THEN place[f] - 1
        ELSE place[f]
  <2> SUFFICES ASSUME NEW f \in Present, f # move[r].row
               PROVE  place'[f] = IF to <= place[f] /\ place[f] < from THEN place[f] + 1
                                  ELSE IF from < place[f] /\ place[f] <= to THEN place[f] - 1
                                  ELSE place[f]
    BY <1>3, <1>6
  <2>1. CASE f \in DOMAIN move[r].held
    <3>1. place'[f] = move[r].held[f]
      BY <1>3, <2>1
    <3>2. move[r].held[f] = IF to < from THEN place[f] + 1 ELSE place[f] - 1
      BY <1>5, <1>6, <2>1
    <3> QED
      BY <1>7, <1>8, <2>1, <3>1, <3>2
  <2>2. CASE f \notin DOMAIN move[r].held
    <3>1. place'[f] = place[f]
      BY <1>3, <2>2
    <3> QED
      BY <1>8, <2>2, <3>1
  <2> QED
    BY <2>1, <2>2
<1> QED
  BY <1>1, <1>2, <1>3, <1>5, <1>6, <1>9 DEF Present

\* It keeps the order of the rows it does not move, and their numbers apart.
LEMMA PlacedApart ==
    ASSUME OrderTypeOK, OrderTyped, MoveIsExact, IsInjective(place),
           NEW r \in Reorders, PlaceRow(r)
    PROVE  /\ IsInjective(place')
           /\ \A f, g \in Present : f # move[r].row /\ g # move[r].row =>
                (place[f] < place[g] <=> place'[f] < place'[g])
<1>1. Present' = Present
  BY PlacedExactly
<1>2. PICK from \in Nat, to \in Nat :
        /\ \A f \in Present : place[f] = from <=> f = move[r].row
        /\ \A f \in Present : place'[f] =
             IF f = move[r].row THEN to
             ELSE IF to <= place[f] /\ place[f] < from THEN place[f] + 1
             ELSE IF from < place[f] /\ place[f] <= to THEN place[f] - 1
             ELSE place[f]
  BY PlacedExactly
<1>3. \A f \in Present : place[f] \in Nat
  BY DEF OrderTypeOK
<1>4. ASSUME NEW f \in Present, NEW g \in Present, f # g
      PROVE  place'[f] # place'[g]
  <2>1. place[f] # place[g]
    BY <1>4 DEF IsInjective, Present
  <2>2. ~(f = move[r].row /\ g = move[r].row)
    BY <1>4
  <2> QED
    BY <1>2, <1>3, <2>1, <2>2
<1>5. IsInjective(place')
  BY <1>1, <1>4 DEF IsInjective, Present
<1>6. ASSUME NEW f \in Present, NEW g \in Present, f # move[r].row, g # move[r].row
      PROVE  place[f] < place[g] <=> place'[f] < place'[g]
  BY <1>2, <1>3, <1>6
<1> QED
  BY <1>5, <1>6

\* A move, when nothing races, keeps the numbers apart.
LEMMA MovesCalm ==
    ASSUME OrderInv, ~raced', NEW r \in Reorders,
           \/ \E e \in RowIds, to \in 1 .. MaxPlace : SelectRow(r, e, to)
           \/ ShiftRows(r) \/ PlaceRow(r) \/ MoveFails(r)
    PROVE  Calm'
<1>a. ~raced /\ asked' = asked
  <2>1. ASSUME NEW e \in RowIds, NEW to \in 1 .. MaxPlace, SelectRow(r, e, to)
        PROVE  ~raced /\ asked' = asked
    BY <2>1 DEF SelectRow
  <2>2. CASE ShiftRows(r) \/ PlaceRow(r) \/ MoveFails(r)
    BY <2>2 DEF ShiftRows, PlaceRow, MoveFails
  <2> QED
    BY <2>1, <2>2
<1>b. /\ OrderTypeOK /\ OrderTyped /\ ~Races(asked, move) /\ IsInjective(place)
      /\ AskedIsLast /\ MoveIsExact
  BY <1>a DEF OrderInv, Calm
<1>1. ASSUME NEW e \in RowIds, NEW to \in 1 .. MaxPlace, SelectRow(r, e, to)
      PROVE  Calm'
  <2>1. place' = place /\ ~Races(asked', move') /\ e \in Present /\ Present' = Present
    BY <1>1, <1>a DEF SelectRow, Present
  <2>2. UnderWay' = {r} /\ move'[r].at = "shift" /\ move'[r].row = e
        /\ move'[r].from = place[e]
    BY <1>1, <1>b, Selected
  <2>3. \A f \in Present : place[f] = place[e] <=> f = e
    BY <1>b, <2>1 DEF IsInjective, Present
  <2>4. MoveIsExact'
    BY <2>1, <2>2, <2>3 DEF MoveIsExact
  <2> QED
    BY <1>a, <1>b, <2>1, <2>4 DEF Calm, AskedIsLast
<1>2. CASE ShiftRows(r)
  <2>1. place' = place /\ Present' = Present
    BY <1>2 DEF ShiftRows, Present
  <2>2. /\ r \in UnderWay /\ UnderWay' = UnderWay
        /\ move'[r].row = move[r].row
        /\ move'[r].from = move[r].from /\ move'[r].to = move[r].to
        /\ DOMAIN move'[r].held = Between(move[r].from, move[r].to)
        /\ \A e \in DOMAIN move'[r].held :
             move'[r].held[e] = (IF move[r].to < move[r].from THEN place[e] + 1
                                                              ELSE place[e] - 1)
    BY <1>2, <1>b, Shifted
  <2>3. UnderWay = {r}
    BY <1>b, <2>2 DEF OrderTyped
  <2>4. Between(move[r].from, move[r].to)' = Between(move[r].from, move[r].to)
    BY <2>1, <2>2 DEF Between
  <2>5. \A f \in Present : place[f] = move[r].from <=> f = move[r].row
    BY <1>b, <2>2 DEF MoveIsExact
  <2>6. MoveIsExact'
    <3> SUFFICES /\ \A f \in Present : place[f] = move'[r].from <=> f = move'[r].row
                 /\ DOMAIN move'[r].held = Between(move[r].from, move[r].to)
                 /\ \A e \in DOMAIN move'[r].held : move'[r].held[e] =
                      IF move'[r].to < move'[r].from THEN place[e] + 1 ELSE place[e] - 1
      BY <2>1, <2>2, <2>3 DEF MoveIsExact, Between
    <3> QED
      BY <2>2, <2>5
  <2>7. ~Races(asked', move')
    BY <1>a, <1>b, <2>2 DEF Races, UnderWay
  <2> QED
    BY <1>a, <1>b, <2>1, <2>6, <2>7 DEF Calm, AskedIsLast
<1>3. CASE PlaceRow(r)
  <2>1. r \in UnderWay /\ UnderWay' = {}
    BY <1>3, <1>b, PlacedExactly
  <2>2. DOMAIN asked = {}
    BY <1>b, <2>1, AskedAlone
  <2>3. ~Races(asked', move')
    BY <1>a, <2>1, <2>2, NothingRaces DEF UnderWay
  <2>4. IsInjective(place')
    BY <1>3, <1>b, PlacedApart
  <2> QED
    BY <1>a, <2>1, <2>2, <2>3, <2>4 DEF Calm, AskedIsLast, MoveIsExact
<1>4. CASE MoveFails(r)
  <2>1. r \in UnderWay /\ move' = [move EXCEPT ![r] = NoMove] /\ place' = place
    BY <1>4 DEF MoveFails, UnderWay
  <2>2. UnderWay' = {}
    BY <1>b, <2>1, MoveOver
  <2>3. DOMAIN asked = {}
    BY <1>b, <2>1, AskedAlone
  <2>4. ~Races(asked', move')
    BY <1>a, <2>2, <2>3, NothingRaces DEF UnderWay
  <2> QED
    BY <1>a, <1>b, <2>1, <2>2, <2>3, <2>4 DEF Calm, AskedIsLast, MoveIsExact
<1> QED
  BY <1>1, <1>2, <1>3, <1>4

\* The inductive invariant of the play order.
THEOREM OrderInvariant == OrderSpec => []OrderInv
<1>1. OrderInit => OrderInv
  <2> SUFFICES ASSUME OrderInit PROVE OrderInv
    OBVIOUS
  <2>1. DOMAIN place = {} /\ DOMAIN asked = {} /\ UnderWay = {} /\ DOMAIN move = Reorders
        /\ raced = FALSE
    BY DEF OrderInit, UnderWay
  <2>2. ~Races(asked, move)
    BY <2>1, NothingRaces DEF OrderInit
  <2> QED
    BY <2>1, <2>2 DEF OrderInv, OrderTypeOK, OrderTyped, Calm, Present, IsInjective,
                      AskedIsLast, MoveIsExact
<1>2. OrderInv /\ [OrderNext]_orderVars => OrderInv'
  <2> SUFFICES ASSUME OrderInv, [OrderNext]_orderVars PROVE OrderInv'
    OBVIOUS
  <2>1. CASE UNCHANGED orderVars
    <3>1. place' = place /\ asked' = asked /\ move' = move /\ raced' = raced
      BY <2>1 DEF orderVars
    <3>2. UnderWay' = UnderWay /\ Present' = Present
      BY <3>1 DEF UnderWay, Present
    <3>3. OrderTypeOK' /\ OrderTyped'
      BY <3>1, <3>2, MovesUntouched DEF OrderInv, OrderTypeOK
    <3>4. ASSUME Calm PROVE Calm'
      BY <3>1, <3>2, <3>4 DEF Calm, AskedIsLast, MoveIsExact, Between
    <3> QED
      BY <3>1, <3>3, <3>4 DEF OrderInv
  <2>2. CASE OrderNext
    BY <2>2, RowsTyped, MovesTyped, RowsCalm, MovesCalm DEF OrderNext, OrderInv
  <2> QED
    BY <2>1, <2>2
<1> QED
  BY <1>1, <1>2, PTL DEF OrderSpec

\* A step that no race has preceded or begins keeps the order of any two rows
\* but of the one that a move places.
LEMMA StepKeepsOrder ==
    ASSUME OrderInv, [OrderNext]_orderVars, ~raced',
           NEW e \in Present \cap Present', NEW f \in Present \cap Present'
    PROVE  \/ place[e] < place[f] <=> place'[e] < place'[f]
           \/ \E r \in UnderWay : move[r].row \in {e, f} /\ move'[r] = NoMove
<1>1. CASE UNCHANGED orderVars
  BY <1>1 DEF orderVars
<1>2. ASSUME NEW x \in RowIds,
             \/ AskPlace(x) \/ InsertRow(x) \/ InsertFails(x) \/ RemoveRow(x)
             \/ \E n \in 0 .. MaxPlace : WebhookInserts(x, n)
      PROVE  place[e] < place[f] <=> place'[e] < place'[f]
  <2>1. DOMAIN asked \cap Present = {}
    BY DEF OrderInv, OrderTypeOK
  <2>2. place'[e] = place[e] /\ place'[f] = place[f]
    BY <1>2, <2>1 DEF AskPlace, InsertRow, InsertFails, RemoveRow, WebhookInserts,
                      Restrict, Present, IsFree
  <2> QED
    BY <2>2
<1>3. ASSUME NEW r \in Reorders,
             \/ \E x \in RowIds, to \in 1 .. MaxPlace : SelectRow(r, x, to)
             \/ ShiftRows(r) \/ MoveFails(r)
      PROVE  place[e] < place[f] <=> place'[e] < place'[f]
  BY <1>3 DEF SelectRow, ShiftRows, MoveFails
<1>4. ASSUME NEW r \in Reorders, PlaceRow(r)
      PROVE  \/ place[e] < place[f] <=> place'[e] < place'[f]
             \/ \E q \in UnderWay : move[q].row \in {e, f} /\ move'[q] = NoMove
  <2>1. ~raced
    BY <1>4 DEF PlaceRow
  <2>2. OrderTypeOK /\ OrderTyped /\ MoveIsExact /\ IsInjective(place)
    BY <2>1 DEF OrderInv, Calm
  <2>3. r \in UnderWay /\ move'[r] = NoMove
    BY <1>4, <2>2 DEF PlaceRow, UnderWay, OrderTyped
  <2> QED
    BY <1>4, <2>2, <2>3, PlacedApart
<1> QED
  BY <1>1, <1>2, <1>3, <1>4 DEF OrderNext

\* OrderIsKept holds of every behaviour: no two rows share a number while
\* nothing races, and a move reorders nothing but the row it moves.
THEOREM PlayOrderIsKept == OrderSpec => OrderIsKept
<1>1. OrderInv => (~raced => IsInjective(place))
  BY DEF OrderInv, Calm
<1>2. OrderInv /\ [OrderNext]_orderVars =>
        [~raced' => \A e, f \in Present \cap Present' :
          \/ place[e] < place[f] <=> place'[e] < place'[f]
          \/ \E r \in UnderWay : move[r].row \in {e, f} /\ move'[r] = NoMove]_orderVars
  BY StepKeepsOrder
<1> QED
  BY <1>1, <1>2, OrderInvariant, PTL DEF OrderSpec, OrderIsKept

\* PartsTypeOK holds in every state the two reach side by side, as the run
\* explores them.
THEOREM ShowPartsTyped == MCSpec => []PartsTypeOK
<1>1. MCInit => Init /\ OrderInit
  BY DEF MCInit
<1>2. [MCNext]_<<vars, orderVars, part, begun>> => [Next]_vars /\ [OrderNext]_orderVars
  BY DEF MCNext, ShowGoesOn, OrderGoesOn, vars, orderVars
<1>3. OrderInv => OrderTypeOK
  BY DEF OrderInv
<1> QED
  BY <1>1, <1>2, <1>3, ShowTypeCorrect, OrderInvariant, PTL
  DEF MCSpec, Spec, OrderSpec, PartsTypeOK

=============================================================================
