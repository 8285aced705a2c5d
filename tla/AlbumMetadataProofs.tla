-------------------------- MODULE AlbumMetadataProofs --------------------------
(***************************************************************************)
(* What the album row promises, for any number of askers, any services and  *)
(* links and any cap.                                                       *)
(***************************************************************************)
EXTENDS AlbumMetadata, FiniteSetTheorems, SequenceTheorems, TLAPS

(***************************************************************************)
(* The merge.                                                               *)
(***************************************************************************)
\* A pair of a verdict and a URL that a row can hold for s.
Storable(s, f) ==
    /\ f.status \in Verdicts
    /\ f.url \in Urls
    /\ f.url = "search" => s \in Fallbacks

\* What is shown for s is a search URL, a verified URL, or nothing.
Shown(s, f) ==
    /\ s \in Fallbacks /\ f.status # "verified" => f.url = "search"
    /\ s \notin Fallbacks /\ f.url # "none" => f.status = "verified"

\* An answer about s: one of four verdicts, a link only when it is "verified".
LEMMA AnswerFacts ==
    ASSUME NEW s \in Services, NEW said \in Said(s)
    PROVE  /\ Incoming(s, said) \in Verdicts
           /\ said.link \in Links \cup {"none"}
           /\ Incoming(s, said) # "verified" => said.link = "none"
<1> DEFINE silent == [verdict : {"null", "verified"}, link : Links]
           bare   == [verdict : {"null", "absent", "unresolved"}, link : {"none"}]
           taken  == [verdict : {"verified"}, link : {"none"}]
<1>1. said \in silent \/ said \in bare \/ said \in taken
  BY DEF Said
<1>2. CASE said \in silent
  BY <1>2, AlbumAssumption DEF Incoming, Verdicts
<1>3. CASE said \in bare
  BY <1>3 DEF Incoming, Verdicts
<1>4. CASE said \in taken
  BY <1>4 DEF Incoming, Verdicts
<1> QED
  BY <1>1, <1>2, <1>3, <1>4

\* What the CASE expressions make of a live pair can be stored, keeps what was
\* verified, and forgets "absent" only for a find.
LEMMA ConflictIsSafe ==
    ASSUME NEW s \in Services, NEW v, NEW u, Storable(s, Field(v, u)),
           NEW said \in Said(s)
    PROVE  LET f == Conflict(s, Field(v, u), Incoming(s, said), said.link)
           IN  /\ Storable(s, f)
               /\ v = "verified" => f.status = "verified" /\ f.url = u
               /\ v = "absent" => f.status \in {"absent", "verified"}
               /\ Shown(s, Field(v, u)) => Shown(s, f)
<1> DEFINE in == Incoming(s, said)
<1>1. /\ in \in Verdicts
      /\ said.link \in Links \cup {"none"}
      /\ in # "verified" => said.link = "none"
  BY AnswerFacts
<1>2. v \in Verdicts /\ u \in Urls /\ (u = "search" => s \in Fallbacks)
  BY DEF Storable, Field
<1> HIDE DEF in
<1>3. CASE in = "null"
  BY <1>1, <1>2, <1>3, AlbumAssumption
  DEF in, Conflict, Displayed, Field, Storable, Shown, Verdicts, Urls
<1>4. CASE in = "verified"
  BY <1>1, <1>2, <1>4, AlbumAssumption
  DEF in, Conflict, Displayed, Field, Storable, Shown, Verdicts, Urls
<1>5. CASE in = "absent"
  BY <1>1, <1>2, <1>5, AlbumAssumption
  DEF in, Conflict, Displayed, Field, Fallback, Storable, Shown, Verdicts, Urls
<1>6. CASE in = "unresolved"
  BY <1>1, <1>2, <1>6, AlbumAssumption
  DEF in, Conflict, Displayed, Field, Storable, Shown, Verdicts, Urls
<1> QED
  BY <1>1, <1>3, <1>4, <1>5, <1>6 DEF in, Verdicts

\* What the first upsert inserts can be stored, and can be shown.
LEMMA InsertIsSafe ==
    ASSUME NEW s \in Services, NEW said \in Said(s)
    PROVE  LET f == Displayed(s, Merged(Field("null", "none"), Incoming(s, said), said.link))
           IN  Storable(s, f) /\ Shown(s, f)
<1>1. /\ Incoming(s, said) \in Verdicts
      /\ said.link \in Links \cup {"none"}
  BY AnswerFacts
<1> QED
  BY <1>1, AlbumAssumption
  DEF Merged, Displayed, Field, Storable, Shown, Verdicts, Urls

\* The CASE expressions compute the documented rules, for every pair that shows
\* what it should (a service without a fallback that is "absent" and has a URL
\* would lose it in SQL and keep it in JS).
LEMMA ConflictIsMerge ==
    ASSUME NEW s \in Services, NEW v, NEW u, Shown(s, Field(v, u)), NEW said \in Said(s)
    PROVE  Conflict(s, Field(v, u), Incoming(s, said), said.link) =
               Displayed(s, Merged(Field(v, u), Incoming(s, said), said.link))
<1>1. Incoming(s, said) \in Verdicts
  BY AnswerFacts
<1>2. CASE Incoming(s, said) = "null"
  BY <1>2 DEF Conflict, Merged, Displayed, Field
<1>3. CASE Incoming(s, said) = "verified"
  BY <1>3 DEF Conflict, Merged, Displayed, Field
<1>4. CASE Incoming(s, said) = "absent"
  <2>1. CASE v = "verified"
    BY <1>4, <2>1 DEF Conflict, Merged, Displayed, Field
  <2>2. CASE v # "verified" /\ s \in Fallbacks
    BY <1>4, <2>2 DEF Conflict, Merged, Displayed, Field, Fallback
  <2>3. CASE v # "verified" /\ s \notin Fallbacks
    BY <1>4, <2>3 DEF Conflict, Merged, Displayed, Field, Fallback, Shown
  <2> QED
    BY <2>1, <2>2, <2>3
<1>5. CASE Incoming(s, said) = "unresolved"
  BY <1>5 DEF Conflict, Merged, Displayed, Field
<1> QED
  BY <1>1, <1>2, <1>3, <1>4, <1>5 DEF Verdicts

--------------------------------------------------------------------------------
(***************************************************************************)
(* The row.                                                                 *)
(***************************************************************************)
\* What a matched album and an album without a row look like.
RowInv ==
    /\ matched => exists
    /\ ~exists => \A s \in Services : status[s] = "null" /\ url[s] = "none"

BaseInv == TypeOK /\ RowInv

\* What every service of the row shows.
ShowInv == exists => \A s \in Services : Shown(s, Live(s))

\* A queue from which one has been taken is a queue of the same askers.
LEMMA RemoveAtTyped ==
    ASSUME NEW S, NEW q \in Seq(S), NEW i \in 1 .. Len(q)
    PROVE  RemoveAt(q, i) \in Seq(S)
<1>1. SubSeq(q, 1, i - 1) \in Seq(S) /\ SubSeq(q, i + 1, Len(q)) \in Seq(S)
  OBVIOUS
<1> QED
  BY <1>1, ConcatProperties DEF RemoveAt

\* Whoever lands or is dropped leaves the queue of writes typed.
LEMMA LandingIsTyped ==
    ASSUME TypeOK, NEW a \in Askers, Lands(a) \/ Dropped(a)
    PROVE  /\ pc' \in [Askers -> {"idle", "asked", "writing"}]
           /\ begun' \in Seq(Askers)
           /\ late' \subseteq Askers
<1>1. pc' = [pc EXCEPT ![a] = "idle"]
  BY DEF Lands, Dropped
<1>2. PICK i \in 1 .. Len(begun) : begun' = RemoveAt(begun, i) /\ late' \subseteq Askers
  <2>1. CASE Lands(a)
    <3>1. PICK i \in 1 .. Len(begun) :
             begun' = RemoveAt(begun, i) /\ late' = {begun[j] : j \in 1 .. i - 1}
      BY <2>1 DEF Lands
    <3>2. \A j \in 1 .. i - 1 : begun[j] \in Askers
      <4>1. \A j \in 1 .. i - 1 : j \in 1 .. Len(begun)
        BY DEF TypeOK
      <4> QED
        BY <4>1 DEF TypeOK
    <3> QED
      BY <3>1, <3>2
  <2>2. CASE Dropped(a)
    BY <2>2 DEF Dropped, TypeOK
  <2> QED
    BY <2>1, <2>2
<1>3. begun' \in Seq(Askers)
  BY <1>2, RemoveAtTyped DEF TypeOK
<1> QED
  BY <1>1, <1>2, <1>3 DEF TypeOK

\* What the worker's upsert of a match does to one service, seen from the pair
\* it held.
MergesInto(s) ==
    \E said \in Said(s) :
        LET in == Incoming(s, said)
            f  == IF exists
                  THEN Conflict(s, Live(s), in, said.link)
                  ELSE Displayed(s, Merged(Field("null", "none"), in, said.link))
        IN  status'[s] = f.status /\ url'[s] = f.url

LEMMA UpsertMerges ==
    ASSUME NEW a, UpsertMatch(a), NEW s \in Services
    PROVE  MergesInto(s)
<1>1. PICK said \in [Services -> UNION {Said(t) : t \in Services}] :
          /\ \A t \in Services : said[t] \in Said(t)
          /\ SetFields([t \in Services |->
                LET in == Incoming(t, said[t])
                IN  IF exists
                    THEN Conflict(t, Live(t), in, said[t].link)
                    ELSE Displayed(t, Merged(Field("null", "none"), in, said[t].link))])
  BY Zenon DEF UpsertMatch
<1> QED
  BY <1>1, Zenon DEF SetFields, MergesInto

\* What a write of the worker leaves of one service.
KeepsService(s) ==
    /\ Storable(s, Live(s)')
    /\ status[s] = "verified" => status'[s] = "verified" /\ url'[s] = url[s]
    /\ status[s] = "absent" => status'[s] \in {"absent", "verified"}
    /\ ShowInv => Shown(s, Live(s)')

LEMMA UpsertKeeps ==
    ASSUME BaseInv, NEW a, UpsertMatch(a), NEW s \in Services
    PROVE  KeepsService(s)
<1>1. PICK said \in Said(s) :
          LET in == Incoming(s, said)
              f  == IF exists
                    THEN Conflict(s, Live(s), in, said.link)
                    ELSE Displayed(s, Merged(Field("null", "none"), in, said.link))
          IN  status'[s] = f.status /\ url'[s] = f.url
  BY UpsertMerges, Zenon DEF MergesInto
<1>2. CASE exists
  <2> DEFINE f == Conflict(s, Live(s), Incoming(s, said), said.link)
  <2>1. Storable(s, Field(status[s], url[s]))
    BY DEF BaseInv, TypeOK, Storable, Field
  <2>2. /\ Storable(s, f)
        /\ status[s] = "verified" => f.status = "verified" /\ f.url = url[s]
        /\ status[s] = "absent" => f.status \in {"absent", "verified"}
        /\ Shown(s, Field(status[s], url[s])) => Shown(s, f)
    BY <2>1, ConflictIsSafe DEF Live
  <2>3. status'[s] = f.status /\ url'[s] = f.url
    BY <1>1, <1>2
  <2> HIDE DEF f
  <2> QED
    BY <1>2, <2>2, <2>3 DEF KeepsService, ShowInv, Live, Field, Storable, Shown
<1>3. CASE ~exists
  <2> DEFINE f == Displayed(s, Merged(Field("null", "none"), Incoming(s, said), said.link))
  <2>1. Storable(s, f) /\ Shown(s, f)
    BY InsertIsSafe
  <2>2. status'[s] = f.status /\ url'[s] = f.url
    BY <1>1, <1>3
  <2>3. status[s] = "null"
    BY <1>3 DEF BaseInv, RowInv
  <2> HIDE DEF f
  <2> QED
    BY <2>1, <2>2, <2>3 DEF KeepsService, Live, Field, Storable, Shown
<1> QED
  BY <1>2, <1>3

LEMMA HandlerNoMatchKeeps ==
    ASSUME BaseInv, NEW a, HandlerNoMatch(a), NEW s \in Services
    PROVE  KeepsService(s)
<1>1. status'[s] = (IF s \in Fallbacks THEN Displayed(s, Live(s)) ELSE Live(s)).status
      /\ url'[s] = (IF s \in Fallbacks THEN Displayed(s, Live(s)) ELSE Live(s)).url
  BY Zenon DEF HandlerNoMatch, SetFields
<1>2. status[s] \in Verdicts /\ url[s] \in Urls /\ (url[s] = "search" => s \in Fallbacks)
  BY DEF BaseInv, TypeOK
<1>3. ShowInv => s \in Fallbacks \/ url[s] = "none" \/ status[s] = "verified"
  BY DEF ShowInv, Shown, Live, Field, BaseInv, RowInv
<1>4. CASE s \in Fallbacks /\ status[s] # "verified"
  BY <1>1, <1>2, <1>4
  DEF Displayed, KeepsService, Live, Field, Storable, Shown, Verdicts, Urls
<1>5. CASE ~(s \in Fallbacks /\ status[s] # "verified")
  <2>1. status'[s] = status[s] /\ url'[s] = url[s]
    BY <1>1, <1>5 DEF Displayed, Live, Field
  <2> QED
    BY <1>2, <1>3, <1>5, <2>1 DEF KeepsService, Live, Field, Storable, Shown
<1> QED
  BY <1>4, <1>5

--------------------------------------------------------------------------------
(***************************************************************************)
(* The invariants.                                                          *)
(***************************************************************************)
\* A row whose services are all storable is typed.
LEMMA StorableIsTyped ==
    ASSUME DOMAIN status' = Services, status' = [s \in Services |-> status'[s]],
           url' = [s \in Services |-> url'[s]],
           \A s \in Services : Storable(s, Live(s)')
    PROVE  /\ status' \in [Services -> Verdicts]
           /\ url' \in [Services -> Urls]
           /\ \A s \in Services : url'[s] = "search" => s \in Fallbacks
BY DEF Storable, Live, Field

LEMMA InitBaseInv == Init => BaseInv /\ ShowInv
<1>1. <<>> \in Seq(Askers)
  OBVIOUS
<1>2. Init => TypeOK
  <2> SUFFICES ASSUME Init PROVE TypeOK
    OBVIOUS
  <2>1. exists \in BOOLEAN /\ matched \in BOOLEAN /\ attempts \in Nat /\ late \subseteq Askers
    BY DEF Init
  <2>2. status \in [Services -> Verdicts] /\ url \in [Services -> Urls]
    BY DEF Init, Verdicts, Urls
  <2>3. \A s \in Services : url[s] # "search"
    BY DEF Init
  <2>4. pc \in [Askers -> {"idle", "asked", "writing"}]
    BY DEF Init
  <2>5. begun \in Seq(Askers)
    BY <1>1 DEF Init
  <2> QED
    BY <2>1, <2>2, <2>3, <2>4, <2>5 DEF TypeOK
<1> QED
  BY <1>2 DEF Init, BaseInv, RowInv, ShowInv

\* Asking, failing and beginning a write leave the row alone.
LEMMA AskingKeepsBaseInv ==
    ASSUME BaseInv, NEW a \in Askers, Asks(a) \/ LookupFails(a) \/ BeginWrite(a)
    PROVE  BaseInv'
<1>1. UNCHANGED row /\ late' \subseteq Askers
  BY DEF Asks, LookupFails, BeginWrite, BaseInv, TypeOK
<1>2. pc' \in [Askers -> {"idle", "asked", "writing"}]
  BY DEF Asks, LookupFails, BeginWrite, BaseInv, TypeOK
<1>3. begun' \in Seq(Askers)
  <2>1. CASE UNCHANGED begun
    BY <2>1 DEF BaseInv, TypeOK
  <2>2. CASE BeginWrite(a)
    BY <2>2, AppendProperties DEF BeginWrite, BaseInv, TypeOK
  <2> QED
    BY <2>1, <2>2 DEF Asks, LookupFails
<1> QED
  BY <1>1, <1>2, <1>3 DEF BaseInv, TypeOK, RowInv, row

\* The worker's merging writes.
LEMMA MergingKeepsBaseInv ==
    ASSUME BaseInv, NEW a \in Askers, UpsertMatch(a) \/ HandlerNoMatch(a)
    PROVE  BaseInv'
<1>1. \A s \in Services : Storable(s, Live(s)')
  BY UpsertKeeps, HandlerNoMatchKeeps DEF KeepsService
<1>2. /\ DOMAIN status' = Services
      /\ status' = [s \in Services |-> status'[s]]
      /\ url' = [s \in Services |-> url'[s]]
  <2>1. CASE HandlerNoMatch(a)
    BY <2>1 DEF HandlerNoMatch, SetFields
  <2>2. CASE UpsertMatch(a)
    <3>1. PICK said : SetFields([t \in Services |->
                LET in == Incoming(t, said[t])
                IN  IF exists
                    THEN Conflict(t, Live(t), in, said[t].link)
                    ELSE Displayed(t, Merged(Field("null", "none"), in, said[t].link))])
      BY <2>2, Zenon DEF UpsertMatch
    <3> QED
      BY <3>1, Zenon DEF SetFields
  <2> QED
    BY <2>1, <2>2
<1>3. /\ status' \in [Services -> Verdicts]
      /\ url' \in [Services -> Urls]
      /\ \A s \in Services : url'[s] = "search" => s \in Fallbacks
  BY <1>1, <1>2, StorableIsTyped
<1>4. exists' = TRUE /\ matched' \in BOOLEAN /\ attempts' \in Nat
  <2>1. CASE HandlerNoMatch(a)
    BY <2>1 DEF HandlerNoMatch, BaseInv, TypeOK
  <2>2. CASE UpsertMatch(a)
    <3>1. attempts' = IF matched THEN attempts + 1 ELSE attempts
      BY <2>2, Zenon DEF UpsertMatch
    <3>2. exists' = TRUE /\ matched' = TRUE
      BY <2>2, Zenon DEF UpsertMatch
    <3> QED
      BY <3>1, <3>2 DEF BaseInv, TypeOK
  <2> QED
    BY <2>1, <2>2
<1>5. Lands(a)
  BY Zenon DEF UpsertMatch, HandlerNoMatch
<1> QED
  BY <1>3, <1>4, <1>5, LandingIsTyped DEF BaseInv, TypeOK, RowInv

\* The sweep's bump, and a write that is dropped.
LEMMA BumpKeepsBaseInv ==
    ASSUME BaseInv, NEW a \in Askers, SweepNoMatch(a) \/ Dropped(a)
    PROVE  BaseInv'
<1>1. UNCHANGED <<exists, matched, status, url>> /\ attempts' \in Nat
  BY DEF SweepNoMatch, Dropped, row, BaseInv, TypeOK
<1>2. Lands(a) \/ Dropped(a)
  BY DEF SweepNoMatch
<1> QED
  BY <1>1, <1>2, LandingIsTyped DEF BaseInv, TypeOK, RowInv

\* The job's writes touch the URLs only.
LEMMA JobKeepsBaseInv ==
    ASSUME BaseInv, NEW a \in Askers, JobMatch(a) \/ JobNoMatch(a)
    PROVE  BaseInv'
<1>1. url' \in [Services -> Urls] /\ \A s \in Services : url'[s] = "search" => s \in Fallbacks
  <2>1. CASE JobMatch(a)
    <3>1. CASE UNCHANGED url
      BY <3>1 DEF BaseInv, TypeOK
    <3>2. ASSUME NEW link \in [Services -> Links \cup {"none"}],
                 url' = [s \in Services |-> IF link[s] # "none" THEN link[s] ELSE Fallback(s)]
          PROVE  /\ url' \in [Services -> Urls]
                 /\ \A s \in Services : url'[s] = "search" => s \in Fallbacks
      BY <3>2, AlbumAssumption DEF Fallback, Urls
    <3> QED
      BY <2>1, <3>1, <3>2, Zenon DEF JobMatch
  <2>2. CASE JobNoMatch(a)
    BY <2>2 DEF JobNoMatch, Fallback, BaseInv, TypeOK, Urls
  <2> QED
    BY <2>1, <2>2
<1>2. exists' = TRUE /\ matched' \in BOOLEAN /\ UNCHANGED <<status, attempts>> /\ Lands(a)
  BY DEF JobMatch, JobNoMatch, BaseInv, TypeOK
<1> QED
  BY <1>1, <1>2, LandingIsTyped DEF BaseInv, TypeOK, RowInv

LEMMA NextKeepsBaseInv == BaseInv /\ [Next]_vars => BaseInv'
<1> SUFFICES ASSUME BaseInv, [Next]_vars PROVE BaseInv'
  OBVIOUS
<1> USE DEF Askers
<1>1. ASSUME NEW a \in Handlers, HandlerAsks(a) \/ HandlerWrites(a) PROVE BaseInv'
  BY <1>1, AskingKeepsBaseInv, MergingKeepsBaseInv, BumpKeepsBaseInv
  DEF HandlerAsks, HandlerWrites
<1>2. ASSUME NEW a \in Sweeps, SweepAsks(a) \/ SweepWrites(a) PROVE BaseInv'
  BY <1>2, AskingKeepsBaseInv, MergingKeepsBaseInv, BumpKeepsBaseInv
  DEF SweepAsks, SweepWrites
<1>3. ASSUME NEW a \in Askers, LookupFails(a) \/ BeginWrite(a) PROVE BaseInv'
  BY <1>3, AskingKeepsBaseInv
<1>4. ASSUME NEW a \in JobRows, JobAsks(a) \/ JobWrites(a) PROVE BaseInv'
  BY <1>4, AskingKeepsBaseInv, JobKeepsBaseInv, BumpKeepsBaseInv
  DEF JobAsks, JobWrites
<1>5. CASE UNCHANGED vars
  BY <1>5 DEF vars, row, BaseInv, TypeOK, RowInv
<1> QED
  BY <1>1, <1>2, <1>3, <1>4, <1>5 DEF Next, WorkerNext, JobNext

\* The row, the askers and the writes under way keep their types, whoever
\* writes; no service without a fallback ever holds a search URL.
THEOREM AlbumTypeCorrect == Spec => []TypeOK
<1>1. BaseInv => TypeOK
  BY DEF BaseInv
<1>2. Init => BaseInv
  BY InitBaseInv
<1> QED
  BY <1>1, <1>2, NextKeepsBaseInv, PTL DEF Spec

LEMMA BaseInvHolds == Spec => []BaseInv
<1>1. Init => BaseInv
  BY InitBaseInv
<1> QED
  BY <1>1, NextKeepsBaseInv, PTL DEF Spec

\* Every step either leaves the pairs alone, or merges, or is the job's.
LEMMA StepKinds ==
    ASSUME [Next]_vars
    PROVE  \/ UNCHANGED <<exists, status, url>>
           \/ \E a \in Askers : UpsertMatch(a) \/ HandlerNoMatch(a)
           \/ \E a \in JobRows : JobMatch(a) \/ JobNoMatch(a)
<1> USE DEF Askers
<1>1. ASSUME NEW a, Asks(a) \/ LookupFails(a) \/ BeginWrite(a) \/ SweepNoMatch(a) \/ Dropped(a)
      PROVE  UNCHANGED <<exists, status, url>>
  BY <1>1 DEF Asks, LookupFails, BeginWrite, SweepNoMatch, Dropped, row
<1>2. CASE UNCHANGED vars
  BY <1>2 DEF vars, row
<1>3. CASE WorkerNext
  BY <1>3, <1>1 DEF WorkerNext, HandlerAsks, SweepAsks, HandlerWrites, SweepWrites
<1>4. CASE JobNext
  BY <1>4, <1>1 DEF JobNext, JobAsks, JobWrites
<1> QED
  BY <1>2, <1>3, <1>4 DEF Next

LEMMA WorkerStepKinds ==
    ASSUME [WorkerNext]_vars
    PROVE  \/ UNCHANGED <<exists, status, url>>
           \/ \E a \in Askers : UpsertMatch(a) \/ HandlerNoMatch(a)
<1> USE DEF Askers
<1>1. ASSUME NEW a, Asks(a) \/ LookupFails(a) \/ BeginWrite(a) \/ SweepNoMatch(a) \/ Dropped(a)
      PROVE  UNCHANGED <<exists, status, url>>
  BY <1>1 DEF Asks, LookupFails, BeginWrite, SweepNoMatch, Dropped, row
<1>2. CASE UNCHANGED vars
  BY <1>2 DEF vars, row
<1>3. CASE WorkerNext
  BY <1>3, <1>1 DEF WorkerNext, HandlerAsks, SweepAsks, HandlerWrites, SweepWrites
<1> QED
  BY <1>2, <1>3

\* As long as only the worker writes, the row shows what it should.
LEMMA WorkerNextKeepsShowInv == BaseInv /\ ShowInv /\ [WorkerNext]_vars => ShowInv'
<1> SUFFICES ASSUME BaseInv, ShowInv, [WorkerNext]_vars PROVE ShowInv'
  OBVIOUS
<1>1. CASE UNCHANGED <<exists, status, url>>
  BY <1>1 DEF ShowInv, Shown, Live, Field
<1>2. ASSUME NEW a, UpsertMatch(a) \/ HandlerNoMatch(a) PROVE ShowInv'
  <2>1. \A s \in Services : Shown(s, Live(s)')
    BY <1>2, UpsertKeeps, HandlerNoMatchKeeps DEF KeepsService
  <2> QED
    BY <2>1 DEF ShowInv, Shown
<1> QED
  BY <1>1, <1>2, WorkerStepKinds

LEMMA WorkerInvHolds == WorkerSpec => [](BaseInv /\ ShowInv)
<1>1. [WorkerNext]_vars => [Next]_vars
  BY DEF Next
<1> QED
  BY <1>1, InitBaseInv, NextKeepsBaseInv, WorkerNextKeepsShowInv, PTL DEF WorkerSpec

\* A service that has a fallback and is not verified shows its search URL.
THEOREM AlwaysSearchable == WorkerSpec => []SearchIsOffered
<1>1. BaseInv /\ ShowInv => SearchIsOffered
  BY AlbumAssumption DEF ShowInv, Shown, Live, Field, SearchIsOffered
<1> QED
  BY <1>1, WorkerInvHolds, PTL

\* A service without a fallback shows verified URLs and nothing else.
THEOREM BareIsNothing == WorkerSpec => []BareMeansUnverified
<1>1. BaseInv /\ ShowInv => BareMeansUnverified
  BY DEF ShowInv, Shown, Live, Field, BareMeansUnverified, BaseInv, RowInv
<1> QED
  BY <1>1, WorkerInvHolds, PTL

\* The CASE expressions and the plain rules agree on every row the worker can
\* leave, and every answer.
THEOREM MergesAgree == WorkerSpec => []MergeAgrees
<1>1. BaseInv /\ ShowInv => MergeAgrees
  <2> SUFFICES ASSUME BaseInv, ShowInv, exists, NEW s \in Services, NEW said \in Said(s)
               PROVE  Conflict(s, Live(s), Incoming(s, said), said.link) =
                          Displayed(s, Merged(Live(s), Incoming(s, said), said.link))
    BY DEF MergeAgrees
  <2>1. Shown(s, Field(status[s], url[s]))
    BY DEF ShowInv, Live
  <2> QED
    BY <2>1, ConflictIsMerge DEF Live
<1> QED
  BY <1>1, WorkerInvHolds, PTL

\* Among the worker's handlers and sweeps a verified URL is never overwritten,
\* however stale what the writer read before its lookup.
THEOREM VerifiedStays == WorkerSpec => VerifiedIsKept
<1>1. BaseInv /\ [WorkerNext]_vars =>
          [\A s \in Services :
              status[s] = "verified" => status'[s] = "verified" /\ url'[s] = url[s]]_vars
  <2> SUFFICES ASSUME BaseInv, [WorkerNext]_vars, NEW s \in Services, status[s] = "verified"
               PROVE  status'[s] = "verified" /\ url'[s] = url[s]
    OBVIOUS
  <2>1. CASE UNCHANGED <<exists, status, url>>
    BY <2>1
  <2>2. ASSUME NEW a, UpsertMatch(a) \/ HandlerNoMatch(a)
        PROVE  status'[s] = "verified" /\ url'[s] = url[s]
    BY <2>2, UpsertKeeps, HandlerNoMatchKeeps DEF KeepsService
  <2> QED
    BY <2>1, <2>2, WorkerStepKinds
<1> QED
  BY <1>1, WorkerInvHolds, PTL DEF WorkerSpec, VerifiedIsKept

\* A negative verdict gives way to a find only, with the job writing too.
THEOREM AbsentStays == Spec => AbsentIsTerminal
<1>1. BaseInv /\ [Next]_vars =>
          [\A s \in Services :
              status[s] = "absent" => status'[s] \in {"absent", "verified"}]_vars
  <2> SUFFICES ASSUME BaseInv, [Next]_vars, NEW s \in Services, status[s] = "absent"
               PROVE  status'[s] \in {"absent", "verified"}
    OBVIOUS
  <2>1. CASE UNCHANGED <<exists, status, url>>
    BY <2>1
  <2>2. ASSUME NEW a, UpsertMatch(a) \/ HandlerNoMatch(a)
        PROVE  status'[s] \in {"absent", "verified"}
    BY <2>2, UpsertKeeps, HandlerNoMatchKeeps DEF KeepsService
  <2>3. ASSUME NEW a, JobMatch(a) \/ JobNoMatch(a)
        PROVE  status'[s] \in {"absent", "verified"}
    BY <2>3 DEF JobMatch, JobNoMatch
  <2> QED
    BY <2>1, <2>2, <2>3, StepKinds
<1> QED
  BY <1>1, BaseInvHolds, PTL DEF Spec, AbsentIsTerminal

--------------------------------------------------------------------------------
(***************************************************************************)
(* The cap on attempts.  An asker under way is an attempt that may yet be   *)
(* spent; it was let in under the cap.                                      *)
(***************************************************************************)
Away == {a \in Handlers \cup Sweeps : pc[a] # "idle"}

BudgetInv ==
    /\ attempts + Cardinality(Away) <= Cap - 1 + Cardinality(Handlers \cup Sweeps)
    /\ ~matched => attempts = 0
    /\ \A a \in Sweeps : pc[a] # "idle" => matched

\* Askers can be counted.
LEMMA AwayCounts ==
    /\ IsFiniteSet(Away)
    /\ Cardinality(Away) \in Nat
    /\ Cardinality(Handlers \cup Sweeps) \in Nat
    /\ Cardinality(Away) <= Cardinality(Handlers \cup Sweeps)
    /\ IsFiniteSet(Handlers \cup Sweeps)
<1>1. Handlers \cup Sweeps \subseteq Askers /\ Away \subseteq Handlers \cup Sweeps
  BY DEF Askers, Away
<1>2. IsFiniteSet(Handlers \cup Sweeps)
  BY <1>1, AlbumAssumption, FS_Subset
<1> QED
  BY <1>1, <1>2, FS_Subset, FS_CardinalityType

\* Whoever is let in has found the attempts under the cap, or no match at all.
LEMMA AskingKeepsBudget ==
    ASSUME BaseInv, BudgetInv, NEW a \in Handlers \cup Sweeps,
           HandlerAsks(a) \/ SweepAsks(a), a \in Sweeps => SweepAsks(a)
    PROVE  BudgetInv'
<1>1. UNCHANGED row /\ pc[a] = "idle" /\ pc' = [pc EXCEPT ![a] = "asked"]
  BY DEF HandlerAsks, SweepAsks, Asks
<1>2. matched => attempts < Cap
  BY DEF HandlerAsks, SweepAsks, NeedsReask, BaseInv, RowInv
<1>3. attempts \in Nat /\ attempts <= Cap - 1
  BY <1>2, AlbumAssumption DEF BudgetInv, BaseInv, TypeOK
<1>4. IsFiniteSet(Away') /\ Cardinality(Away') \in Nat
      /\ Cardinality(Away') <= Cardinality(Handlers \cup Sweeps)
  <2>1. Away' \subseteq Handlers \cup Sweeps
    BY DEF Away
  <2> QED
    BY <2>1, AwayCounts, FS_Subset, FS_CardinalityType
<1>5. attempts' + Cardinality(Away') <= Cap - 1 + Cardinality(Handlers \cup Sweeps)
  BY <1>1, <1>3, <1>4, AwayCounts, AlbumAssumption DEF row
<1>6. \A b \in Sweeps : pc'[b] # "idle" => matched'
  BY <1>1 DEF row, SweepAsks, BudgetInv, BaseInv, TypeOK, Askers
<1> QED
  BY <1>1, <1>5, <1>6 DEF BudgetInv, row

\* Whoever comes back has spent what it was let in for, at most.
LEMMA ReturningKeepsBudget ==
    ASSUME BaseInv, BudgetInv, NEW a \in Handlers \cup Sweeps, pc[a] # "idle",
           pc' = [pc EXCEPT ![a] = "idle"],
           attempts' \in {attempts, attempts + 1},
           matched => matched', ~matched' => attempts' = 0
    PROVE  BudgetInv'
<1>1. Away' = Away \ {a} /\ a \in Away
  BY DEF Away, BaseInv, TypeOK, Askers
<1>2. Cardinality(Away') = Cardinality(Away) - 1
  BY <1>1, AwayCounts, FS_RemoveElement
<1>3. attempts' + Cardinality(Away') <= attempts + Cardinality(Away)
  BY <1>2, AwayCounts DEF BaseInv, TypeOK
<1>4. attempts' \in Nat /\ attempts \in Nat /\ Cardinality(Away') \in Nat
  BY <1>1, AwayCounts, FS_Subset, FS_CardinalityType DEF BaseInv, TypeOK
<1>5. attempts' + Cardinality(Away') <= Cap - 1 + Cardinality(Handlers \cup Sweeps)
  BY <1>3, <1>4, AwayCounts, AlbumAssumption DEF BudgetInv
<1>6. \A b \in Sweeps : pc'[b] # "idle" => matched'
  BY DEF BudgetInv, BaseInv, TypeOK, Askers
<1> QED
  BY <1>5, <1>6 DEF BudgetInv

\* Steps that leave everybody's being away, and the attempts, as they were.
LEMMA ElsewhereKeepsBudget ==
    ASSUME BudgetInv, Away' = Away, attempts' = attempts, matched => matched',
           \A a \in Sweeps : pc'[a] # "idle" => pc[a] # "idle"
    PROVE  BudgetInv'
BY DEF BudgetInv

LEMMA NextKeepsBudget == BaseInv /\ BudgetInv /\ [Next]_vars => BudgetInv'
<1> SUFFICES ASSUME BaseInv, BudgetInv, [Next]_vars PROVE BudgetInv'
  OBVIOUS
<1>1. ASSUME NEW a \in Handlers, HandlerAsks(a) PROVE BudgetInv'
  BY <1>1, AskingKeepsBudget, AlbumAssumption
<1>2. ASSUME NEW a \in Sweeps, SweepAsks(a) PROVE BudgetInv'
  BY <1>2, AskingKeepsBudget
<1>3. ASSUME NEW a \in Handlers \cup Sweeps, UpsertMatch(a) PROVE BudgetInv'
  <2>1. /\ pc[a] # "idle" /\ pc' = [pc EXCEPT ![a] = "idle"]
        /\ matched' = TRUE /\ attempts' = IF matched THEN attempts + 1 ELSE attempts
    BY <1>3, Zenon DEF UpsertMatch, Lands
  <2> QED
    BY <2>1, ReturningKeepsBudget
<1>4. ASSUME NEW a \in Handlers, HandlerNoMatch(a) PROVE BudgetInv'
  <2>1. /\ pc[a] # "idle" /\ pc' = [pc EXCEPT ![a] = "idle"]
        /\ matched' = matched /\ attempts' = attempts
    BY <1>4, Zenon DEF HandlerNoMatch, Lands
  <2>2. ~matched' => attempts' = 0
    BY <2>1 DEF BudgetInv
  <2> QED
    BY <2>1, <2>2, ReturningKeepsBudget
<1>5. ASSUME NEW a \in Sweeps, SweepNoMatch(a) PROVE BudgetInv'
  <2>1. /\ pc[a] # "idle" /\ pc' = [pc EXCEPT ![a] = "idle"]
        /\ matched' = matched /\ attempts' = attempts + 1
    BY <1>5 DEF SweepNoMatch, Lands
  <2>2. matched
    BY <2>1 DEF BudgetInv
  <2> QED
    BY <2>1, <2>2, ReturningKeepsBudget
<1>6. ASSUME NEW a \in Handlers \cup Sweeps, LookupFails(a) \/ Dropped(a) PROVE BudgetInv'
  <2>1. /\ pc[a] # "idle" /\ pc' = [pc EXCEPT ![a] = "idle"]
        /\ matched' = matched /\ attempts' = attempts
    BY <1>6 DEF LookupFails, Dropped, row
  <2>2. ~matched' => attempts' = 0
    BY <2>1 DEF BudgetInv
  <2> QED
    BY <2>1, <2>2, ReturningKeepsBudget
<1>7. ASSUME NEW a \in Askers, BeginWrite(a) PROVE BudgetInv'
  <2>1. /\ Away' = Away /\ attempts' = attempts /\ matched' = matched
        /\ \A b \in Sweeps : pc'[b] # "idle" => pc[b] # "idle"
    BY <1>7 DEF BeginWrite, row, Away, BaseInv, TypeOK, Askers
  <2> QED
    BY <2>1, ElsewhereKeepsBudget
<1>8. ASSUME NEW a \in JobRows, JobAsks(a) \/ LookupFails(a) \/ JobWrites(a) PROVE BudgetInv'
  <2>1. /\ attempts' = attempts
        /\ matched => matched'
        /\ \E st \in {"idle", "asked"} : pc' = [pc EXCEPT ![a] = st]
    BY <1>8 DEF JobAsks, Asks, LookupFails, JobWrites, JobMatch, JobNoMatch, Dropped, Lands, row
  <2>2. /\ Away' = Away
        /\ \A b \in Sweeps : pc'[b] # "idle" => pc[b] # "idle"
    BY <2>1, AlbumAssumption DEF Away, BaseInv, TypeOK, Askers
  <2> QED
    BY <2>1, <2>2, ElsewhereKeepsBudget
<1>9. CASE UNCHANGED vars
  BY <1>9 DEF vars, row, BudgetInv, Away
<1> QED
  BY <1>1, <1>2, <1>3, <1>4, <1>5, <1>6, <1>7, <1>8, <1>9
  DEF Next, WorkerNext, JobNext, HandlerWrites, SweepWrites, Askers

\* Askers that raced each other in under the cap overspend it by their number at
\* most, and the job spends nothing.
THEOREM CapHolds == Spec => []AttemptsBounded
<1>1. Init => BaseInv /\ BudgetInv
  <2> SUFFICES ASSUME Init PROVE BudgetInv
    BY InitBaseInv
  <2>1. Away = {}
    BY DEF Init, Away, Askers
  <2>2. Cardinality(Away) = 0
    BY <2>1, FS_EmptySet
  <2> QED
    BY <2>1, <2>2, AwayCounts, AlbumAssumption DEF Init, BudgetInv, Askers
<1>2. BaseInv /\ BudgetInv => AttemptsBounded
  BY AwayCounts, AlbumAssumption DEF BaseInv, TypeOK, BudgetInv, AttemptsBounded
<1> QED
  BY <1>1, <1>2, NextKeepsBaseInv, NextKeepsBudget, PTL DEF Spec

================================================================================
