----------------------- MODULE EnrichmentLifecycleProofs -----------------------
(***************************************************************************)
(* Proofs about EnrichmentLifecycle, for any number of rows, workers and    *)
(* albums and any TTL, grace window and recovery window.                    *)
(***************************************************************************)
EXTENDS EnrichmentLifecycle, TLAPS

(***************************************************************************)
(* The type invariant.                                                      *)
(***************************************************************************)
\* An age that grows by a tick stays within its cap (Tick).
LEMMA OlderStays ==
    ASSUME NEW cap \in Nat, NEW age \in 0 .. cap
    PROVE  Older(age, cap) \in 0 .. cap
BY DEF Older

\* The cap of addAge, from the grace and the recovery window, is a number.
LEMMA AgeCapIsNat == AgeCap \in Nat
BY LifecycleAssumption DEF AgeCap

\* Both UPSERTs keep album_metadata typed and never remove a row from it.
LEMMA SavesAreTyped ==
    ASSUME TypeOK, NEW a, SaveMatch(a) \/ SaveNoMatch(a)
    PROVE  album' \in [Albums -> AlbumForms]
<1>1. CASE SaveMatch(a)
  BY <1>1 DEF SaveMatch, TypeOK, MatchForms, AlbumForms
<1>2. CASE SaveNoMatch(a) /\ a \in Albums
  BY <1>2 DEF SaveNoMatch, TypeOK, AlbumForms
<1>3. CASE SaveNoMatch(a) /\ a \notin Albums
  BY <1>3 DEF SaveNoMatch, TypeOK, AlbumForms
<1> QED
  BY <1>1, <1>2, <1>3

\* Both UPSERTs leave the album they are about with an album_metadata row, and
\* every other album as it was.
LEMMA SavesAreUpserts ==
    ASSUME TypeOK, NEW a, SaveMatch(a) \/ SaveNoMatch(a)
    PROVE  /\ a \in Albums => album'[a] # "none"
           /\ \A b \in Albums : album[b] # "none" => album'[b] # "none"
           /\ \A b \in Albums : b # a => album'[b] = album[b]
<1>1. CASE SaveMatch(a)
  BY <1>1 DEF SaveMatch, TypeOK, MatchForms, AlbumForms
<1>2. CASE SaveNoMatch(a)
  BY <1>2 DEF SaveNoMatch, TypeOK, AlbumForms
<1> QED
  BY <1>1, <1>2

\* TypeOK holds in every reachable state.
THEOREM TypeCorrect == Spec => []TypeOK
<1>1. Init => TypeOK
  BY LifecycleAssumption, AgeCapIsNat
  DEF Init, TypeOK, Statuses, AlbumForms, Stages, JobSteps
<1>2. TypeOK /\ [Next]_vars => TypeOK'
  <2> SUFFICES ASSUME TypeOK, [Next]_vars PROVE TypeOK'
    OBVIOUS
  <2> USE LifecycleAssumption, AgeCapIsNat
      DEF TypeOK, Statuses, Terminal, Present, AlbumForms, MatchForms, Stages,
          JobSteps, rowVars, workerVars, jobVars, healVars
  <2>1. ASSUME NEW r \in Rows, InsertRow(r) \/ DeleteRow(r) PROVE TypeOK'
    <3>1. CASE InsertRow(r)
      BY <3>1 DEF InsertRow
    <3>2. CASE DeleteRow(r)
      BY <3>2 DEF DeleteRow
    <3> QED
      BY <2>1, <3>1, <3>2
  <2>2. ASSUME NEW r \in Rows, RotationResolved(r) PROVE TypeOK'
    BY <2>2 DEF RotationResolved
  <2>3. ASSUME NEW w \in Workers, NEW r \in Rows, LoseEvent(w, r) PROVE TypeOK'
    BY <2>3 DEF LoseEvent
  <2>4. ASSUME NEW w \in Workers, NEW r \in Rows, HandlerStep(w, r) PROVE TypeOK'
    <3>1. CASE Dispatch(w, r)
      BY <3>1 DEF Dispatch
    <3>2. CASE ClaimWon(w, r)
      BY <3>2 DEF ClaimWon, Enter
    <3>3. CASE ClaimLost(w, r)
      BY <3>3 DEF ClaimLost, Enter
    <3>4. CASE Precheck(w, r)
      BY <3>4 DEF Precheck, Enter
    <3>5. CASE FinalizeFromCache(w, r)
      BY <3>5 DEF FinalizeFromCache, Enter, GuardedFlip
    <3>6. CASE Answered(w, r)
      BY <3>6 DEF Answered, Enter, AfterLookup
    <3>7. CASE SaveAlbum(w, r)
      <4>1. album' \in [Albums -> AlbumForms]
        BY <3>7, SavesAreTyped DEF SaveAlbum
      <4>2. handler' \in [Workers -> [Rows -> Stages]]
        <5>1. CASE Enter(w, r, "flipMatch")
          BY <5>1 DEF Enter
        <5>2. CASE Enter(w, r, "flipNoMatch")
          BY <5>2 DEF Enter
        <5> QED
          BY <3>7, <5>1, <5>2 DEF SaveAlbum
      <4> QED
        BY <3>7, <4>1, <4>2 DEF SaveAlbum, Enter
    <3>8. CASE FinalizeRow(w, r)
      BY <3>8 DEF FinalizeRow, Enter, GuardedFlip
    <3>9. CASE HandlerFails(w, r)
      BY <3>9 DEF HandlerFails, Enter
    <3> QED
      BY <2>4, <3>1, <3>2, <3>3, <3>4, <3>5, <3>6, <3>7, <3>8, <3>9 DEF HandlerStep
  <2>5. ASSUME NEW w \in Workers, ProcessStep(w) PROVE TypeOK'
    <3>1. CASE BeginShutdown(w)
      BY <3>1 DEF BeginShutdown
    <3>2. CASE Stop(w)
      BY <3>2 DEF Stop
    <3>3. CASE Start(w)
      BY <3>3 DEF Start
    <3>4. CASE Sweep(w)
      BY <3>4 DEF Sweep
    <3> QED
      BY <2>5, <3>1, <3>2, <3>3, <3>4 DEF ProcessStep
  <2>6. ASSUME NEW w \in Workers, NEW a \in Albums, ReaskAlbum(w, a) PROVE TypeOK'
    BY <2>6, SavesAreTyped DEF ReaskAlbum
  <2>7. CASE JobStep
    <3>1. CASE StartRun \/ BuildWorkList \/ FinishRun
      BY <3>1 DEF StartRun, BuildWorkList, FinishRun, HealCandidates, PendingCandidates
    <3>2. CASE LoadSlice
      BY <3>2 DEF LoadSlice, SliceDone
    <3>3. ASSUME NEW r \in Rows, NextRow(r) PROVE TypeOK'
      BY <3>3 DEF NextRow
    <3>4. CASE JobAnswered
      BY <3>4 DEF JobAnswered, AfterLookup
    <3>5. CASE JobSaveAlbum
      <4>1. album' \in [Albums -> AlbumForms]
        BY <3>5, SavesAreTyped DEF JobSaveAlbum
      <4> QED
        BY <3>5, <4>1 DEF JobSaveAlbum
    <3>6. CASE JobFinalize \/ StampDeadLetter
      BY <3>6 DEF JobFinalize, StampDeadLetter, JobWrite, GuardedFlip, RowDone
    <3>7. CASE JobWriteFails
      BY <3>7 DEF JobWriteFails
    <3>8. CASE JobSkipsRow \/ AbortRun
      BY <3>8 DEF JobSkipsRow, AbortRun, RowDone
    <3> QED
      BY <2>7, <3>1, <3>2, <3>3, <3>4, <3>5, <3>6, <3>7, <3>8 DEF JobStep
  <2>8. CASE Tick
    <3>1. \A r \in Rows : /\ Older(claimAge[r], TTL + 1) \in 0 .. TTL + 1
                          /\ Older(addAge[r], AgeCap) \in 0 .. AgeCap
      BY OlderStays
    <3> QED
      BY <2>8, <3>1 DEF Tick
  <2>9. CASE UNCHANGED vars
    BY <2>9 DEF vars
  <2> QED
    BY <2>1, <2>2, <2>3, <2>4, <2>5, <2>6, <2>7, <2>8, <2>9 DEF Next
<1> QED
  BY <1>1, <1>2, PTL DEF Spec

--------------------------------------------------------------------------------
(***************************************************************************)
(* A linked verdict is readable.  The invariant is not inductive alone: the *)
(* status flip relies on the handler having written the album at an earlier *)
(* step, so what each step of a handler and of the job already knows is     *)
(* part of it (StagesFit, FlipFollowsSave).  That an album_metadata row is  *)
(* never removed carries the knowledge over the steps of everybody else.    *)
(***************************************************************************)
IInv == TypeOK /\ StagesFit /\ FlipFollowsSave /\ LinkedVerdictIsReadable

\* album_metadata only grows.
LEMMA AlbumsGrow ==
    ASSUME TypeOK, [Next]_vars
    PROVE  \A b \in Albums : album[b] # "none" => album'[b] # "none"
<1>1. \/ UNCHANGED album
      \/ \E a : SaveMatch(a) \/ SaveNoMatch(a)
  BY DEF Next, vars, InsertRow, DeleteRow, RotationResolved, LoseEvent, Tick,
         HandlerStep, Dispatch, ClaimWon, ClaimLost, Precheck, FinalizeFromCache,
         Answered, SaveAlbum, FinalizeRow, HandlerFails, ProcessStep, BeginShutdown,
         Stop, Start, Sweep, ReaskAlbum, JobStep, StartRun, BuildWorkList, FinishRun,
         LoadSlice, NextRow, JobAnswered, JobSaveAlbum, JobFinalize, JobWrite,
         JobWriteFails, StampDeadLetter, JobSkipsRow, AbortRun
<1> QED
  BY <1>1, SavesAreUpserts

\* A linked row's album is one of Albums.
LEMMA LinkedAlbum == \A r \in Rows : Linked(r) => AlbumOf[r] \in Albums
BY LifecycleAssumption DEF Linked

\* What a handler step knows survives the steps that leave the handlers, the
\* job and the verdicts alone.
LEMMA KnowledgeKept ==
    ASSUME IInv, [Next]_vars,
           UNCHANGED <<handler, jobRow, jobStep>>,
           \A r \in Rows : status'[r] \in {"enriched_match", "enriched_no_match"}
                               => status'[r] = status[r]
    PROVE  StagesFit' /\ FlipFollowsSave' /\ LinkedVerdictIsReadable'
<1>1. \A b \in Albums : album[b] # "none" => album'[b] # "none"
  BY AlbumsGrow DEF IInv
<1>2. StagesFit'
  BY DEF IInv, StagesFit, Linked
<1>3. FlipFollowsSave'
  <2>1. \A w \in Workers, r \in Rows :
          (Linked(r) /\ handler[w][r] \in {"cached", "flipMatch", "flipNoMatch"})
             => album'[AlbumOf[r]] # "none"
    BY <1>1, LinkedAlbum DEF IInv, FlipFollowsSave
  <2>2. jobStep \in {"flipMatch", "flipNoMatch"} => jobRow \in Rows
    BY DEF IInv, TypeOK
  <2>3. (jobStep \in {"flipMatch", "flipNoMatch"} /\ Linked(jobRow))
             => album'[AlbumOf[jobRow]] # "none"
    BY <1>1, <2>2, LinkedAlbum DEF IInv, FlipFollowsSave
  <2> QED
    BY <2>1, <2>3 DEF FlipFollowsSave, Linked
<1>4. LinkedVerdictIsReadable'
  BY <1>1, LinkedAlbum DEF IInv, LinkedVerdictIsReadable, Linked
<1> QED
  BY <1>2, <1>3, <1>4

\* One handler moves to step st, and may flip its own row: enough that it knows
\* at st what st claims, and that its album was written before a flip.
LEMMA HandlerMoves ==
    ASSUME IInv, [Next]_vars, NEW w \in Workers, NEW r \in Rows, NEW st \in Stages,
           Enter(w, r, st),
           UNCHANGED <<jobRow, jobStep>>,
           st \in {"precheck", "cached", "saveMatch", "saveNoMatch"} => Linked(r),
           Linked(r) /\ st \in {"cached", "flipMatch", "flipNoMatch"}
               => album'[AlbumOf[r]] # "none",
           \A q \in Rows : status'[q] \in {"enriched_match", "enriched_no_match"}
               => \/ status'[q] = status[q]
                  \/ q = r /\ (Linked(r) => album[AlbumOf[r]] # "none")
    PROVE  StagesFit' /\ FlipFollowsSave' /\ LinkedVerdictIsReadable'
<1>1. \A b \in Albums : album[b] # "none" => album'[b] # "none"
  BY AlbumsGrow DEF IInv
<1>2. \A v \in Workers, q \in Rows :
         handler'[v][q] = IF v = w /\ q = r THEN st ELSE handler[v][q]
  BY DEF Enter, IInv, TypeOK
<1>3. StagesFit'
  BY <1>2 DEF IInv, StagesFit, Linked
<1>4. FlipFollowsSave'
  <2>1. ASSUME NEW v \in Workers, NEW q \in Rows, Linked(q),
               handler'[v][q] \in {"cached", "flipMatch", "flipNoMatch"}
        PROVE  album'[AlbumOf[q]] # "none"
    <3>1. CASE v = w /\ q = r
      BY <2>1, <3>1, <1>2
    <3>2. CASE ~(v = w /\ q = r)
      <4>1. handler[v][q] \in {"cached", "flipMatch", "flipNoMatch"}
        BY <2>1, <3>2, <1>2
      <4> QED
        BY <2>1, <4>1, <1>1, LinkedAlbum DEF IInv, FlipFollowsSave
    <3> QED
      BY <3>1, <3>2
  <2>2. (jobStep \in {"flipMatch", "flipNoMatch"} /\ Linked(jobRow))
             => album'[AlbumOf[jobRow]] # "none"
    <3>1. jobStep \in {"flipMatch", "flipNoMatch"} => jobRow \in Rows
      BY DEF IInv, TypeOK
    <3> QED
      BY <1>1, <3>1, LinkedAlbum DEF IInv, FlipFollowsSave
  <2> QED
    BY <2>1, <2>2 DEF FlipFollowsSave, Linked
<1>5. LinkedVerdictIsReadable'
  BY <1>1, LinkedAlbum DEF IInv, LinkedVerdictIsReadable, Linked
<1> QED
  BY <1>3, <1>4, <1>5

\* The job moves to step st with row q, and may flip the row it had.
LEMMA JobMoves ==
    ASSUME IInv, [Next]_vars, UNCHANGED handler,
           jobStep' \in {"saveMatch", "saveNoMatch"} => Linked(jobRow'),
           jobStep' \in {"flipMatch", "flipNoMatch"} /\ Linked(jobRow')
               => album'[AlbumOf[jobRow']] # "none",
           \A q \in Rows : status'[q] \in {"enriched_match", "enriched_no_match"}
               => \/ status'[q] = status[q]
                  \/ q = jobRow /\ (Linked(jobRow) => album[AlbumOf[jobRow]] # "none")
    PROVE  StagesFit' /\ FlipFollowsSave' /\ LinkedVerdictIsReadable'
<1>1. \A b \in Albums : album[b] # "none" => album'[b] # "none"
  BY AlbumsGrow DEF IInv
<1>2. StagesFit'
  BY DEF IInv, StagesFit, Linked
<1>3. FlipFollowsSave'
  <2>1. \A w \in Workers, r \in Rows :
          (Linked(r) /\ handler[w][r] \in {"cached", "flipMatch", "flipNoMatch"})
             => album'[AlbumOf[r]] # "none"
    BY <1>1, LinkedAlbum DEF IInv, FlipFollowsSave
  <2> QED
    BY <2>1 DEF FlipFollowsSave, Linked
<1>4. LinkedVerdictIsReadable'
  BY <1>1, LinkedAlbum DEF IInv, LinkedVerdictIsReadable, Linked
<1> QED
  BY <1>2, <1>3, <1>4

\* The strengthened invariant, under every interleaving of workers, sweeps,
\* crashes and job runs.
THEOREM InvariantHolds == Spec => []IInv
<1>1. Init => StagesFit /\ FlipFollowsSave /\ LinkedVerdictIsReadable
  BY DEF Init, StagesFit, FlipFollowsSave, LinkedVerdictIsReadable
<1>2. TypeOK /\ TypeOK' /\ IInv /\ [Next]_vars => IInv'
  <2> SUFFICES ASSUME TypeOK, TypeOK', IInv, [Next]_vars
               PROVE  StagesFit' /\ FlipFollowsSave' /\ LinkedVerdictIsReadable'
    BY DEF IInv
  <2>a. status \in [Rows -> Statuses] /\ handler \in [Workers -> [Rows -> Stages]]
    BY DEF TypeOK
  <2>1. ASSUME NEW r \in Rows, InsertRow(r) \/ DeleteRow(r) \/ RotationResolved(r)
        PROVE  StagesFit' /\ FlipFollowsSave' /\ LinkedVerdictIsReadable'
    BY <2>1, <2>a, KnowledgeKept
    DEF InsertRow, DeleteRow, RotationResolved, jobVars, workerVars, rowVars
  <2>2. ASSUME NEW w \in Workers, NEW r \in Rows, LoseEvent(w, r)
        PROVE  StagesFit' /\ FlipFollowsSave' /\ LinkedVerdictIsReadable'
    BY <2>2, KnowledgeKept DEF LoseEvent, jobVars, rowVars
  <2>3. ASSUME NEW w \in Workers, NEW r \in Rows, HandlerStep(w, r)
        PROVE  StagesFit' /\ FlipFollowsSave' /\ LinkedVerdictIsReadable'
    <3> USE DEF jobVars, rowVars, Stages
    <3>1. CASE Dispatch(w, r)
      <4>1. \A v \in Workers, q \in Rows :
               handler'[v][q] = IF v = w /\ q = r THEN "claim" ELSE handler[v][q]
        BY <3>1, <2>a DEF Dispatch
      <4>2. StagesFit'
        BY <3>1, <4>1 DEF Dispatch, IInv, StagesFit, Linked
      <4>3. FlipFollowsSave'
        BY <3>1, <4>1 DEF Dispatch, IInv, FlipFollowsSave, Linked
      <4>4. LinkedVerdictIsReadable'
        BY <3>1 DEF Dispatch, IInv, LinkedVerdictIsReadable, Linked
      <4> QED
        BY <4>2, <4>3, <4>4
    <3>2. CASE ClaimWon(w, r)
      <4>1. Linked(r) => Enter(w, r, "precheck")
        BY <3>2 DEF ClaimWon
      <4>2. ~Linked(r) => Enter(w, r, "lookup")
        BY <3>2 DEF ClaimWon
      <4> QED
        BY <3>2, <4>1, <4>2, <2>a, HandlerMoves DEF ClaimWon
    <3>3. CASE ClaimLost(w, r)
      BY <3>3, HandlerMoves DEF ClaimLost
    <3>4. CASE Precheck(w, r)
      <4>1. Linked(r)
        BY <3>4 DEF Precheck, IInv, StagesFit
      <4>2. CASE HasLoadBearing(AlbumOf[r])
        <5>1. album'[AlbumOf[r]] # "none"
          BY <4>2, <3>4 DEF Precheck, HasLoadBearing
        <5> QED
          BY <3>4, <4>1, <4>2, <5>1, HandlerMoves DEF Precheck
      <4>3. CASE ~HasLoadBearing(AlbumOf[r])
        BY <3>4, <4>3, HandlerMoves DEF Precheck
      <4> QED
        BY <4>2, <4>3
    <3>5. CASE FinalizeFromCache(w, r)
      <4>1. Linked(r) => album[AlbumOf[r]] # "none"
        BY <3>5 DEF FinalizeFromCache, IInv, FlipFollowsSave
      <4> QED
        BY <3>5, <4>1, <2>a, HandlerMoves DEF FinalizeFromCache, GuardedFlip
    <3>6. CASE Answered(w, r)
      <4>1. PICK isMatch \in BOOLEAN : Enter(w, r, AfterLookup(r, isMatch))
        BY <3>6 DEF Answered
      <4>2. /\ AfterLookup(r, isMatch) \in Stages
            /\ AfterLookup(r, isMatch) \in {"precheck", "cached", "saveMatch", "saveNoMatch"}
                  => Linked(r)
            /\ AfterLookup(r, isMatch) \in {"cached", "flipMatch", "flipNoMatch"}
                  => ~Linked(r)
        BY DEF AfterLookup
      <4> QED
        BY <3>6, <4>1, <4>2, HandlerMoves DEF Answered
    <3>7. CASE SaveAlbum(w, r)
      <4>1. handler[w][r] \in {"saveMatch", "saveNoMatch"}
        BY <3>7 DEF SaveAlbum
      <4>2. Linked(r)
        BY <4>1 DEF IInv, StagesFit
      <4>3. album'[AlbumOf[r]] # "none"
        BY <3>7, <4>2, LinkedAlbum, SavesAreUpserts DEF SaveAlbum
      <4>4. PICK st \in {"flipMatch", "flipNoMatch"} : Enter(w, r, st)
        BY <3>7 DEF SaveAlbum
      <4> QED
        BY <3>7, <4>3, <4>4, HandlerMoves DEF SaveAlbum
    <3>8. CASE FinalizeRow(w, r)
      <4>1. Linked(r) => album[AlbumOf[r]] # "none"
        BY <3>8 DEF FinalizeRow, IInv, FlipFollowsSave
      <4> QED
        BY <3>8, <4>1, <2>a, HandlerMoves DEF FinalizeRow, GuardedFlip
    <3>9. CASE HandlerFails(w, r)
      BY <3>9, HandlerMoves DEF HandlerFails
    <3> QED
      BY <2>3, <3>1, <3>2, <3>3, <3>4, <3>5, <3>6, <3>7, <3>8, <3>9 DEF HandlerStep
  <2>4. ASSUME NEW w \in Workers, ProcessStep(w)
        PROVE  StagesFit' /\ FlipFollowsSave' /\ LinkedVerdictIsReadable'
    <3>1. CASE BeginShutdown(w) \/ Start(w)
      BY <3>1, KnowledgeKept DEF BeginShutdown, Start, jobVars, rowVars
    <3>2. CASE Stop(w)
      <4>1. \A v \in Workers, q \in Rows : handler'[v][q] \in {"idle", handler[v][q]}
        BY <3>2, <2>a DEF Stop
      <4>2. StagesFit'
        BY <3>2, <4>1 DEF Stop, jobVars, IInv, StagesFit, Linked
      <4>3. FlipFollowsSave'
        BY <3>2, <4>1 DEF Stop, jobVars, IInv, FlipFollowsSave, Linked
      <4>4. LinkedVerdictIsReadable'
        BY <3>2 DEF Stop, rowVars, IInv, LinkedVerdictIsReadable, Linked
      <4> QED
        BY <4>2, <4>3, <4>4
    <3>3. CASE Sweep(w)
      BY <3>3, KnowledgeKept DEF Sweep, workerVars, jobVars
    <3> QED
      BY <2>4, <3>1, <3>2, <3>3 DEF ProcessStep
  <2>5. ASSUME NEW w \in Workers, NEW a \in Albums, ReaskAlbum(w, a)
        PROVE  StagesFit' /\ FlipFollowsSave' /\ LinkedVerdictIsReadable'
    BY <2>5, KnowledgeKept DEF ReaskAlbum, workerVars, jobVars, rowVars
  <2>6. CASE JobStep
    <3> USE DEF workerVars, rowVars
    <3>1. CASE StartRun \/ BuildWorkList \/ FinishRun \/ LoadSlice
      BY <3>1, KnowledgeKept DEF StartRun, BuildWorkList, FinishRun, LoadSlice
    <3>2. ASSUME NEW r \in Rows, NextRow(r)
          PROVE  StagesFit' /\ FlipFollowsSave' /\ LinkedVerdictIsReadable'
      BY <3>2, JobMoves DEF NextRow
    <3>3. CASE JobAnswered
      BY <3>3, JobMoves DEF JobAnswered, AfterLookup
    <3>4. CASE JobSaveAlbum
      <4>1. jobStep \in {"saveMatch", "saveNoMatch"} /\ jobRow \in Rows /\ UNCHANGED jobRow
        BY <3>4 DEF JobSaveAlbum, TypeOK
      <4>2. Linked(jobRow)
        BY <4>1 DEF IInv, StagesFit
      <4>3. album'[AlbumOf[jobRow]] # "none"
        BY <3>4, <4>1, <4>2, LinkedAlbum, SavesAreUpserts DEF JobSaveAlbum
      <4> QED
        BY <3>4, <4>1, <4>2, <4>3, JobMoves DEF JobSaveAlbum
    <3>5. CASE JobFinalize \/ StampDeadLetter
      <4>1. jobStep' = "idle" /\ UNCHANGED <<handler, album>>
        BY <3>5 DEF JobFinalize, StampDeadLetter, JobWrite, RowDone
      <4>2. \A q \in Rows : status'[q] \in {"enriched_match", "enriched_no_match"}
               => \/ status'[q] = status[q]
                  \/ q = jobRow /\ jobStep \in {"flipMatch", "flipNoMatch"}
        BY <3>5, <2>a DEF JobFinalize, StampDeadLetter, JobWrite, GuardedFlip
      <4>3. jobStep \in {"flipMatch", "flipNoMatch"} /\ Linked(jobRow)
               => album[AlbumOf[jobRow]] # "none"
        BY DEF IInv, FlipFollowsSave
      <4> QED
        BY <4>1, <4>2, <4>3, JobMoves
    <3>6. CASE JobWriteFails \/ JobSkipsRow \/ AbortRun
      BY <3>6, JobMoves DEF JobWriteFails, JobSkipsRow, AbortRun, RowDone
    <3> QED
      BY <2>6, <3>1, <3>2, <3>3, <3>4, <3>5, <3>6 DEF JobStep
  <2>7. CASE Tick
    BY <2>7, KnowledgeKept DEF Tick, workerVars, jobVars
  <2>8. CASE UNCHANGED vars
    BY <2>8, KnowledgeKept DEF vars, workerVars, jobVars, rowVars
  <2> QED
    BY <2>1, <2>2, <2>3, <2>4, <2>5, <2>6, <2>7, <2>8 DEF Next
<1>3. TypeOK /\ StagesFit /\ FlipFollowsSave /\ LinkedVerdictIsReadable => IInv
  BY DEF IInv
<1> QED
  BY <1>1, <1>2, <1>3, TypeCorrect, PTL DEF Spec

\* Whoever is about to flip a linked row's status, handler or job, has the
\* row's album already in album_metadata.
THEOREM FlipsFollowSaves == Spec => []FlipFollowsSave
<1>1. IInv => FlipFollowsSave
  BY DEF IInv
<1> QED
  BY <1>1, InvariantHolds, PTL

\* A linked row that shows "match" or "no match" has album_metadata to read.
THEOREM LinkedVerdictsReadable == Spec => []LinkedVerdictIsReadable
<1>1. IInv => LinkedVerdictIsReadable
  BY DEF IInv
<1> QED
  BY <1>1, InvariantHolds, PTL

--------------------------------------------------------------------------------
(***************************************************************************)
(* The status writes of the system, in one place: which row a step may give *)
(* which status.  Both results below follow from it.                        *)
(***************************************************************************)
Answers == {"enriched_match", "enriched_no_match"}

\* What one step may do to the status of row r.
StatusStep(r) ==
    \/ status'[r] = status[r]
    \/ status[r] = "absent" /\ status'[r] = "pending"
    \/ status[r] \in Present /\ status'[r] = "deleted"
    \/ {status[r], status'[r]} \subseteq {"pending", "enriching"}
    \/ /\ status[r] = "enriching" /\ status'[r] \in Answers
       /\ Linked(r) => album[AlbumOf[r]] # "none"
    \/ /\ jobRow = r /\ status[r] = FromStatus
       /\ status'[r] \in Answers \cup {"failed_no_retry"}
       /\ status'[r] \in Answers /\ Linked(r) => album[AlbumOf[r]] # "none"

\* A step of the flowsheet, of a worker or of the job touches the status of
\* one row at most, the sweep that of claimed rows only, and no step that
\* touches a status writes album_metadata.
LEMMA StatusSteps ==
    ASSUME IInv, [Next]_vars
    PROVE  /\ \A r \in Rows : StatusStep(r)
           /\ status' # status => UNCHANGED album
           /\ \/ \E q \in Rows : \A r \in Rows \ {q} : status'[r] = status[r]
              \/ \A r \in Rows : \/ status'[r] = status[r]
                                 \/ {status[r], status'[r]} \subseteq {"pending", "enriching"}
              \/ Rows = {}
<1> DEFINE Goal == /\ \A r \in Rows : StatusStep(r)
                   /\ status' # status => UNCHANGED album
                   /\ \/ \E q \in Rows : \A r \in Rows \ {q} : status'[r] = status[r]
                      \/ \A r \in Rows : \/ status'[r] = status[r]
                                         \/ {status[r], status'[r]} \subseteq {"pending", "enriching"}
                      \/ Rows = {}
<1>a. status \in [Rows -> Statuses]
  BY DEF IInv, TypeOK
<1>1. CASE UNCHANGED status
  BY <1>1 DEF StatusStep
<1>2. ASSUME NEW r \in Rows, InsertRow(r) \/ DeleteRow(r) PROVE Goal
  BY <1>2, <1>a DEF InsertRow, DeleteRow, StatusStep
<1>3. ASSUME NEW w \in Workers, NEW r \in Rows, ClaimWon(w, r) PROVE Goal
  BY <1>3, <1>a DEF ClaimWon, StatusStep
<1>4. ASSUME NEW w \in Workers, NEW r \in Rows, FinalizeFromCache(w, r) \/ FinalizeRow(w, r)
      PROVE  Goal
  <2>1. Linked(r) => album[AlbumOf[r]] # "none"
    BY <1>4 DEF FinalizeFromCache, FinalizeRow, IInv, FlipFollowsSave
  <2> QED
    BY <1>4, <1>a, <2>1 DEF FinalizeFromCache, FinalizeRow, GuardedFlip, StatusStep, Answers
<1>5. ASSUME NEW w \in Workers, Sweep(w) PROVE Goal
  BY <1>5, <1>a DEF Sweep, Stranded, StatusStep
<1>6. CASE JobFinalize \/ StampDeadLetter
  <2>1. jobRow \in Rows
    BY <1>6 DEF JobFinalize, StampDeadLetter, IInv, TypeOK
  <2>2. jobStep \in {"flipMatch", "flipNoMatch"} /\ Linked(jobRow)
           => album[AlbumOf[jobRow]] # "none"
    BY DEF IInv, FlipFollowsSave
  <2> QED
    BY <1>6, <1>a, <2>1, <2>2
    DEF JobFinalize, StampDeadLetter, JobWrite, GuardedFlip, StatusStep, Answers
<1>7. \/ UNCHANGED status
      \/ \E r \in Rows : InsertRow(r) \/ DeleteRow(r)
      \/ \E w \in Workers, r \in Rows : ClaimWon(w, r) \/ FinalizeFromCache(w, r) \/ FinalizeRow(w, r)
      \/ \E w \in Workers : Sweep(w)
      \/ JobFinalize \/ StampDeadLetter
  BY DEF Next, vars, rowVars, RotationResolved, LoseEvent, Tick, HandlerStep, Dispatch,
         ClaimLost, Precheck, Answered, SaveAlbum, HandlerFails, ProcessStep,
         BeginShutdown, Stop, Start, ReaskAlbum, JobStep, StartRun, BuildWorkList,
         FinishRun, LoadSlice, NextRow, JobAnswered, JobSaveAlbum, JobWriteFails,
         JobSkipsRow, AbortRun
<1> QED
  BY <1>1, <1>2, <1>3, <1>4, <1>5, <1>6, <1>7

\* No step of any actor takes a verdict back: a match and a dead-lettered row
\* stay, and a no-match is only replaced by the self-heal pass that holds it.
THEOREM VerdictsKept == Spec => VerdictsAreKept
<1>1. IInv /\ [Next]_vars =>
        [\A r \in Rows :
          /\ status[r] \in {"enriched_match", "failed_no_retry"}
                => status'[r] \in {status[r], "deleted"}
          /\ status[r] = "enriched_no_match" /\ status'[r] # status[r]
                => \/ status'[r] = "deleted"
                   \/ /\ status'[r] \in {"enriched_match", "failed_no_retry"}
                      /\ jobPhase = "heal" /\ jobRow = r]_vars
  BY StatusSteps DEF StatusStep, FromStatus, Answers, Present
<1> QED
  BY <1>1, InvariantHolds, PTL DEF Spec, VerdictsAreKept

\* A row is stamped by the UPDATE of the job that answers it, and the stamp is
\* taken back only with a new rotation id.
LEMMA StampSteps ==
    ASSUME TypeOK, [Next]_vars, NEW r \in Rows, rotationId'[r] = rotationId[r]
    PROVE  /\ attempted[r] => attempted'[r]
           /\ \/ status[r] = "enriching"
              \/ status'[r] = "enriched_no_match" => status'[r] = status[r] \/ attempted'[r]
<1> DEFINE Goal == /\ attempted[r] => attempted'[r]
                   /\ \/ status[r] = "enriching"
                      \/ status'[r] = "enriched_no_match" => status'[r] = status[r] \/ attempted'[r]
<1>a. /\ status \in [Rows -> Statuses]
      /\ rotationId \in [Rows -> BOOLEAN] /\ attempted \in [Rows -> BOOLEAN]
  BY DEF TypeOK
<1>1. CASE UNCHANGED <<status, attempted>>
  BY <1>1
<1>2. ASSUME NEW q \in Rows, InsertRow(q) \/ DeleteRow(q) PROVE Goal
  BY <1>2, <1>a DEF InsertRow, DeleteRow, healVars
<1>3. ASSUME NEW q \in Rows, RotationResolved(q) PROVE Goal
  <2>1. q # r /\ UNCHANGED status
    BY <1>3, <1>a DEF RotationResolved, rowVars
  <2> QED
    BY <1>3, <1>a, <2>1 DEF RotationResolved
<1>4. ASSUME NEW w \in Workers, NEW q \in Rows,
             ClaimWon(w, q) \/ FinalizeFromCache(w, q) \/ FinalizeRow(w, q)
      PROVE  Goal
  BY <1>4, <1>a DEF ClaimWon, FinalizeFromCache, FinalizeRow, GuardedFlip, healVars
<1>5. ASSUME NEW w \in Workers, Sweep(w) PROVE Goal
  BY <1>5, <1>a DEF Sweep, healVars
<1>6. CASE JobFinalize \/ StampDeadLetter
  <2>1. jobRow \in Rows
    BY <1>6 DEF JobFinalize, StampDeadLetter, TypeOK
  <2>2. PICK to \in {"enriched_match", "enriched_no_match", "failed_no_retry"} : JobWrite(to)
    BY <1>6 DEF JobFinalize, StampDeadLetter
  <2> QED
    BY <1>a, <2>1, <2>2 DEF JobWrite, GuardedFlip
<1> QED
  BY <1>1, <1>2, <1>3, <1>4, <1>5, <1>6
     DEF Next, vars, rowVars, healVars, LoseEvent, Tick, HandlerStep, Dispatch,
         ClaimLost, Precheck, Answered, SaveAlbum, HandlerFails, ProcessStep,
         BeginShutdown, Stop, Start, ReaskAlbum, JobStep, StartRun, BuildWorkList,
         FinishRun, LoadSlice, NextRow, JobAnswered, JobSaveAlbum, JobWriteFails,
         JobSkipsRow, AbortRun

\* The self-heal pass comes back to a row only for a new rotation id or a no-match
\* of a worker, never for a no-match that the job wrote itself.
THEOREM HealedOnceOnly == Spec => HealedOnce
<1>1. TypeOK /\ [Next]_vars =>
        [\A r \in Rows :
          r \in HealCandidates' /\ r \notin HealCandidates
              => rotationId'[r] # rotationId[r] \/ status[r] = "enriching"]_vars
  <2> SUFFICES ASSUME TypeOK, [Next]_vars, NEW r \in Rows,
                      r \in HealCandidates', r \notin HealCandidates,
                      rotationId'[r] = rotationId[r], status[r] # "enriching"
               PROVE  FALSE
    OBVIOUS
  <2>1. /\ status'[r] = "enriched_no_match" /\ rotationId[r] /\ ~attempted'[r]
        /\ status[r] = "enriched_no_match" => attempted[r]
    BY DEF HealCandidates
  <2>2. /\ attempted[r] => attempted'[r]
        /\ status'[r] = status[r] \/ attempted'[r]
    BY <2>1, StampSteps
  <2> QED
    BY <2>1, <2>2
<1> QED
  BY <1>1, TypeCorrect, PTL DEF Spec, HealedOnce

--------------------------------------------------------------------------------
(***************************************************************************)
(* One handler behind a claim.  Two cannot meet because the second comes    *)
(* only through pending, and a claim that a handler is behind is not swept: *)
(* the age of the claim stays within the budget of the handler, and the     *)
(* sweep waits longer than that.                                            *)
(***************************************************************************)
ClaimsAreInTime ==
    \A w \in Workers, r \in Rows : handler[w][r] \in Holding =>
        /\ status[r] \notin {"absent", "pending"}
        /\ status[r] = "enriching" => claimAge[r] <= HandlerBudget

HolderInv == TypeOK /\ OneHolder /\ ClaimsAreInTime

\* Handlers that were behind a claim stay so or leave it, the rows they hold do
\* not become pending, and their claims do not age.
LEMMA HoldersLeave ==
    ASSUME HolderInv, TypeOK',
           \A w \in Workers, r \in Rows : handler'[w][r] \in Holding =>
             /\ handler[w][r] \in Holding
             /\ status'[r] \notin {"absent", "pending"}
             /\ status'[r] = "enriching" => status[r] = "enriching" /\ claimAge'[r] = claimAge[r]
    PROVE  HolderInv'
<1>1. OneHolder'
  BY DEF HolderInv, OneHolder
<1>2. ClaimsAreInTime'
  BY DEF HolderInv, ClaimsAreInTime
<1> QED
  BY <1>1, <1>2 DEF HolderInv

LEMMA HolderInit == Init => HolderInv
<1>1. Init => TypeOK
  BY LifecycleAssumption, AgeCapIsNat
  DEF Init, TypeOK, Statuses, AlbumForms, Stages, JobSteps
<1>2. ASSUME Init PROVE \A w \in Workers, r \in Rows : handler[w][r] \notin Holding
  BY <1>2 DEF Init, Holding
<1> QED
  BY <1>1, <1>2 DEF HolderInv, OneHolder, ClaimsAreInTime

LEMMA HolderStep ==
    ASSUME HandlerBudget <= TTL, HolderInv, TypeOK', [Next]_vars
    PROVE  HolderInv'
<1>a. TypeOK /\ OneHolder /\ ClaimsAreInTime
  BY DEF HolderInv
<1>b. /\ status \in [Rows -> Statuses] /\ claimAge \in [Rows -> 0 .. TTL + 1]
      /\ handler \in [Workers -> [Rows -> Stages]]
  BY <1>a DEF TypeOK
<1>c. TTL \in Nat /\ HandlerBudget \in Nat
  BY LifecycleAssumption
\* A step of one handler, on its own claim or on none.
<1>1. ASSUME NEW w \in Workers, NEW r \in Rows, NEW st \in Stages,
             handler' = [handler EXCEPT ![w][r] = st],
             st \in Holding => handler[w][r] \in Holding,
             UNCHANGED claimAge,
             status' = status \/ (/\ status[r] = "enriching"
                                  /\ \E to \in Answers : status' = [status EXCEPT ![r] = to])
      PROVE  HolderInv'
  <2>1. \A v \in Workers, q \in Rows :
          \/ handler'[v][q] = handler[v][q]
          \/ v = w /\ q = r /\ handler'[v][q] = st
    BY <1>1, <1>b
  <2>2. \A q \in Rows : status'[q] = status[q] \/ status'[q] \in Answers
    BY <1>1, <1>b
  <2>3. \A v \in Workers, q \in Rows : handler'[v][q] \in Holding => handler[v][q] \in Holding
    BY <1>1, <2>1
  <2>4. ASSUME NEW v \in Workers, NEW q \in Rows, handler'[v][q] \in Holding
        PROVE  /\ status'[q] \notin {"absent", "pending"}
               /\ status'[q] = "enriching" => status[q] = "enriching" /\ claimAge'[q] = claimAge[q]
    BY <1>a, <1>1, <2>2, <2>3, <2>4 DEF ClaimsAreInTime, Answers
  <2> QED
    BY <2>3, <2>4, HoldersLeave
<1>2. ASSUME UNCHANGED <<handler, claimAge>>,
             \A r \in Rows : status[r] \notin {"absent", "pending"} =>
               /\ status'[r] \notin {"absent", "pending"}
               /\ status'[r] = "enriching" => status[r] = "enriching"
      PROVE  HolderInv'
  BY <1>a, <1>2, HoldersLeave DEF ClaimsAreInTime
<1>3. ASSUME NEW r \in Rows, InsertRow(r) \/ DeleteRow(r) \/ RotationResolved(r)
      PROVE  HolderInv'
  BY <1>3, <1>b, <1>2 DEF InsertRow, DeleteRow, RotationResolved, rowVars, workerVars
<1>4. ASSUME NEW w \in Workers, NEW r \in Rows, LoseEvent(w, r) PROVE HolderInv'
  BY <1>4, <1>2 DEF LoseEvent, rowVars
<1>5. ASSUME NEW w \in Workers, NEW r \in Rows, ClaimWon(w, r) PROVE HolderInv'
  <2>1. /\ status[r] = "pending" /\ status' = [status EXCEPT ![r] = "enriching"]
        /\ claimAge' = [claimAge EXCEPT ![r] = 0]
        /\ \E st \in Stages : handler' = [handler EXCEPT ![w][r] = st]
    BY <1>5 DEF ClaimWon, Enter, Stages
  <2>2. \A v \in Workers, q \in Rows :
          handler'[v][q] = handler[v][q] \/ (v = w /\ q = r)
    BY <1>b, <2>1
  <2>3. \A v \in Workers : handler[v][r] \notin Holding
    BY <1>a, <2>1 DEF ClaimsAreInTime
  <2>4. OneHolder'
    BY <1>a, <2>2, <2>3 DEF OneHolder
  <2>5. /\ status'[r] = "enriching" /\ claimAge'[r] = 0
        /\ \A q \in Rows \ {r} : status'[q] = status[q] /\ claimAge'[q] = claimAge[q]
    BY <1>b, <2>1
  <2>6. ClaimsAreInTime'
    BY <1>a, <1>c, <2>2, <2>5 DEF ClaimsAreInTime
  <2> QED
    BY <2>4, <2>6 DEF HolderInv
<1>6. ASSUME NEW w \in Workers, NEW r \in Rows,
             \/ Dispatch(w, r) \/ ClaimLost(w, r) \/ Precheck(w, r) \/ Answered(w, r)
             \/ SaveAlbum(w, r) \/ HandlerFails(w, r)
      PROVE  HolderInv'
  <2>1. /\ UNCHANGED <<status, claimAge>>
        /\ \E st \in Stages : /\ handler' = [handler EXCEPT ![w][r] = st]
                              /\ st \in Holding => handler[w][r] \in Holding
    BY <1>6 DEF Dispatch, ClaimLost, Precheck, Answered, AfterLookup, SaveAlbum, HandlerFails,
       Enter, Stages, Holding, rowVars
  <2> QED
    BY <1>1, <2>1
<1>7. ASSUME NEW w \in Workers, NEW r \in Rows, FinalizeFromCache(w, r) \/ FinalizeRow(w, r)
      PROVE  HolderInv'
  <2>1. /\ UNCHANGED claimAge /\ handler' = [handler EXCEPT ![w][r] = "idle"]
        /\ \E to \in Answers : GuardedFlip(r, "enriching", to)
    BY <1>7 DEF FinalizeFromCache, FinalizeRow, Enter, Answers
  <2>2. status' = status \/ (/\ status[r] = "enriching"
                             /\ \E to \in Answers : status' = [status EXCEPT ![r] = to])
    BY <2>1 DEF GuardedFlip
  <2>3. "idle" \in Stages /\ "idle" \notin Holding
    BY DEF Stages, Holding
  <2> QED
    BY <1>1, <2>1, <2>2, <2>3
<1>8. ASSUME NEW w \in Workers, BeginShutdown(w) \/ Start(w) PROVE HolderInv'
  BY <1>8, <1>2 DEF BeginShutdown, Start, rowVars
<1>9. ASSUME NEW w \in Workers, Stop(w) PROVE HolderInv'
  <2>1. /\ UNCHANGED <<status, claimAge>>
        /\ \A v \in Workers, q \in Rows : handler'[v][q] \in {"idle", handler[v][q]}
    BY <1>9, <1>b DEF Stop, rowVars
  <2>2. \A v \in Workers, q \in Rows : handler'[v][q] \in Holding => handler[v][q] \in Holding
    BY <2>1 DEF Holding
  <2> QED
    BY <1>a, <2>1, <2>2, HoldersLeave DEF ClaimsAreInTime
\* The sweep takes no claim that a handler is behind.
<1>10. ASSUME NEW w \in Workers, Sweep(w) PROVE HolderInv'
  <2>1. /\ UNCHANGED handler
        /\ \A r \in Rows : ~Stranded(r) => status'[r] = status[r] /\ claimAge'[r] = claimAge[r]
    BY <1>10 DEF Sweep, workerVars
  <2>2. \A v \in Workers, r \in Rows : handler[v][r] \in Holding => ~Stranded(r)
    BY <1>a, <1>b, <1>c DEF ClaimsAreInTime, Stranded
  <2> QED
    BY <1>a, <2>1, <2>2, HoldersLeave DEF ClaimsAreInTime
<1>11. ASSUME NEW w \in Workers, NEW a \in Albums, ReaskAlbum(w, a) PROVE HolderInv'
  BY <1>11, <1>2 DEF ReaskAlbum, rowVars, workerVars
<1>12. CASE JobFinalize \/ StampDeadLetter
  <2>1. /\ UNCHANGED <<handler, claimAge>>
        /\ \A r \in Rows : \/ status'[r] = status[r]
                           \/ status'[r] \in Answers \cup {"failed_no_retry"}
    BY <1>12, <1>b DEF JobFinalize, StampDeadLetter, JobWrite, GuardedFlip, Answers, workerVars
  <2> QED
    BY <1>2, <2>1 DEF Answers
<1>13. ASSUME JobStep, ~(JobFinalize \/ StampDeadLetter) PROVE HolderInv'
  <2>1. UNCHANGED <<handler, claimAge, status>>
    BY <1>13 DEF JobStep, StartRun, BuildWorkList, FinishRun, LoadSlice, NextRow, JobAnswered,
       JobSaveAlbum, JobWriteFails, JobSkipsRow, AbortRun, rowVars, workerVars
  <2> QED
    BY <1>2, <2>1
\* The clock stops for a claim whose handler is at the end of its budget.
<1>14. CASE Tick
  <2>1. /\ UNCHANGED <<handler, status>>
        /\ \A r \in Rows : WithinBudget(r)
        /\ \A r \in Rows : status[r] = "enriching" => claimAge'[r] = Older(claimAge[r], TTL + 1)
    BY <1>14 DEF Tick, workerVars
  <2>2. ASSUME NEW w \in Workers, NEW r \in Rows, handler[w][r] \in Holding, status[r] = "enriching"
        PROVE  claimAge'[r] <= HandlerBudget
    <3>1. claimAge[r] < HandlerBudget
      BY <2>1, <2>2 DEF WithinBudget
    <3> QED
      BY <1>b, <1>c, <2>1, <2>2, <3>1 DEF Older
  <2>3. ClaimsAreInTime'
    BY <1>a, <2>1, <2>2 DEF ClaimsAreInTime
  <2> QED
    BY <1>a, <2>1, <2>3 DEF HolderInv, OneHolder
<1>15. CASE UNCHANGED vars
  BY <1>15, <1>2 DEF vars, rowVars, workerVars
<1> QED
  BY <1>3, <1>4, <1>5, <1>6, <1>7, <1>8, <1>9, <1>10, <1>11, <1>12, <1>13, <1>14, <1>15
     DEF Next, HandlerStep, ProcessStep

\* While the handlers' budget is within the TTL, a row has at most one handler
\* behind its claim, whatever the workers' crashes and the order of the events.
THEOREM OneHolderPerRow ==
    ASSUME HandlerBudget <= TTL
    PROVE  Spec => []OneHolder
<1>1. HolderInv => OneHolder
  BY DEF HolderInv
<1>2. HolderInv /\ TypeOK' /\ [Next]_vars => HolderInv'
  BY HolderStep
<1> QED
  BY <1>1, <1>2, HolderInit, TypeCorrect, PTL DEF Spec

--------------------------------------------------------------------------------
(***************************************************************************)
(* The refinement.  A step that writes a status is a step of the board for  *)
(* its row, or is not seen there; a step that writes album_metadata is a    *)
(* Learn or is not seen.                                                    *)
(***************************************************************************)
Seen     == [r \in Rows |-> VerdictOf(status[r])]
KnownNow == [a \in Albums |-> album[a] # "none"]

\* A status step of a single row, with the albums as they are, is a step of the
\* board or a stutter of it.
LEMMA BoardSeesOneRow ==
    ASSUME IInv, NEW q \in Rows, StatusStep(q), UNCHANGED album,
           \A r \in Rows \ {q} : VerdictOf(status'[r]) = VerdictOf(status[r])
    PROVE  [Board!BoardNext]_(Board!boardVars)
<1>a. status[q] \in Statuses
  BY DEF IInv, TypeOK
<1>b. Seen' = [Seen EXCEPT ![q] = VerdictOf(status'[q])]
  BY DEF Seen
<1>c. KnownNow' = KnownNow
  BY DEF KnownNow
<1>d. Seen[q] = VerdictOf(status[q])
  BY DEF Seen
<1>e. Seen' = Seen <=> VerdictOf(status'[q]) = VerdictOf(status[q])
  BY <1>b, <1>d DEF Seen
<1> USE DEF Board!BoardNext, Board!boardVars, Seen, KnownNow
<1>1. CASE VerdictOf(status'[q]) = VerdictOf(status[q])
  BY <1>1, <1>c, <1>e DEF Seen
<1>2. CASE status[q] = "absent" /\ status'[q] = "pending"
  <2>1. Board!Enter(q)
    BY <1>2, <1>b, <1>c DEF Board!Enter, VerdictOf
  <2> QED
    BY <2>1
<1>3. CASE status[q] \in Present /\ status'[q] = "deleted"
  <2>1. Board!Remove(q)
    BY <1>3, <1>b, <1>c DEF Board!Remove, VerdictOf, Present, Terminal
  <2> QED
    BY <2>1
<1>4. CASE /\ status[q] \in {"pending", "enriching"}
           /\ status'[q] \in Answers \cup {"failed_no_retry"}
           /\ status'[q] \in Answers /\ Linked(q) => album[AlbumOf[q]] # "none"
  <2>1. VerdictOf(status'[q]) \in Board!Verdicts
    BY <1>4 DEF VerdictOf, Answers, Board!Verdicts
  <2>2. VerdictOf(status'[q]) = "failed" \/ Board!Readable(q)
    BY <1>4, LinkedAlbum DEF VerdictOf, Answers, Board!Readable, Linked
  <2>3. Board!Decide(q, VerdictOf(status'[q]))
    BY <1>4, <1>b, <1>c, <2>2 DEF Board!Decide, VerdictOf
  <2> QED
    BY <2>1, <2>3
<1>5. CASE /\ status[q] = "enriched_no_match"
           /\ status'[q] \in {"enriched_match", "failed_no_retry"}
  <2>1. VerdictOf(status'[q]) \in Board!Verdicts
    BY <1>5 DEF VerdictOf, Board!Verdicts
  <2>2. Board!Reconsider(q, VerdictOf(status'[q]))
    BY <1>5, <1>b, <1>c DEF Board!Reconsider, VerdictOf
  <2> QED
    BY <2>1, <2>2
<1>6. \/ VerdictOf(status'[q]) = VerdictOf(status[q])
      \/ status[q] = "absent" /\ status'[q] = "pending"
      \/ status[q] \in Present /\ status'[q] = "deleted"
      \/ /\ status[q] \in {"pending", "enriching"}
         /\ status'[q] \in Answers \cup {"failed_no_retry"}
         /\ status'[q] \in Answers /\ Linked(q) => album[AlbumOf[q]] # "none"
      \/ /\ status[q] = "enriched_no_match"
         /\ status'[q] \in {"enriched_match", "failed_no_retry"}
  <2>1. {status[q], status'[q]} \subseteq {"pending", "enriching"}
           => VerdictOf(status'[q]) = VerdictOf(status[q])
    BY DEF VerdictOf
  <2>2. FromStatus \in {"pending", "enriched_no_match"}
    BY DEF FromStatus
  <2> QED
    BY <2>1, <2>2 DEF StatusStep, Answers
<1> QED
  BY <1>1, <1>2, <1>3, <1>4, <1>5, <1>6

\* The workers, the sweep and the job together keep the promise of VerdictBoard:
\* a row waits, is answered once its album can be read, and keeps its answer.
THEOREM RefinesBoard == Spec => ImplementsBoard
<1>1. Init => Board!BoardInit
  BY DEF Init, Board!BoardInit, VerdictOf
<1>2. IInv /\ [Next]_vars => [Board!BoardNext]_(Board!boardVars)
  <2> SUFFICES ASSUME IInv, [Next]_vars PROVE [Board!BoardNext]_(Board!boardVars)
    OBVIOUS
  <2>1. CASE UNCHANGED <<status, album>>
    BY <2>1 DEF Board!boardVars
  <2>2. CASE UNCHANGED status /\ album' # album
    <3>1. PICK a : SaveMatch(a) \/ SaveNoMatch(a)
      BY <2>2 DEF Next, vars, InsertRow, DeleteRow, RotationResolved, LoseEvent, Tick,
         HandlerStep, Dispatch, ClaimWon, ClaimLost, Precheck, FinalizeFromCache,
         Answered, SaveAlbum, FinalizeRow, HandlerFails, ProcessStep, BeginShutdown,
         Stop, Start, Sweep, ReaskAlbum, JobStep, StartRun, BuildWorkList, FinishRun,
         LoadSlice, NextRow, JobAnswered, JobSaveAlbum, JobFinalize, JobWrite,
         JobWriteFails, StampDeadLetter, JobSkipsRow, AbortRun
    <3>2. CASE a \in Albums /\ album[a] = "none"
      <4>1. KnownNow' = [KnownNow EXCEPT ![a] = TRUE]
        BY <3>1, <3>2, SavesAreUpserts DEF KnownNow, IInv
      <4>2. Board!Learn(a)
        BY <4>1, <3>2, <2>2 DEF Board!Learn, KnownNow
      <4> QED
        BY <4>2, <3>2 DEF Board!BoardNext
    <3>3. CASE ~(a \in Albums /\ album[a] = "none")
      <4>1. KnownNow' = KnownNow
        BY <3>1, <3>3, SavesAreUpserts DEF KnownNow, IInv
      <4> QED
        BY <4>1, <2>2 DEF Board!boardVars, KnownNow
    <3> QED
      BY <3>2, <3>3
  <2>3. CASE status' # status /\ UNCHANGED album
    <3>1. \A r \in Rows : StatusStep(r)
      BY StatusSteps
    <3>2. ASSUME NEW q \in Rows, \A r \in Rows \ {q} : status'[r] = status[r]
          PROVE  [Board!BoardNext]_(Board!boardVars)
      BY <3>1, <3>2, <2>3, BoardSeesOneRow
    <3>3. ASSUME \A r \in Rows : \/ status'[r] = status[r]
                                 \/ {status[r], status'[r]} \subseteq {"pending", "enriching"}
          PROVE  [Board!BoardNext]_(Board!boardVars)
      <4>1. \A r \in Rows : VerdictOf(status'[r]) = VerdictOf(status[r])
        BY <3>3 DEF VerdictOf
      <4>2. Seen' = Seen
        BY <4>1 DEF Seen
      <4> QED
        BY <4>2, <2>3 DEF Board!boardVars, Seen
    <3>4. CASE Rows = {}
      BY <3>4, <2>3 DEF Board!boardVars
    <3> QED
      BY <3>2, <3>3, <3>4, StatusSteps
  <2> QED
    BY <2>1, <2>2, <2>3, StatusSteps
<1> QED
  BY <1>1, <1>2, InvariantHolds, PTL DEF Spec, ImplementsBoard, Board!BoardSpec

================================================================================
