----------------------------- MODULE TablesProofs -----------------------------
(***************************************************************************)
(* Proofs about the protocols on single tables: Watermark, for any number  *)
(* of clients and of transactions, and ModeratorRoster, for any number of  *)
(* edits and of members.  The last section is about the run MCTables,      *)
(* which puts them beside the album row (AlbumMetadataProofs).             *)
(***************************************************************************)
EXTENDS MCTables, AlbumMetadataProofs

-----------------------------------------------------------------------------
(* Conditional GETs                                                        *)

LEMMA SecondFacts ==
  /\ \A a \in Nat : Second(a) \in Nat /\ Second(2 * Second(a)) = Second(a)
                    /\ 2 * Second(a) \in Nat /\ 2 * Second(a) <= a
  /\ \A a, b \in Nat : a <= b => Second(a) <= Second(b)
  /\ \A a, b \in Nat : a + 2 <= b => Second(a) < Second(b)
  /\ 2 * Second(Midnight) = Midnight
  BY WatermarkAssumption DEF Second

LEMMA BumpedFacts ==
  ASSUME NEW start \in Nat, NEW old \in Nat, Bumped(start, old) <= MaxMark
  PROVE  /\ Bumped(start, old) \in 0 .. MaxMark
         /\ old <= Bumped(start, old)
         /\ table = "flowsheet" => old + 2 <= Bumped(start, old)
  BY WatermarkAssumption DEF Bumped, Larger

\* What the type invariant says of the parts of the state.
Marks == 0 .. MaxMark
Answers == [set : BOOLEAN, at : Marks, data : SUBSET Writers, today : BOOLEAN]
WriterStates == [phase : {"idle", "open", "wrote", "done"}, start : 0 .. MaxTime, mark : Marks]
ClientStates ==
  [phase : {"idle", "passed", "looks", "builds", "scanned", "joined"}, lastMod : Marks,
   key : Marks, data : SUBSET Writers, joins : Clients \cup {NoClient}, held : Answers]
Builds == [by : Clients \cup {NoClient}, at : Marks]

LEMMA TypeParts ==
  WatermarkTypeOK <=>
    /\ table \in {"flowsheet", "library"} /\ still \in BOOLEAN
    /\ now \in 0 .. MaxTime /\ mark \in Marks
    /\ writer \in [Writers -> WriterStates] /\ client \in [Clients -> ClientStates]
    /\ cached \in Answers /\ inFlight \in Builds
  BY Zenon DEF WatermarkTypeOK, Marks, Answers, WriterStates, ClientStates, Builds

LEMMA ZeroIsAMark == 0 \in Marks /\ 0 \in 0 .. MaxTime /\ 2 \in 0 .. MaxTime
  BY WatermarkAssumption DEF Marks

LEMMA WatermarkTypeInit == WatermarkInit => WatermarkTypeOK
<1> SUFFICES ASSUME WatermarkInit PROVE WatermarkTypeOK
  OBVIOUS
<1> USE ZeroIsAMark DEF WatermarkInit
<1>1. Nothing \in Answers
  BY DEF Nothing, Answers
<1>2. NoBuild \in Builds
  BY DEF NoBuild, Builds
<1>3. writer \in [Writers -> WriterStates]
  BY DEF WriterStates
<1>4. client \in [Clients -> ClientStates]
  BY <1>1 DEF ClientStates
<1> QED
  BY <1>1, <1>2, <1>3, <1>4, TypeParts

\* The answers that the clients take away, and the state they are left in.
LEMMA AnsweredFacts ==
  ASSUME WatermarkTypeOK, NEW c \in Clients, NEW d \in SUBSET Writers
  PROVE  /\ Answered(client, c, d) \in [Clients -> ClientStates]
         /\ \A x \in Clients \ {c} : Answered(client, c, d)[x] = client[x]
         /\ Answered(client, c, d)[c] =
              [phase |-> "idle", lastMod |-> 0, key |-> 0, data |-> {}, joins |-> NoClient,
               held |-> [set |-> TRUE, at |-> client[c].lastMod, data |-> d, today |-> Today]]
<1> USE ZeroIsAMark, TypeParts
<1>1. Today \in BOOLEAN
  BY DEF Today
<1>2. [set |-> TRUE, at |-> client[c].lastMod, data |-> d, today |-> Today] \in Answers
  BY <1>1 DEF Answers, ClientStates
<1>3. [phase |-> "idle", lastMod |-> 0, key |-> 0, data |-> {}, joins |-> NoClient,
       held |-> [set |-> TRUE, at |-> client[c].lastMod, data |-> d, today |-> Today]]
         \in ClientStates
  BY <1>2 DEF ClientStates
<1> QED
  BY <1>3, Zenon DEF Answered

LEMMA WatermarkFacts ==
  ASSUME WatermarkTypeOK
  PROVE  /\ Watermark \in Nat /\ mark <= Watermark
         /\ 2 * Second(Watermark) \in Nat
         /\ 2 * Second(Watermark) \in Marks
         /\ Stored \in SUBSET Writers
         /\ table = "library" => Watermark = mark
         /\ table = "flowsheet" =>
              Watermark = mark \/ (Today /\ Watermark = Midnight /\ mark <= Midnight)
<1> USE WatermarkAssumption, TypeParts
<1>1. mark \in Nat
  BY DEF Marks
<1>2. Watermark \in Nat /\ mark <= Watermark
  BY <1>1 DEF Watermark, Larger
<1>3. table = "flowsheet" =>
        Watermark = mark \/ (Today /\ Watermark = Midnight /\ mark <= Midnight)
  BY <1>1 DEF Watermark, Larger
<1>4. table = "library" => Watermark = mark
  BY DEF Watermark
<1> QED
  BY <1>2, <1>3, <1>4, SecondFacts DEF Marks, Stored

LEMMA WatermarkTypeStep ==
  WatermarkTypeOK /\ [WatermarkNext]_watermarkVars => WatermarkTypeOK'
<1> SUFFICES ASSUME WatermarkTypeOK, [WatermarkNext]_watermarkVars PROVE WatermarkTypeOK'
  OBVIOUS
<1> USE ZeroIsAMark, TypeParts
<1>1. CASE UNCHANGED watermarkVars
  BY <1>1, Zenon DEF watermarkVars, WatermarkTypeOK
<1>2. CASE Advances
  BY <1>2, WatermarkAssumption DEF Advances, WatermarkTypeOK
<1>3. ASSUME NEW w \in Writers, Begin(w) \/ Write(w) \/ Commit(w) \/ RollBack(w)
      PROVE  WatermarkTypeOK'
  <2>1. writer[w] \in WriterStates /\ mark \in Nat /\ now \in 0 .. MaxTime
    BY DEF Marks
  <2>2. CASE Begin(w)
    <3>1. writer' \in [Writers -> WriterStates]
      BY <2>1, <2>2 DEF Begin, WriterStates
    <3> QED
      BY <2>2, <3>1, Zenon DEF Begin, WatermarkTypeOK, WriterStates, Marks
  <2>3. CASE Write(w)
    <3> DEFINE old == IF writer[w].phase = "wrote" THEN writer[w].mark ELSE mark
    <3>1. old \in Nat /\ writer[w].start \in Nat
      BY <2>1 DEF WriterStates, Marks
    <3>2. Bumped(writer[w].start, old) \in Marks
      BY <2>3, <3>1, BumpedFacts DEF Write, Marks
    <3>3. writer' \in [Writers -> WriterStates]
      BY <2>1, <2>3, <3>2 DEF Write, WriterStates
    <3> QED
      BY <2>3, <3>3, Zenon DEF Write, WatermarkTypeOK, WriterStates, Marks
  <2>4. CASE Commit(w)
    <3>1. writer' \in [Writers -> WriterStates] /\ mark' \in Marks
      BY <2>1, <2>4 DEF Commit, WriterStates
    <3>2. still' \in BOOLEAN
      BY <2>4 DEF Commit
    <3> QED
      BY <2>4, <3>1, <3>2, Zenon DEF Commit, WatermarkTypeOK, WriterStates, Marks
  <2>5. CASE RollBack(w)
    <3>1. writer' \in [Writers -> WriterStates]
      BY <2>1, <2>5 DEF RollBack, WriterStates
    <3> QED
      BY <2>5, <3>1, Zenon DEF RollBack, WatermarkTypeOK, WriterStates, Marks
  <2> QED
    BY <1>3, <2>2, <2>3, <2>4, <2>5
<1>4. ASSUME NEW c \in Clients, Passes(c) \/ Reads(c) \/ ReadsMark(c) \/ AnswersFromCache(c)
               \/ JoinsBuild(c) \/ StartsBuild(c) \/ Scans(c)
      PROVE  WatermarkTypeOK'
  <2>1. client[c] \in ClientStates /\ Stored \in SUBSET Writers /\ cached.data \in SUBSET Writers
    BY WatermarkFacts DEF Answers
  <2>2. client' \in [Clients -> ClientStates]
    <3>1. CASE Passes(c)
      BY <2>1, <3>1, WatermarkFacts DEF Passes, ClientStates
    <3>2. CASE Reads(c) \/ AnswersFromCache(c)
      <4>1. /\ Answered(client, c, Stored) \in [Clients -> ClientStates]
            /\ Answered(client, c, cached.data) \in [Clients -> ClientStates]
        BY <2>1, AnsweredFacts
      <4> QED
        BY <3>2, <4>1, Zenon DEF Reads, AnswersFromCache
    <3>3. CASE ReadsMark(c) \/ StartsBuild(c)
      BY <2>1, <3>3 DEF ReadsMark, StartsBuild, ClientStates
    <3>4. CASE JoinsBuild(c)
      BY <2>1, <3>4 DEF JoinsBuild, ClientStates, Builds
    <3>5. CASE Scans(c)
      BY <2>1, <3>5 DEF Scans, ClientStates
    <3> QED
      BY <1>4, <3>1, <3>2, <3>3, <3>4, <3>5
  <2>3. inFlight' \in Builds
    BY <1>4, <2>1 DEF Passes, Reads, ReadsMark, AnswersFromCache, JoinsBuild, StartsBuild, Scans,
                      Builds, ClientStates
  <2> QED
    BY <1>4, <2>2, <2>3, Zenon
       DEF Passes, Reads, ReadsMark, AnswersFromCache, JoinsBuild, StartsBuild, Scans,
           WatermarkTypeOK, ClientStates, Builds, Answers, Marks
<1>5. ASSUME NEW c \in Clients, Publishes(c) \/ BuildFails(c)
      PROVE  WatermarkTypeOK'
  <2>1. client[c] \in ClientStates
    OBVIOUS
  <2>2. Cleared(c) \in Builds
    BY DEF Cleared, NoBuild, Builds
  <2>3. CASE Publishes(c)
    <3>1. client' \in [Clients -> ClientStates]
      <4>1. client[c].data \in SUBSET Writers
        BY <2>1 DEF ClientStates
      <4>2. ASSUME NEW d \in Clients
            PROVE  Answered(client, d, client[c].data)[d] \in ClientStates
        BY <4>1, AnsweredFacts
      <4> QED
        BY <2>3, <4>2, Zenon DEF Publishes
    <3>2. cached' \in Answers
      <4>1. [set |-> TRUE, at |-> client[c].key, data |-> client[c].data, today |-> FALSE]
              \in Answers
        BY <2>1 DEF ClientStates, Answers
      <4> QED
        BY <2>3, <4>1, Zenon DEF Publishes
    <3> QED
      BY <2>2, <2>3, <3>1, <3>2, Zenon
         DEF Publishes, WatermarkTypeOK, ClientStates, Builds, Answers, Marks
  <2>4. CASE BuildFails(c)
    <3>1. client' \in [Clients -> ClientStates]
      BY <2>4, ZenonT(40) DEF BuildFails, ClientStates
    <3> QED
      BY <2>2, <2>4, <3>1, Zenon
         DEF BuildFails, WatermarkTypeOK, ClientStates, Builds, Answers, Marks
  <2> QED
    BY <1>5, <2>3, <2>4
<1> QED
  BY <1>1, <1>2, <1>3, <1>4, <1>5, Zenon DEF WatermarkNext

\* The state of the watermark, the transactions, the clients, the cache and the
\* build in flight has its types.
THEOREM WatermarkTypeCorrect == WatermarkSpec => []WatermarkTypeOK
  BY WatermarkTypeInit, WatermarkTypeStep, PTL DEF WatermarkSpec

-----------------------------------------------------------------------------
(* What an answer holds                                                    *)

\* An answer at a mark has come no further than the watermark, and all that is
\* committed is in it if it is of the watermark's second and the last commit
\* made that second.
UpTo(at, data) ==
  /\ Second(at) <= Second(mark)
  /\ Second(at) = Second(mark) /\ ~still => data = Stored

\* The mark of the day is handed out without being stored.
OfToday(at) == table = "flowsheet" /\ Today /\ at = Midnight

\* One transaction at a time has the row of the watermark, and its mark is past
\* the watermark that is committed: a second past it in the flowsheet.
OneHasTheRow ==
  \A w \in Writers : writer[w].phase = "wrote" =>
    /\ mark <= writer[w].mark
    /\ table = "flowsheet" => mark + 2 <= writer[w].mark
    /\ \A x \in Writers \ {w} : writer[x].phase # "wrote"

\* A request that has passed was told a time of the past; one of the export has
\* a key no older than that, and what it has scanned is up to its key.
RequestsAreInTime ==
  \A c \in Clients :
    /\ client[c].phase # "idle" =>
         Second(client[c].lastMod) <= Second(mark) \/ OfToday(client[c].lastMod)
    /\ client[c].phase \in {"looks", "builds", "scanned", "joined"} =>
         /\ table = "library"
         /\ Second(client[c].lastMod) <= Second(client[c].key)
         /\ Second(client[c].key) <= Second(mark)
    /\ client[c].phase = "scanned" => UpTo(client[c].key, client[c].data)

\* The build in flight, and every build that is waited for, runs, at the key of
\* those who wait.
BuildsRun ==
  /\ inFlight.by # NoClient => /\ client[inFlight.by].phase \in {"builds", "scanned"}
                               /\ client[inFlight.by].key = inFlight.at
  /\ \A c \in Clients : client[c].phase = "joined" =>
       /\ client[c].joins \in Clients
       /\ client[client[c].joins].phase \in {"builds", "scanned"}
       /\ client[client[c].joins].key = client[c].key

\* What clients and the cache hold is up to its mark.
HeldIsUpTo ==
  /\ \A c \in Clients :
       /\ client[c].held.set => \/ UpTo(client[c].held.at, client[c].held.data)
                                \/ OfToday(client[c].held.at)
       /\ client[c].held.today => Today
  /\ cached.set => UpTo(cached.at, cached.data)

FlowsheetMovesOn == table = "flowsheet" => ~still

WatermarkInv == /\ WatermarkTypeOK /\ OneHasTheRow /\ RequestsAreInTime /\ BuildsRun
                /\ HeldIsUpTo /\ FlowsheetMovesOn

LEMMA WatermarkInvInit == WatermarkInit => WatermarkInv
<1> SUFFICES ASSUME WatermarkInit PROVE WatermarkInv
  OBVIOUS
<1> USE DEF WatermarkInit
<1>1. OneHasTheRow /\ FlowsheetMovesOn
  BY DEF OneHasTheRow, FlowsheetMovesOn
<1>2. RequestsAreInTime /\ BuildsRun
  BY DEF RequestsAreInTime, BuildsRun, NoBuild
<1>3. HeldIsUpTo
  BY DEF HeldIsUpTo, Nothing
<1> QED
  BY <1>1, <1>2, <1>3, WatermarkTypeInit DEF WatermarkInv

\* A step that leaves requests and answers alone, and what is committed as it
\* was or past what it was.
LEMMA NoReaderMoves ==
  ASSUME WatermarkInv, UNCHANGED <<table, client, cached, inFlight>>, Today => Today',
         \/ UNCHANGED <<mark, still, Stored>>
         \/ Second(mark') >= Second(mark) /\ (~still' => Second(mark') > Second(mark)),
         mark \in Nat, mark' \in Nat
  PROVE  RequestsAreInTime' /\ BuildsRun' /\ HeldIsUpTo'
<1>1. BuildsRun'
  BY Zenon DEF WatermarkInv, BuildsRun
<1>2. Second(mark) \in Nat /\ Second(mark') \in Nat
  BY SecondFacts
<1>3. \A at \in Marks : Second(at) \in Nat
  BY SecondFacts, WatermarkAssumption DEF Marks
<1>4. WatermarkTypeOK
  BY DEF WatermarkInv
<1>5. RequestsAreInTime'
  <2> SUFFICES ASSUME NEW c \in Clients
               PROVE  /\ client[c].phase # "idle" =>
                           Second(client[c].lastMod) <= Second(mark') \/ OfToday(client[c].lastMod)'
                      /\ client[c].phase \in {"looks", "builds", "scanned", "joined"} =>
                           /\ table = "library"
                           /\ Second(client[c].lastMod) <= Second(client[c].key)
                           /\ Second(client[c].key) <= Second(mark')
                      /\ client[c].phase = "scanned" => UpTo(client[c].key, client[c].data)'
    BY DEF RequestsAreInTime
  <2>1. client[c] \in ClientStates
    BY <1>4, TypeParts
  <2>2. Second(client[c].lastMod) \in Nat /\ Second(client[c].key) \in Nat
    BY <1>3, <2>1 DEF ClientStates
  <2> QED
    BY <1>2, <2>2 DEF WatermarkInv, RequestsAreInTime, UpTo, OfToday
<1>6. HeldIsUpTo'
  <2>1. ASSUME NEW c \in Clients
        PROVE  /\ client[c].held.set => \/ UpTo(client[c].held.at, client[c].held.data)'
                                        \/ OfToday(client[c].held.at)'
               /\ client[c].held.today => Today'
    <3>1. client[c].held \in Answers
      BY <1>4, TypeParts DEF ClientStates
    <3>2. Second(client[c].held.at) \in Nat
      BY <1>3, <3>1 DEF Answers
    <3> QED
      BY <1>2, <3>2 DEF WatermarkInv, HeldIsUpTo, UpTo, OfToday
  <2>2. cached.set => UpTo(cached.at, cached.data)'
    <3>1. Second(cached.at) \in Nat
      BY <1>3, <1>4, TypeParts DEF Answers
    <3> QED
      BY <1>2, <3>1 DEF WatermarkInv, HeldIsUpTo, UpTo
  <2> QED
    BY <2>1, <2>2 DEF HeldIsUpTo
<1> QED
  BY <1>1, <1>5, <1>6

LEMMA WritersKeepWatermarkInv ==
  ASSUME WatermarkInv, WatermarkTypeOK', NEW w \in Writers,
         Begin(w) \/ Write(w) \/ Commit(w) \/ RollBack(w)
  PROVE  WatermarkInv'
<1>1. /\ WatermarkTypeOK /\ mark \in Nat /\ mark' \in Nat /\ now \in Nat
      /\ \A x \in Writers : writer[x] \in WriterStates
      /\ writer \in [Writers -> WriterStates]
  BY TypeParts DEF WatermarkInv, WatermarkTypeOK
<1>2. UNCHANGED <<table, now, client, cached, inFlight>> /\ (Today => Today')
  BY DEF Begin, Write, Commit, RollBack, Today
<1>3. CASE Begin(w) \/ RollBack(w)
  <2>1. UNCHANGED <<mark, still, Stored>>
    <3>1. UNCHANGED <<mark, still>> /\ writer[w].phase # "done"
      BY <1>3 DEF Begin, RollBack
    <3>2. writer'[w].phase # "done" /\ \A x \in Writers \ {w} : writer'[x] = writer[x]
      BY <1>1, <1>3 DEF Begin, RollBack, WriterStates
    <3> QED
      BY <3>1, <3>2 DEF Stored
  <2>2. OneHasTheRow'
    BY <1>1, <1>3 DEF Begin, RollBack, OneHasTheRow, WatermarkInv, WriterStates
  <2> QED
    BY <1>1, <1>2, <2>1, <2>2, NoReaderMoves DEF WatermarkInv, FlowsheetMovesOn
<1>4. CASE Write(w)
  <2>1. UNCHANGED <<mark, still, Stored>>
    BY <1>1, <1>4 DEF Write, Stored
  <2>2. OneHasTheRow'
    <3> DEFINE old == IF writer[w].phase = "wrote" THEN writer[w].mark ELSE mark
               new == Bumped(writer[w].start, old)
    <3>1. old \in Nat /\ writer[w].start \in Nat /\ mark <= old
      BY <1>1 DEF WatermarkInv, OneHasTheRow, WriterStates, Marks
    <3>2. new \in Nat /\ old <= new /\ (table = "flowsheet" => old + 2 <= new)
      BY <1>4, <3>1, BumpedFacts DEF Write
    <3>3. writer' = [writer EXCEPT ![w].phase = "wrote", ![w].mark = new]
      BY <1>4 DEF Write
    <3> HIDE DEF old, new
    <3>4. mark <= new /\ (table = "flowsheet" => mark + 2 <= new)
      BY <1>1, <3>1, <3>2
    <3>5. \A x \in Writers \ {w} : writer'[x] = writer[x] /\ writer[x].phase # "wrote"
      BY <1>1, <1>4, <3>3 DEF Write
    <3>6. writer'[w].mark = new
      BY <1>1, <3>3 DEF WriterStates
    <3> QED
      BY <1>2, <2>1, <3>4, <3>5, <3>6 DEF OneHasTheRow
  <2> QED
    BY <1>1, <1>2, <2>1, <2>2, NoReaderMoves DEF WatermarkInv, FlowsheetMovesOn
<1>5. CASE Commit(w)
  <2>1. mark' = writer[w].mark /\ mark <= mark' /\ (table = "flowsheet" => mark + 2 <= mark')
    BY <1>1, <1>5 DEF Commit, WatermarkInv, OneHasTheRow
  <2>2. Second(mark) <= Second(mark') /\ (table = "flowsheet" => Second(mark) < Second(mark'))
    BY <1>1, <2>1, SecondFacts
  <2>3. (still' <=> Second(mark') = Second(mark)) /\ Second(mark) \in Nat /\ Second(mark') \in Nat
    BY <1>1, <1>5, SecondFacts DEF Commit
  <2>4. Second(mark') >= Second(mark) /\ (~still' => Second(mark') > Second(mark))
    BY <2>2, <2>3
  <2>5. OneHasTheRow'
    BY <1>1, <1>5 DEF Commit, OneHasTheRow, WatermarkInv, WriterStates
  <2>6. FlowsheetMovesOn'
    BY <1>2, <2>2, <2>3 DEF FlowsheetMovesOn
  <2> QED
    BY <1>1, <1>2, <2>4, <2>5, <2>6, NoReaderMoves DEF WatermarkInv
<1> QED
  BY <1>3, <1>4, <1>5

\* A step of one reader leaves the watermark and the transactions alone.
LEMMA ReadersLeaveTheRest ==
  ASSUME WatermarkInv, NEW c \in Clients, UNCHANGED <<table, now, mark, writer, still>>
  PROVE  /\ Stored' = Stored /\ (Today' <=> Today) /\ OneHasTheRow' /\ FlowsheetMovesOn'
         /\ \A at \in Marks, data \in SUBSET Writers : UpTo(at, data)' <=> UpTo(at, data)
         /\ \A at \in Marks : OfToday(at)' <=> OfToday(at)
<1>1. Stored' = Stored /\ (Today' <=> Today)
  BY DEF Stored, Today
<1>2. OneHasTheRow' /\ FlowsheetMovesOn'
  BY Zenon DEF WatermarkInv, OneHasTheRow, FlowsheetMovesOn
<1> QED
  BY <1>1, <1>2, Zenon DEF UpTo, OfToday

LEMMA PassesKeepsWatermarkInv ==
  ASSUME WatermarkInv, WatermarkTypeOK', NEW c \in Clients, Passes(c)
  PROVE  WatermarkInv'
<1>1. WatermarkTypeOK /\ UNCHANGED <<table, now, mark, writer, cached, inFlight, still>>
  BY DEF WatermarkInv, Passes
<1>2. client \in [Clients -> ClientStates] /\ mark \in Nat
  BY <1>1, TypeParts DEF Marks
<1>3. /\ client'[c].phase = "passed" /\ client'[c].held = client[c].held
      /\ client'[c].lastMod = 2 * Second(Watermark) /\ client[c].phase = "idle"
      /\ \A d \in Clients \ {c} : client'[d] = client[d]
  BY <1>2 DEF Passes, ClientStates
<1>4. Second(client'[c].lastMod) <= Second(mark) \/ OfToday(client'[c].lastMod)
  <2>1. Second(2 * Second(Watermark)) = Second(Watermark)
    BY <1>1, WatermarkFacts, SecondFacts
  <2>2. CASE Watermark = mark
    BY <1>2, <1>3, <2>1, <2>2, SecondFacts
  <2>3. CASE Watermark # mark
    BY <1>1, <1>3, <2>3, WatermarkFacts, SecondFacts, TypeParts DEF OfToday
  <2> QED
    BY <2>2, <2>3
<1>5. RequestsAreInTime'
  BY <1>1, <1>3, <1>4, ReadersLeaveTheRest, Zenon
     DEF WatermarkInv, RequestsAreInTime, UpTo, OfToday
<1>6. BuildsRun'
  <2>1. inFlight.by \in Clients \cup {NoClient}
    BY <1>1, TypeParts DEF Builds
  <2> QED
    BY <1>1, <1>3, <2>1 DEF WatermarkInv, BuildsRun
<1>7. HeldIsUpTo'
  BY <1>1, <1>3, ReadersLeaveTheRest, Zenon DEF WatermarkInv, HeldIsUpTo, UpTo, OfToday
<1> QED
  BY <1>1, <1>5, <1>6, <1>7, ReadersLeaveTheRest DEF WatermarkInv

\* The answers of the handler of the flowsheet and of the cache.
LEMMA AnswersKeepWatermarkInv ==
  ASSUME WatermarkInv, WatermarkTypeOK', NEW c \in Clients, Reads(c) \/ AnswersFromCache(c)
  PROVE  WatermarkInv'
<1>1. WatermarkTypeOK /\ UNCHANGED <<table, now, mark, writer, cached, inFlight, still>>
  BY DEF WatermarkInv, Reads, AnswersFromCache
<1>2. /\ client \in [Clients -> ClientStates] /\ mark \in Nat /\ cached \in Answers
      /\ Stored \in SUBSET Writers /\ client[c] \in ClientStates
  BY <1>1, TypeParts, WatermarkFacts DEF Marks
<1>3. PICK data \in SUBSET Writers :
        /\ client' = Answered(client, c, data)
        /\ UpTo(client[c].lastMod, data) \/ OfToday(client[c].lastMod)
        /\ client[c].phase \in {"passed", "looks"}
  <2>1. CASE Reads(c)
    BY <1>2, <2>1 DEF Reads, UpTo, WatermarkInv, RequestsAreInTime
  <2>2. CASE AnswersFromCache(c)
    <3>1. /\ cached.set /\ cached.at = client[c].key /\ client[c].phase = "looks"
          /\ client' = Answered(client, c, cached.data)
      BY <2>2 DEF AnswersFromCache, Hit
    <3>2. /\ Second(client[c].lastMod) <= Second(cached.at) /\ UpTo(cached.at, cached.data)
      BY <3>1 DEF WatermarkInv, RequestsAreInTime, HeldIsUpTo
    <3>3. Second(client[c].lastMod) \in Nat /\ Second(cached.at) \in Nat /\ Second(mark) \in Nat
      BY <1>2, SecondFacts, WatermarkAssumption DEF Answers, ClientStates, Marks
    <3>4. UpTo(client[c].lastMod, cached.data)
      BY <3>2, <3>3 DEF UpTo
    <3> QED
      BY <1>2, <3>1, <3>4 DEF Answers
  <2> QED
    BY <2>1, <2>2
<1>4. /\ \A d \in Clients \ {c} : client'[d] = client[d]
      /\ client'[c].phase = "idle"
      /\ client'[c].held = [set |-> TRUE, at |-> client[c].lastMod, data |-> data, today |-> Today]
  <2>1. /\ \A d \in Clients \ {c} : Answered(client, c, data)[d] = client[d]
        /\ Answered(client, c, data)[c] =
             [phase |-> "idle", lastMod |-> 0, key |-> 0, data |-> {}, joins |-> NoClient,
              held |-> [set |-> TRUE, at |-> client[c].lastMod, data |-> data, today |-> Today]]
    BY <1>1, AnsweredFacts, Zenon
  <2> QED
    BY <1>3, <2>1
<1>5. RequestsAreInTime'
  BY <1>1, <1>4, ReadersLeaveTheRest, Zenon
     DEF WatermarkInv, RequestsAreInTime, UpTo, OfToday
<1>6. BuildsRun'
  <2>1. inFlight.by \in Clients \cup {NoClient}
    BY <1>1, TypeParts DEF Builds
  <2> QED
    BY <1>1, <1>3, <1>4, <2>1 DEF WatermarkInv, BuildsRun
<1>7. HeldIsUpTo'
  <2>1. ASSUME NEW d \in Clients
        PROVE  /\ client'[d].held.set => \/ UpTo(client'[d].held.at, client'[d].held.data)
                                         \/ OfToday(client'[d].held.at)
               /\ client'[d].held.today => Today
    BY <1>3, <1>4 DEF WatermarkInv, HeldIsUpTo
  <2> QED
    BY <1>1, <2>1, ReadersLeaveTheRest, Zenon DEF WatermarkInv, HeldIsUpTo, UpTo, OfToday
<1> QED
  BY <1>1, <1>5, <1>6, <1>7, ReadersLeaveTheRest DEF WatermarkInv

\* The steps of a reader of the export before its build is published.
LEMMA CacheStepsKeepWatermarkInv ==
  ASSUME WatermarkInv, WatermarkTypeOK', NEW c \in Clients,
         ReadsMark(c) \/ JoinsBuild(c) \/ StartsBuild(c) \/ Scans(c)
  PROVE  WatermarkInv'
<1>1. WatermarkTypeOK /\ UNCHANGED <<table, now, mark, writer, cached, still>>
  BY DEF WatermarkInv, ReadsMark, JoinsBuild, StartsBuild, Scans
<1>2. /\ client \in [Clients -> ClientStates] /\ mark \in Nat /\ client[c] \in ClientStates
      /\ NoClient \notin Clients /\ inFlight.by \in Clients \cup {NoClient}
  BY <1>1, TypeParts, WatermarkAssumption DEF Marks, Builds
<1>3. /\ \A d \in Clients \ {c} : client'[d] = client[d]
      /\ client'[c].held = client[c].held /\ client'[c].lastMod = client[c].lastMod
  BY <1>2 DEF ReadsMark, JoinsBuild, StartsBuild, Scans, ClientStates
<1>4. /\ Second(client[c].lastMod) \in Nat /\ Second(client[c].key) \in Nat /\ Second(mark) \in Nat
  BY <1>2, SecondFacts, WatermarkAssumption DEF ClientStates, Marks
<1>5. HeldIsUpTo'
  BY <1>1, <1>3, ReadersLeaveTheRest, Zenon DEF WatermarkInv, HeldIsUpTo, UpTo, OfToday
<1>6. CASE ReadsMark(c)
  <2>1. /\ client'[c].phase = "looks" /\ client'[c].key = mark /\ table = "library"
        /\ client[c].phase = "passed" /\ UNCHANGED inFlight
    BY <1>2, <1>6 DEF ReadsMark, ClientStates
  <2>2. Second(client[c].lastMod) <= Second(mark)
    BY <2>1 DEF WatermarkInv, RequestsAreInTime, OfToday
  <2>3. RequestsAreInTime'
    BY <1>1, <1>3, <1>4, <2>1, <2>2, ReadersLeaveTheRest
       DEF WatermarkInv, RequestsAreInTime, UpTo, OfToday
  <2>4. BuildsRun'
    BY <1>2, <1>3, <2>1 DEF WatermarkInv, BuildsRun
  <2> QED
    BY <1>1, <1>5, <2>3, <2>4, ReadersLeaveTheRest DEF WatermarkInv
<1>7. CASE JoinsBuild(c) \/ StartsBuild(c)
  <2>1. /\ client'[c].phase \in {"joined", "builds"} /\ client'[c].key = client[c].key
        /\ client[c].phase = "looks"
    BY <1>2, <1>7 DEF JoinsBuild, StartsBuild, ClientStates
  <2>2. RequestsAreInTime'
    BY <1>1, <1>3, <2>1, ReadersLeaveTheRest
       DEF WatermarkInv, RequestsAreInTime, UpTo, OfToday
  <2>3. BuildsRun'
    <3>1. CASE JoinsBuild(c)
      <4>1. /\ client'[c].joins = inFlight.by /\ inFlight.by \in Clients
            /\ inFlight.at = client[c].key /\ UNCHANGED inFlight
        BY <1>2, <3>1 DEF JoinsBuild, Joins, ClientStates
      <4> QED
        BY <1>2, <1>3, <2>1, <4>1 DEF WatermarkInv, BuildsRun
    <3>2. CASE StartsBuild(c)
      <4>1. /\ client'[c].phase = "builds" /\ inFlight' = [by |-> c, at |-> client[c].key]
        BY <1>2, <3>2 DEF StartsBuild, ClientStates
      <4> QED
        BY <1>2, <1>3, <2>1, <4>1 DEF WatermarkInv, BuildsRun
    <3> QED
      BY <1>7, <3>1, <3>2
  <2> QED
    BY <1>1, <1>5, <2>2, <2>3, ReadersLeaveTheRest DEF WatermarkInv
<1>8. CASE Scans(c)
  <2>1. /\ client'[c].phase = "scanned" /\ client'[c].key = client[c].key
        /\ client'[c].data = Stored /\ client[c].phase = "builds" /\ UNCHANGED inFlight
        /\ client'[c].joins = client[c].joins
    BY <1>2, <1>8 DEF Scans, ClientStates
  <2>2. RequestsAreInTime'
    BY <1>1, <1>3, <2>1, ReadersLeaveTheRest
       DEF WatermarkInv, RequestsAreInTime, UpTo, OfToday
  <2>3. BuildsRun'
    BY <1>2, <1>3, <2>1 DEF WatermarkInv, BuildsRun
  <2> QED
    BY <1>1, <1>5, <2>2, <2>3, ReadersLeaveTheRest DEF WatermarkInv
<1> QED
  BY <1>6, <1>7, <1>8

\* A build that settles, with an answer for all who wait or without.
LEMMA SettlingKeepsWatermarkInv ==
  ASSUME WatermarkInv, WatermarkTypeOK', NEW c \in Clients, Publishes(c) \/ BuildFails(c)
  PROVE  WatermarkInv'
<1>1. /\ WatermarkTypeOK /\ UNCHANGED <<table, now, mark, writer, still>>
      /\ inFlight' = Cleared(c) /\ client[c].phase \in {"builds", "scanned"}
  BY DEF WatermarkInv, Publishes, BuildFails
<1>2. /\ client \in [Clients -> ClientStates] /\ mark \in Nat
      /\ NoClient \notin Clients /\ inFlight.by \in Clients \cup {NoClient}
      /\ Joined(c) \subseteq Clients /\ table = "library"
  BY <1>1, TypeParts, WatermarkAssumption DEF Marks, Builds, Joined, WatermarkInv, RequestsAreInTime
<1> DEFINE Settled == Joined(c) \cup {c}
<1>3. \A d \in Clients : d \notin Settled => client'[d] = client[d]
  BY DEF Publishes, BuildFails
<1>4. ASSUME NEW d \in Settled
      PROVE  /\ client'[d].phase = "idle"
             /\ Publishes(c) => client'[d].held = [set |-> TRUE, at |-> client[d].lastMod,
                                                   data |-> client[c].data, today |-> Today]
             /\ BuildFails(c) => client'[d].held = client[d].held
  <2>1. d \in Clients /\ client[c].data \in SUBSET Writers
    BY <1>2 DEF ClientStates
  <2>2. CASE Publishes(c)
    <3>1. client'[d] = Answered(client, d, client[c].data)[d] /\ ~BuildFails(c)
      BY <2>1, <2>2 DEF Publishes, BuildFails
    <3>2. Answered(client, d, client[c].data)[d] =
            [phase |-> "idle", lastMod |-> 0, key |-> 0, data |-> {}, joins |-> NoClient,
             held |-> [set |-> TRUE, at |-> client[d].lastMod, data |-> client[c].data,
                       today |-> Today]]
      BY <1>1, <2>1, AnsweredFacts, Zenon
    <3> QED
      BY <3>1, <3>2
  <2>3. CASE BuildFails(c)
    <3>1. client'[d] = [client[d] EXCEPT !.phase = "idle", !.lastMod = 0, !.key = 0,
                                         !.joins = NoClient]
      BY <2>1, <2>3, Zenon DEF BuildFails
    <3>2. ~Publishes(c)
      BY <2>3 DEF BuildFails, Publishes
    <3> QED
      BY <1>2, <2>1, <3>1, <3>2 DEF ClientStates
  <2> QED
    BY <2>2, <2>3
<1>5. ASSUME NEW d \in Settled, client[c].phase = "scanned"
      PROVE  UpTo(client[d].lastMod, client[c].data)
  <2>1. d \in Clients /\ client[d].key = client[c].key
        /\ client[d].phase \in {"builds", "scanned", "joined"}
    BY <1>1, <1>2 DEF Joined, WatermarkInv, BuildsRun
  <2>2. /\ Second(client[d].lastMod) <= Second(client[c].key)
        /\ UpTo(client[c].key, client[c].data)
    BY <1>5, <2>1 DEF WatermarkInv, RequestsAreInTime
  <2>3. /\ Second(client[d].lastMod) \in Nat /\ Second(client[c].key) \in Nat
        /\ Second(mark) \in Nat
    BY <1>2, <2>1, SecondFacts, WatermarkAssumption DEF ClientStates, Marks
  <2> QED
    BY <2>2, <2>3 DEF UpTo
<1>6. RequestsAreInTime'
  BY <1>1, <1>3, <1>4, ReadersLeaveTheRest, Zenon
     DEF WatermarkInv, RequestsAreInTime, UpTo, OfToday
<1>7. BuildsRun'
  <2>1. inFlight'.by # NoClient => /\ inFlight' = inFlight /\ inFlight.at # client[c].key
    BY <1>1 DEF Cleared, NoBuild
  <2>2. inFlight'.by # NoClient => inFlight.by \notin Settled
    BY <1>2, <2>1 DEF WatermarkInv, BuildsRun, Joined
  <2>3. ASSUME NEW d \in Clients, client'[d].phase = "joined"
        PROVE  d \notin Settled /\ client[d].joins \notin Settled
    BY <1>1, <1>3, <1>4, <2>3 DEF WatermarkInv, BuildsRun, Joined
  <2> QED
    BY <1>2, <1>3, <2>1, <2>2, <2>3 DEF WatermarkInv, BuildsRun
<1>8. HeldIsUpTo'
  <2>1. ASSUME NEW d \in Clients
        PROVE  /\ client'[d].held.set => \/ UpTo(client'[d].held.at, client'[d].held.data)
                                         \/ OfToday(client'[d].held.at)
               /\ client'[d].held.today => Today
    <3>1. CASE d \notin Settled \/ BuildFails(c)
      BY <1>3, <1>4, <3>1 DEF WatermarkInv, HeldIsUpTo
    <3>2. CASE d \in Settled /\ Publishes(c)
      <4>1. client[c].phase = "scanned"
        BY <3>2 DEF Publishes
      <4>2. UpTo(client[d].lastMod, client[c].data)
        BY <1>5, <3>2, <4>1
      <4>3. client'[d].held = [set |-> TRUE, at |-> client[d].lastMod, data |-> client[c].data,
                               today |-> Today]
        BY <1>4, <3>2, Zenon
      <4> QED
        BY <4>2, <4>3
    <3> QED
      BY <3>1, <3>2
  <2>2. cached'.set => UpTo(cached'.at, cached'.data)
    <3>1. CASE Publishes(c)
      BY <3>1 DEF Publishes, WatermarkInv, HeldIsUpTo, RequestsAreInTime
    <3>2. CASE BuildFails(c)
      BY <3>2 DEF BuildFails, WatermarkInv, HeldIsUpTo
    <3> QED
      BY <3>1, <3>2
  <2> QED
    BY <1>1, <2>1, <2>2, ReadersLeaveTheRest, Zenon DEF HeldIsUpTo, UpTo, OfToday
<1> QED
  BY <1>1, <1>6, <1>7, <1>8, ReadersLeaveTheRest DEF WatermarkInv

LEMMA WatermarkInvStep == WatermarkInv /\ [WatermarkNext]_watermarkVars => WatermarkInv'
<1> SUFFICES ASSUME WatermarkInv, [WatermarkNext]_watermarkVars PROVE WatermarkInv'
  OBVIOUS
<1>1. WatermarkTypeOK'
  BY WatermarkTypeStep DEF WatermarkInv
<1>2. ASSUME UNCHANGED <<table, mark, writer, client, cached, inFlight, still>>, Today => Today'
      PROVE  WatermarkInv'
  <2>1. UNCHANGED Stored /\ mark \in Nat /\ OneHasTheRow' /\ FlowsheetMovesOn'
    BY <1>2, TypeParts DEF Stored, WatermarkInv, OneHasTheRow, FlowsheetMovesOn, Marks
  <2> QED
    BY <1>1, <1>2, <2>1, NoReaderMoves DEF WatermarkInv
<1>3. CASE UNCHANGED watermarkVars
  BY <1>2, <1>3 DEF watermarkVars, Today
<1>4. CASE Advances
  <2>1. now \in Nat /\ now' = now + 1
    BY <1>4, TypeParts DEF Advances, WatermarkInv
  <2>2. Today => Today'
    BY <2>1, WatermarkAssumption DEF Today
  <2> QED
    BY <1>2, <1>4, <2>2 DEF Advances
<1>5. ASSUME NEW w \in Writers, Begin(w) \/ Write(w) \/ Commit(w) \/ RollBack(w)
      PROVE  WatermarkInv'
  BY <1>1, <1>5, WritersKeepWatermarkInv
<1>6. ASSUME NEW c \in Clients, \/ Passes(c) \/ Reads(c) \/ ReadsMark(c) \/ AnswersFromCache(c)
                                \/ JoinsBuild(c) \/ StartsBuild(c) \/ Scans(c) \/ Publishes(c)
                                \/ BuildFails(c)
      PROVE  WatermarkInv'
  BY <1>1, <1>6, PassesKeepsWatermarkInv, AnswersKeepWatermarkInv, CacheStepsKeepWatermarkInv,
     SettlingKeepsWatermarkInv
<1> QED
  BY <1>3, <1>4, <1>5, <1>6, Zenon DEF WatermarkNext

LEMMA WatermarkInvImplies == WatermarkInv => NothingIsMissed
<1> SUFFICES ASSUME WatermarkInv, NEW c \in Clients, NotModified(c)
             PROVE  /\ client[c].held.data = Stored \/ (table = "library" /\ still) \/ Covered
                    /\ (table = "flowsheet" /\ client[c].held.at < Midnight)
                         => client[c].held.today = Today
  BY DEF NothingIsMissed
<1> DEFINE held == client[c].held
<1>1. /\ WatermarkTypeOK /\ held \in Answers /\ mark \in Nat /\ Midnight \in Nat
      /\ table \in {"flowsheet", "library"}
  BY TypeParts, WatermarkAssumption DEF WatermarkInv, ClientStates, Marks
<1>2. /\ held.set /\ Second(held.at) >= Second(Watermark)
      /\ UpTo(held.at, held.data) \/ OfToday(held.at)
      /\ held.today => Today
  BY DEF NotModified, WatermarkInv, HeldIsUpTo
<1>3. /\ held.at \in Nat /\ held.today \in BOOLEAN /\ Today \in BOOLEAN
      /\ Watermark \in Nat /\ mark <= Watermark
  BY <1>1, WatermarkFacts, WatermarkAssumption DEF Answers, Marks, Today
<1>4. /\ Second(held.at) \in Nat /\ Second(mark) \in Nat /\ Second(mark) <= Second(Watermark)
      /\ Second(Watermark) \in Nat /\ 2 * Second(held.at) <= held.at
      /\ 2 * Second(Midnight) = Midnight /\ Second(Midnight) \in Nat
  BY <1>1, <1>3, SecondFacts
<1>5. held.data = Stored \/ (table = "library" /\ still) \/ Covered
  <2>1. CASE UpTo(held.at, held.data)
    BY <1>1, <1>2, <1>4, <2>1 DEF UpTo, WatermarkInv, FlowsheetMovesOn
  <2>2. CASE OfToday(held.at)
    BY <1>2, <1>4, <2>2 DEF OfToday, Covered
  <2> QED
    BY <1>2, <2>1, <2>2
<1>6. ASSUME table = "flowsheet", held.at < Midnight
      PROVE  held.today = Today
  <2>1. ~Today
    <3>1. SUFFICES ASSUME Today PROVE FALSE
      OBVIOUS
    <3>2. Midnight <= Watermark
      BY <1>1, <1>6, <3>1 DEF Watermark, Larger
    <3>3. Second(Midnight) <= Second(Watermark)
      BY <1>1, <1>3, <3>2, SecondFacts
    <3> QED
      BY <1>1, <1>2, <1>3, <1>4, <1>6, <3>3
  <2> QED
    BY <1>2, <1>3, <2>1
<1> QED
  BY <1>5, <1>6

\* A client that would be told 304 has missed nothing, but for what the last
\* commit to the catalog hid in its second and what midnight covers.
THEOREM NoChangeIsMissed == WatermarkSpec => []NothingIsMissed
<1>1. WatermarkSpec => []WatermarkInv
  BY WatermarkInvInit, WatermarkInvStep, PTL DEF WatermarkSpec
<1> QED
  BY <1>1, WatermarkInvImplies, PTL

-----------------------------------------------------------------------------
(* The moderator roster                                                    *)

EditStates == [phase : Phases, expected : SUBSET Members, desired : SUBSET Members,
               deletes : SUBSET Members, inserts : SUBSET Members]

LEMMA RosterTypeParts ==
  RosterTypeOK <=>
    /\ roster \in UNION {[S -> Edits \cup {Nobody}] : S \in SUBSET Members}
    /\ locker \in Edits \cup {Nobody} /\ edit \in [Edits -> EditStates]
  BY Zenon DEF RosterTypeOK, EditStates

LEMMA CurrentFacts ==
  ASSUME RosterTypeOK
  PROVE  /\ Current \in SUBSET Members /\ roster \in [Current -> Edits \cup {Nobody}]
         /\ \A e \in Edits : Missing(e) \in SUBSET Members
<1>1. PICK S \in SUBSET Members : roster \in [S -> Edits \cup {Nobody}]
  BY RosterTypeParts
<1>2. Current = S
  BY <1>1 DEF Current
<1> QED
  BY <1>1, <1>2, RosterTypeParts DEF Missing, EditStates

LEMMA RosterTypeInit == RosterInit => RosterTypeOK
<1> SUFFICES ASSUME RosterInit PROVE RosterTypeOK
  OBVIOUS
<1>1. PICK S \in SUBSET Members : roster = [m \in S |-> Nobody]
  BY DEF RosterInit
<1>2. roster \in [S -> Edits \cup {Nobody}]
  BY <1>1
<1>3. edit \in [Edits -> EditStates]
  BY DEF RosterInit, EditStates, Phases
<1> QED
  BY <1>2, <1>3, RosterTypeParts DEF RosterInit

LEMMA RosterTypeStep == RosterTypeOK /\ [RosterNext]_rosterVars => RosterTypeOK'
<1> SUFFICES ASSUME RosterTypeOK, [RosterNext]_rosterVars PROVE RosterTypeOK'
  OBVIOUS
<1>1. CASE UNCHANGED rosterVars
  BY <1>1, Zenon DEF rosterVars, RosterTypeOK
<1>2. ASSUME NEW e \in Edits,
             \/ OpensPicker(e) \/ Locks(e) \/ Compares(e) \/ Refuses(e)
             \/ Deletes(e) \/ Inserts(e) \/ Commits(e) \/ RollsBack(e)
      PROVE  RosterTypeOK'
  <2>1. /\ edit \in [Edits -> EditStates] /\ edit[e] \in EditStates
        /\ Current \in SUBSET Members /\ Missing(e) \in SUBSET Members
    BY CurrentFacts, RosterTypeParts
  <2>2. edit' \in [Edits -> EditStates]
    BY <1>2, <2>1 DEF OpensPicker, Locks, Compares, Refuses, Deletes, Inserts, Commits, RollsBack,
                      EditStates, Phases
  <2>3. locker' \in Edits \cup {Nobody}
    BY <1>2, RosterTypeParts, Zenon
       DEF OpensPicker, Locks, Compares, Refuses, Deletes, Inserts, Commits, RollsBack
  <2>4. roster' \in UNION {[S -> Edits \cup {Nobody}] : S \in SUBSET Members}
    <3>1. CASE Commits(e)
      <4> DEFINE S == (Current \ edit[e].deletes) \cup edit[e].inserts
      <4>1. S \in SUBSET Members
        BY <2>1 DEF EditStates
      <4>2. \A m \in S : (IF m \in edit[e].inserts THEN e ELSE roster[m]) \in Edits \cup {Nobody}
        BY CurrentFacts
      <4>3. roster' \in [S -> Edits \cup {Nobody}]
        BY <3>1, <4>2 DEF Commits
      <4> QED
        BY <4>1, <4>3
    <3>2. CASE ~Commits(e)
      BY <1>2, <3>2, RosterTypeParts, Zenon
         DEF OpensPicker, Locks, Compares, Refuses, Deletes, Inserts, RollsBack
    <3> QED
      BY <3>1, <3>2
  <2> QED
    BY <2>2, <2>3, <2>4, Zenon DEF RosterTypeOK, EditStates
<1> QED
  BY <1>1, <1>2, Zenon DEF RosterNext

\* The roster, the lock and the edits have their types.
THEOREM RosterTypeCorrect == RosterSpec => []RosterTypeOK
  BY RosterTypeInit, RosterTypeStep, PTL DEF RosterSpec

\* An edit at work holds the lock, ...
LockIsHeld ==
  \A e \in Edits :
    edit[e].phase \in {"locked", "compared", "deleted", "inserted"} => locker = e

\* ... so what it compared with, deleted and inserted stays true of the roster.
WorkIsCurrent ==
  \A e \in Edits :
    /\ edit[e].phase \in {"compared", "deleted", "inserted"} => Current = edit[e].expected
    /\ edit[e].phase \in {"deleted", "inserted"} => edit[e].deletes = Current \ edit[e].desired
    /\ edit[e].phase = "inserted" => edit[e].inserts = Missing(e)

RosterInv == RosterTypeOK /\ LockIsHeld /\ WorkIsCurrent

LEMMA RosterInvInit == RosterInit => RosterInv
  BY RosterTypeInit DEF RosterInit, RosterInv, LockIsHeld, WorkIsCurrent

LEMMA RosterInvStep == RosterInv /\ [RosterNext]_rosterVars => RosterInv'
<1> SUFFICES ASSUME RosterInv, [RosterNext]_rosterVars PROVE RosterInv'
  OBVIOUS
<1>1. RosterTypeOK'
  BY RosterTypeStep DEF RosterInv
<1>2. CASE UNCHANGED rosterVars
  BY <1>1, <1>2 DEF rosterVars, RosterInv, LockIsHeld, WorkIsCurrent, Current, Missing
<1>3. ASSUME NEW e \in Edits,
             \/ OpensPicker(e) \/ Locks(e) \/ Compares(e) \/ Refuses(e)
             \/ Deletes(e) \/ Inserts(e) \/ Commits(e) \/ RollsBack(e)
      PROVE  RosterInv'
  <2>1. edit \in [Edits -> EditStates] /\ edit[e] \in EditStates /\ Nobody \notin Edits
    BY RosterTypeParts, RosterAssumption DEF RosterInv
  <2>2. edit' \in [Edits -> EditStates] /\ \A x \in Edits \ {e} : edit'[x] = edit[x]
    BY <1>1, <1>3, <2>1, RosterTypeParts
       DEF OpensPicker, Locks, Compares, Refuses, Deletes, Inserts, Commits, RollsBack, EditStates,
           RosterTypeOK
  <2>3. CASE OpensPicker(e) \/ Locks(e) \/ Compares(e)
    <3>1. UNCHANGED <<roster, Current>>
      BY <2>3 DEF OpensPicker, Locks, Compares, Current
    <3>2. LockIsHeld'
      BY <2>1, <2>2, <2>3 DEF OpensPicker, Locks, Compares, LockIsFree, RosterInv, LockIsHeld,
                              EditStates
    <3>3. edit'[e].phase \in {"sent", "locked"} \/ (Compares(e) /\ edit'[e].phase = "compared"
             /\ edit'[e].expected = edit[e].expected)
      BY <2>1, <2>3 DEF OpensPicker, Locks, Compares, EditStates
    <3>4. WorkIsCurrent'
      BY <2>2, <3>1, <3>3 DEF Compares, Matches, RosterInv, WorkIsCurrent, Missing
    <3> QED
      BY <1>1, <3>2, <3>4 DEF RosterInv
  <2>4. CASE Deletes(e) \/ Inserts(e)
    <3>1. UNCHANGED <<roster, Current, locker>>
      BY <2>4 DEF Deletes, Inserts, Current
    <3>2. /\ edit'[e].expected = edit[e].expected /\ edit'[e].desired = edit[e].desired
          /\ \/ /\ edit[e].phase = "compared" /\ edit'[e].phase = "deleted"
                /\ edit'[e].deletes = Current \ edit[e].desired
             \/ /\ edit[e].phase = "deleted" /\ edit'[e].phase = "inserted"
                /\ edit'[e].deletes = edit[e].deletes /\ edit'[e].inserts = Missing(e)
      BY <2>1, <2>4 DEF Deletes, Inserts, EditStates
    <3>3. LockIsHeld'
      BY <2>2, <3>1, <3>2 DEF RosterInv, LockIsHeld
    <3>4. WorkIsCurrent'
      BY <2>2, <3>1, <3>2 DEF RosterInv, WorkIsCurrent, Missing
    <3> QED
      BY <1>1, <3>3, <3>4 DEF RosterInv
  <2>5. CASE Commits(e) \/ Refuses(e) \/ RollsBack(e)
    <3>1. /\ edit[e].phase \in {"locked", "compared", "deleted", "inserted"}
          /\ edit'[e].phase \in {"accepted", "refused", "failed"} /\ locker' = Nobody
      BY <2>1, <2>5 DEF Commits, Refuses, RollsBack, EditStates
    <3>2. \A x \in Edits :
            edit'[x].phase \notin {"locked", "compared", "deleted", "inserted"}
      BY <2>2, <3>1 DEF RosterInv, LockIsHeld
    <3> QED
      BY <1>1, <3>2 DEF RosterInv, LockIsHeld, WorkIsCurrent
  <2> QED
    BY <1>3, <2>3, <2>4, <2>5
<1> QED
  BY <1>2, <1>3, Zenon DEF RosterNext

\* An edit that is accepted replaces the roster its picker showed by the one
\* that was picked, and those who stay keep their record.
THEOREM EditsReplaceWhatTheySaw == RosterSpec => EditReplacesWhatItSaw
<1>1. RosterInv /\ [RosterNext]_rosterVars =>
        [\A e \in Edits : edit[e].phase = "inserted" /\ edit'[e].phase = "accepted" =>
           /\ Current = edit[e].expected
           /\ Current' = edit[e].desired
           /\ \A m \in Current \cap Current' : roster'[m] = roster[m]]_rosterVars
  <2> SUFFICES ASSUME RosterInv, RosterNext, NEW e \in Edits,
                      edit[e].phase = "inserted", edit'[e].phase = "accepted"
               PROVE  /\ Current = edit[e].expected
                      /\ Current' = edit[e].desired
                      /\ \A m \in Current \cap Current' : roster'[m] = roster[m]
    OBVIOUS
  <2>1. edit \in [Edits -> EditStates] /\ edit[e] \in EditStates /\ Current \in SUBSET Members
    BY RosterTypeParts, CurrentFacts DEF RosterInv
  <2>2. Commits(e)
    <3>1. PICK x \in Edits : \/ OpensPicker(x) \/ Locks(x) \/ Compares(x) \/ Refuses(x)
                             \/ Deletes(x) \/ Inserts(x) \/ Commits(x) \/ RollsBack(x)
      BY Zenon DEF RosterNext
    <3>2. x = e
      BY <2>1, <3>1 DEF OpensPicker, Locks, Compares, Refuses, Deletes, Inserts, Commits, RollsBack
    <3> QED
      BY <2>1, <3>1, <3>2
         DEF OpensPicker, Locks, Compares, Refuses, Deletes, Inserts, Commits, RollsBack, EditStates
  <2>3. /\ Current = edit[e].expected /\ edit[e].deletes = Current \ edit[e].desired
        /\ edit[e].inserts = edit[e].desired \ (Current \ edit[e].deletes)
    BY DEF RosterInv, WorkIsCurrent, Missing
  <2>4. /\ Current' = (Current \ edit[e].deletes) \cup edit[e].inserts
        /\ \A m \in Current' : roster'[m] = IF m \in edit[e].inserts THEN e ELSE roster[m]
    BY <2>2 DEF Commits, Current
  <2> QED
    BY <2>1, <2>3, <2>4 DEF EditStates
<1> QED
  BY <1>1, RosterInvInit, RosterInvStep, PTL DEF RosterSpec, EditReplacesWhatItSaw

-----------------------------------------------------------------------------
(* The parts side by side: what is proved of a part holds of the run        *)
(* MCTables, in which the others stand still.                               *)

LEMMA PartsStart == MCInit => Init /\ WatermarkInit /\ RosterInit
  BY DEF MCInit

LEMMA PartsStep ==
  [MCNext]_allVars => [Next]_vars /\ [WatermarkNext]_watermarkVars /\ [RosterNext]_rosterVars
<1>1. UNCHANGED allVars => UNCHANGED <<vars, watermarkVars, rosterVars>>
  BY DEF allVars
<1> QED
  BY <1>1 DEF MCNext, AlbumGoesOn, WatermarkGoesOn, RosterGoesOn

\* The types of the three.
THEOREM TablesPartsTypeCorrect == MCSpec => []PartsTypeOK
  BY PartsStart, PartsStep, AlbumTypeCorrect, WatermarkTypeCorrect, RosterTypeCorrect,
     PTL DEF MCSpec, Spec, WatermarkSpec, RosterSpec, PartsTypeOK
=============================================================================
