------------------------------ MODULE Watermark ------------------------------
(***************************************************************************)
(* Conditional GETs: clients poll the flowsheet or the catalog export and  *)
(* are told 304 while a watermark in the database has not passed the       *)
(* Last-Modified they hold.  Triggers move the watermark inside the        *)
(* transactions that write the table.  The export is also cached in the    *)
(* process, by the watermark for which it was built.                       *)
(*                                                                         *)
(* Time is in half seconds: headers are compared in seconds, the cache     *)
(* compares exactly.  One clock serves the database and the backend, and   *)
(* one midnight of New York lies within the behaviour.                     *)
(***************************************************************************)
EXTENDS Naturals, FiniteSets

CONSTANTS
  Clients,    \* the callers that poll
  NoClient,
  Writers,    \* the transactions that write the table
  Midnight,   \* when the day changes: a whole second
  MaxTime,    \* bound of the clock
  MaxMark     \* bound of the watermark

ASSUME WatermarkAssumption ==
  /\ Midnight \in Nat /\ Midnight % 2 = 0 /\ MaxTime \in Nat /\ MaxMark \in Nat /\ MaxTime >= 2
  /\ Midnight <= MaxMark
  /\ IsFiniteSet(Writers) /\ NoClient \notin Clients

VARIABLES
  table,    \* the table that is polled: "flowsheet" or "library"
  now,      \* the clock
  mark,     \* the committed last_modified_at
  writer,   \* per transaction: its phase, its start, the mark it writes
  client,   \* per client: where its request is, and what it holds
  cached,   \* the published entry of the export cache: a mark and a payload
  inFlight, \* the build that reads at a mark join, and its mark
  still      \* did the last commit leave the second of the mark as it was?

watermarkVars == <<table, now, mark, writer, client, cached, inFlight, still>>

Larger(a, b) == IF a >= b THEN a ELSE b

Second(t) == t \div 2

Nothing == [set |-> FALSE, at |-> 0, data |-> {}, today |-> FALSE]
NoBuild == [by |-> NoClient, at |-> 0]

WatermarkTypeOK ==
  /\ table \in {"flowsheet", "library"} /\ still \in BOOLEAN
  /\ now \in 0..MaxTime /\ mark \in 0..MaxMark
  /\ writer \in [Writers -> [phase : {"idle", "open", "wrote", "done"},
                             start : 0..MaxTime, mark : 0..MaxMark]]
  /\ client \in [Clients ->
       [phase : {"idle", "passed", "looks", "builds", "scanned", "joined"},
        lastMod : 0..MaxMark, key : 0..MaxMark, data : SUBSET Writers, joins : Clients \cup {NoClient},
        held : [set : BOOLEAN, at : 0..MaxMark, data : SUBSET Writers, today : BOOLEAN]]]
  /\ cached \in [set : BOOLEAN, at : 0..MaxMark, data : SUBSET Writers, today : BOOLEAN]
  /\ inFlight \in [by : Clients \cup {NoClient}, at : 0..MaxMark]

WatermarkInit ==
  /\ table \in {"flowsheet", "library"}
  /\ now = 2 /\ mark = 0 /\ still = FALSE
  /\ writer = [w \in Writers |-> [phase |-> "idle", start |-> 0, mark |-> 0]]
  /\ client = [c \in Clients |->
       [phase |-> "idle", lastMod |-> 0, key |-> 0, data |-> {}, joins |-> NoClient,
        held |-> Nothing]]
  /\ cached = Nothing /\ inFlight = NoBuild

\* What is committed: the transactions whose changes a reader sees.
Stored == {w \in Writers : writer[w].phase = "done"}
Today == now >= Midnight

Advances ==
  /\ now < MaxTime /\ now' = now + 1
  /\ UNCHANGED <<table, mark, writer, client, cached, inFlight, still>>

-----------------------------------------------------------------------------
(* The writers                                                             *)

\* Mutant: the flowsheet has the formula of the catalog.
BumpedWithoutSecond(start, old) == Larger(start, old)

\* touch_flowsheet_watermark and touch_library_watermark: now() is the start
\* of the transaction, and only the flowsheet adds a second.
Bumped(start, old) ==
  IF table = "flowsheet" THEN Larger(start, old + 2) ELSE Larger(start, old)

Begin(w) ==
  /\ writer[w].phase = "idle"
  /\ writer' = [writer EXCEPT ![w].phase = "open", ![w].start = now]
  /\ UNCHANGED <<table, now, mark, client, cached, inFlight, still>>

\* A statement on what the answers are made of, and its trigger, which locks
\* the row of the watermark until the transaction ends.
Write(w) ==
  /\ writer[w].phase \in {"open", "wrote"}
  /\ \A x \in Writers \ {w} : writer[x].phase # "wrote"
  /\ LET old == IF writer[w].phase = "wrote" THEN writer[w].mark ELSE mark
         new == Bumped(writer[w].start, old)
     IN  /\ new <= MaxMark
         /\ writer' = [writer EXCEPT ![w].phase = "wrote", ![w].mark = new]
  /\ UNCHANGED <<table, now, mark, client, cached, inFlight, still>>

Commit(w) ==
  /\ writer[w].phase = "wrote"
  /\ mark' = writer[w].mark
  /\ still' = (Second(mark') = Second(mark))
  /\ writer' = [writer EXCEPT ![w].phase = "done"]
  /\ UNCHANGED <<table, now, client, cached, inFlight>>

\* The transaction fails; its writer may try again.
RollBack(w) ==
  /\ writer[w].phase \in {"open", "wrote"}
  /\ writer' = [writer EXCEPT ![w].phase = "idle", ![w].start = 0, ![w].mark = 0]
  /\ UNCHANGED <<table, now, mark, client, cached, inFlight, still>>

-----------------------------------------------------------------------------
(* The readers                                                             *)

\* getLastModifiedAt and getCatalogLastModifiedAt: the answers of the
\* flowsheet depend on the day as well.
Watermark ==
  IF table = "flowsheet" /\ Today THEN Larger(mark, Midnight) ELSE mark

\* What conditionalGet answers to a client that sends what it holds.
NotModified(c) ==
  client[c].held.set /\ Second(client[c].held.at) >= Second(Watermark)

\* conditionalGet lets the request through and sets Last-Modified; the header
\* holds whole seconds.
Passes(c) ==
  /\ client[c].phase = "idle" /\ ~NotModified(c)
  /\ client' = [client EXCEPT ![c].phase = "passed", ![c].lastMod = 2 * Second(Watermark)]
  /\ UNCHANGED <<table, now, mark, writer, cached, inFlight, still>>

\* The client cs[c] with its answer, and back at the start.
Answered(cs, c, data) ==
  [cs EXCEPT ![c] = [phase |-> "idle", lastMod |-> 0, key |-> 0, data |-> {},
     joins |-> NoClient,
     held |-> [set |-> TRUE, at |-> cs[c].lastMod, data |-> data, today |-> Today]]]

\* The handler of the flowsheet reads the table.
Reads(c) ==
  /\ table = "flowsheet" /\ client[c].phase = "passed"
  /\ client' = Answered(client, c, Stored)
  /\ UNCHANGED <<table, now, mark, writer, cached, inFlight, still>>

\* The export cache: get reads the watermark once more ...
ReadsMark(c) ==
  /\ table = "library" /\ client[c].phase = "passed"
  /\ client' = [client EXCEPT ![c].phase = "looks", ![c].key = mark]
  /\ UNCHANGED <<table, now, mark, writer, cached, inFlight, still>>

\* ... and answers from the entry for it, ...
Hit(c) == cached.set /\ cached.at = client[c].key
Joins(c) == inFlight.by # NoClient /\ inFlight.at = client[c].key

AnswersFromCache(c) ==
  /\ client[c].phase = "looks" /\ Hit(c)
  /\ client' = Answered(client, c, cached.data)
  /\ UNCHANGED <<table, now, mark, writer, cached, inFlight, still>>

\* ... joins the build for it, or starts one.
JoinsBuild(c) ==
  /\ client[c].phase = "looks" /\ ~Hit(c) /\ Joins(c)
  /\ client' = [client EXCEPT ![c].phase = "joined", ![c].joins = inFlight.by]
  /\ UNCHANGED <<table, now, mark, writer, cached, inFlight, still>>

StartsBuild(c) ==
  /\ client[c].phase = "looks" /\ ~Hit(c) /\ ~Joins(c)
  /\ client' = [client EXCEPT ![c].phase = "builds"]
  /\ inFlight' = [by |-> c, at |-> client[c].key]
  /\ UNCHANGED <<table, now, mark, writer, cached, still>>

Scans(c) ==
  /\ client[c].phase = "builds"
  /\ client' = [client EXCEPT ![c].phase = "scanned", ![c].data = Stored]
  /\ UNCHANGED <<table, now, mark, writer, cached, inFlight, still>>

\* A build that settles gives up its place, by its mark.
Cleared(c) == IF inFlight.at = client[c].key THEN NoBuild ELSE inFlight
Joined(c) == {d \in Clients : client[d].phase = "joined" /\ client[d].joins = c}

\* The build publishes unless a newer entry is there, and answers everyone
\* who waits for it.
Publishes(c) ==
  /\ client[c].phase = "scanned"
  /\ cached' = IF ~cached.set \/ client[c].key >= cached.at
               THEN [set |-> TRUE, at |-> client[c].key, data |-> client[c].data, today |-> FALSE]
               ELSE cached
  /\ inFlight' = Cleared(c)
  /\ client' = [d \in Clients |-> IF d \in Joined(c) \cup {c}
                                  THEN Answered(client, d, client[c].data)[d] ELSE client[d]]
  /\ UNCHANGED <<table, now, mark, writer, still>>

\* The build fails, for all who wait; nothing is cached.
BuildFails(c) ==
  /\ client[c].phase = "builds"
  /\ inFlight' = Cleared(c)
  /\ client' = [d \in Clients |->
       IF d \in Joined(c) \cup {c}
       THEN [client[d] EXCEPT !.phase = "idle", !.lastMod = 0, !.key = 0, !.joins = NoClient]
       ELSE client[d]]
  /\ UNCHANGED <<table, now, mark, writer, cached, still>>

WatermarkNext ==
  \/ Advances
  \/ \E w \in Writers : Begin(w) \/ Write(w) \/ Commit(w) \/ RollBack(w)
  \/ \E c \in Clients :
       \/ Passes(c) \/ Reads(c) \/ ReadsMark(c) \/ AnswersFromCache(c) \/ JoinsBuild(c)
       \/ StartsBuild(c) \/ Scans(c) \/ Publishes(c) \/ BuildFails(c)

WatermarkSpec == WatermarkInit /\ [][WatermarkNext]_watermarkVars

-----------------------------------------------------------------------------
(* Properties                                                              *)

\* The midnight of getLastModifiedAt covers the watermark of the table, which
\* has not come past the first second of the day.
Covered == table = "flowsheet" /\ Today /\ Second(mark) <= Second(Midnight)

\* Safety: a client that would be told 304 has missed nothing.  It holds
\* every committed change, unless the last commit to the catalog did not move
\* the second of its watermark, or midnight covers the watermark of the
\* flowsheet (in both cases the next commit that does better makes up for it);
\* and it holds an answer of today, unless it was told a time past midnight
\* before midnight was.
NothingIsMissed ==
  \A c \in Clients : NotModified(c) =>
    /\ client[c].held.data = Stored \/ (table = "library" /\ still) \/ Covered
    /\ (table = "flowsheet" /\ client[c].held.at < Midnight) => client[c].held.today = Today

\* What 0104_library-watermark.sql says of the formula of the catalog: all it
\* gives up is to tell transactions of one second apart.  A change is missed
\* only if another transaction was stamped with the second of its own.
OnlySameSecondIsMissed ==
  table = "library" => \A c \in Clients : NotModified(c) =>
    \A w \in Stored \ client[c].held.data :
      \E x \in Stored \ {w} : Second(writer[x].start) = Second(writer[w].start)
=============================================================================
