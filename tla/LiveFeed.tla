------------------------------ MODULE LiveFeed ------------------------------
(***************************************************************************)
(* What a listener's client sees of the flowsheet (metadata-broadcast.ts). *)
(* The triggers of flowsheet and library NOTIFY every change; the backend  *)
(* handles the notifications in order, adds to a row the discogs-          *)
(* unavailable flag of its album, through a cache that a library change    *)
(* invalidates, and broadcasts it.  A row waits for its flag while others  *)
(* go on.  One action is one macrotask: what the promises chain onto a     *)
(* read that settles runs before anything else.                            *)
(***************************************************************************)
EXTENDS Places, SequencesExt

CONSTANTS Rows,         \* flowsheet rows, each a track
          Albums,       \* library rows
          AlbumOf,      \* the album of a row, or NoAlbum
          NoAlbum,      \* album_id is null
          Historical,   \* rows whose add_time is over 24 h old when they are inserted
          TerminalUpdates,  \* per row: the updates that leave a terminal metadata_status
          Reads,        \* bound: reads of the flags under way at once
          MaxVersions,  \* bound: versions of a row; the first is its INSERT
          MaxFlips,     \* bound: writes of a library row
          MaxLost       \* bound: notifications that never come

ASSUME FeedAssumption ==
  /\ AlbumOf \in [Rows -> Albums \cup {NoAlbum}]
  /\ NoAlbum \notin Albums
  /\ Historical \subseteq Rows
  /\ TerminalUpdates \in [Rows -> SUBSET (2 .. MaxVersions)]
  /\ Reads \subseteq Nat \ {0}
  /\ MaxVersions \in Nat \ {0}
  /\ MaxFlips \in Nat
  /\ MaxLost \in Nat

NoRead == 0

VARIABLES
  row,       \* versions of each flowsheet row that are committed
  flags,     \* writes of each library row that are committed
  stream,    \* notifications on the LISTEN connection
  cache,     \* per album: what a read saw, or {}
  inflight,  \* per album: the read that a lookup joins
  reads,     \* the reads under way
  sent,      \* the versions of each row that were broadcast, in order
  heard,     \* history: the last write of an album whose notification came
  lost       \* history: the notifications of rows and albums that never come

vars == <<row, flags, stream, cache, inflight, reads, sent, heard, lost>>

Versions == 1 .. MaxVersions
Plays == [row : Rows, version : Versions]
Changes == [album : Albums, version : 1 .. MaxFlips]
IsPlay(e) == "row" \in DOMAIN e

\* "saw" holds the version of the album that the query found, once it has.
FreeRead == [album |-> NoAlbum, saw |-> {}, poisoned |-> FALSE, waiters |-> << >>]

Init ==
  /\ row = [r \in Rows |-> 0]
  /\ flags = [a \in Albums |-> 0]
  /\ stream = << >>
  /\ cache = [a \in Albums |-> {}]
  /\ inflight = [a \in Albums |-> NoRead]
  /\ reads = [i \in Reads |-> FreeRead]
  /\ sent = [r \in Rows |-> << >>]
  /\ heard = [a \in Albums |-> 0]
  /\ lost = {}

UnderWay(i) == reads[i].album # NoAlbum

-----------------------------------------------------------------------------
(* The database: a change and its NOTIFY, unless the payload is too large  *)
(* or the trigger fails, which goes to a channel that only Sentry reads.   *)

Notify(e) ==
  \/ stream' = Append(stream, e) /\ UNCHANGED lost
  \/ Cardinality(lost) < MaxLost /\ lost' = lost \cup {e} /\ UNCHANGED stream

\* An INSERT of a track, by a DJ or by an import, then its UPDATEs: the claim
\* of the worker, the terminal status and later ones.
WriteRow(r) ==
  /\ row[r] < MaxVersions
  /\ row' = [row EXCEPT ![r] = @ + 1]
  /\ Notify([row |-> r, version |-> row'[r]])
  /\ UNCHANGED <<flags, cache, inflight, reads, sent, heard>>

WriteAlbum(a) ==
  /\ flags[a] < MaxFlips
  /\ flags' = [flags EXCEPT ![a] = @ + 1]
  /\ Notify([album |-> a, version |-> flags'[a]])
  /\ UNCHANGED <<row, cache, inflight, reads, sent, heard>>

\* The LISTEN connection breaks: what was on it is not sent again.
ConnectionBreaks ==
  /\ stream # << >>
  /\ Cardinality(lost \cup ToSet(stream)) <= MaxLost
  /\ lost' = lost \cup ToSet(stream)
  /\ stream' = << >>
  /\ UNCHANGED <<row, flags, cache, inflight, reads, sent, heard>>

-----------------------------------------------------------------------------
(* The handlers of onCdcEvent                                              *)

VersionsOf(plays, r) ==
  LET mine == AtPlaces(plays, {k \in DOMAIN plays : plays[k].row = r})
  IN  [k \in DOMAIN mine |-> mine[k].version]

Broadcast(plays) == sent' = [r \in Rows |-> sent[r] \o VersionsOf(plays, r)]

\* filterMetadataInsert and filterMetadataUpdate: a track that was played long
\* ago is an import, and an update is news when the enrichment is over.
PassesFilter(e) ==
  \/ e.version = 1 /\ e.row \notin Historical
  \/ e.version \in TerminalUpdates[e.row]

FilterOut(e) == ~PassesFilter(e) /\ UNCHANGED <<inflight, reads, sent>>

\* The lookup: no album or a cached flag sends the row at once, a read under
\* way is joined.
BroadcastAtOnce(e) ==
  /\ PassesFilter(e)
  /\ AlbumOf[e.row] # NoAlbum => cache[AlbumOf[e.row]] # {}
  /\ Broadcast(<<e>>)
  /\ UNCHANGED <<inflight, reads>>

\* Mutant: no coalescing.
JoinsNever(e) == e # e

Joins(e) == inflight[AlbumOf[e.row]] # NoRead

JoinRead(e) ==
  /\ reads' = [reads EXCEPT ![inflight[AlbumOf[e.row]]].waiters = Append(@, e)]
  /\ UNCHANGED inflight

StartRead(e, i) ==
  /\ ~UnderWay(i)
  /\ reads' = [reads EXCEPT ![i] =
       [FreeRead EXCEPT !.album = AlbumOf[e.row], !.waiters = <<e>>]]
  /\ inflight' = [inflight EXCEPT ![AlbumOf[e.row]] = i]

LookUp(e) ==
  /\ PassesFilter(e)
  /\ AlbumOf[e.row] # NoAlbum
  /\ cache[AlbumOf[e.row]] = {}
  /\ IF Joins(e) THEN JoinRead(e) ELSE \E i \in Reads : StartRead(e, i)
  /\ UNCHANGED sent

\* Mutant: the entry is dropped, but a read under way may still fill it.
InvalidateOnly(a) ==
  /\ cache' = [cache EXCEPT ![a] = {}]
  /\ inflight' = [inflight EXCEPT ![a] = NoRead]
  /\ UNCHANGED reads

\* invalidateDiscogsUnavailableFlags
Invalidate(a) ==
  /\ cache' = [cache EXCEPT ![a] = {}]
  /\ inflight' = [inflight EXCEPT ![a] = NoRead]
  /\ reads' = IF inflight[a] = NoRead THEN reads
              ELSE [reads EXCEPT ![inflight[a]].poisoned = TRUE]

HandlePlay ==
  /\ stream # << >> /\ IsPlay(Head(stream))
  /\ \/ FilterOut(Head(stream))
     \/ BroadcastAtOnce(Head(stream))
     \/ LookUp(Head(stream))
  /\ stream' = Tail(stream)
  /\ UNCHANGED <<row, flags, cache, heard, lost>>

HandleChange ==
  /\ stream # << >> /\ ~IsPlay(Head(stream))
  /\ Invalidate(Head(stream).album)
  /\ heard' = [heard EXCEPT ![Head(stream).album] = Head(stream).version]
  /\ stream' = Tail(stream)
  /\ UNCHANGED <<row, flags, sent, lost>>

-----------------------------------------------------------------------------
(* The reads                                                               *)

QueryRuns(i) ==
  /\ UnderWay(i) /\ reads[i].saw = {}
  /\ reads' = [reads EXCEPT ![i].saw = {flags[reads[i].album]}]
  /\ UNCHANGED <<row, flags, stream, cache, inflight, sent, heard, lost>>

\* Mutant: without the .finally, a read that is over can still be joined.
LeaveNever(i) == i = i /\ UNCHANGED inflight

Leave(i) ==
  inflight' = IF inflight[reads[i].album] = i
              THEN [inflight EXCEPT ![reads[i].album] = NoRead] ELSE inflight

\* .then, .finally, and the waiters in the order in which they came.
ReadSettles(i) ==
  /\ reads[i].saw # {}
  /\ cache' = IF reads[i].poisoned THEN cache
              ELSE [cache EXCEPT ![reads[i].album] = reads[i].saw]
  /\ Leave(i)
  /\ Broadcast(reads[i].waiters)
  /\ reads' = [reads EXCEPT ![i] = FreeRead]
  /\ UNCHANGED <<row, flags, stream, heard, lost>>

\* Mutant: no flag, no broadcast.
BroadcastNone(plays) == plays = plays /\ UNCHANGED sent

BroadcastBare(plays) == Broadcast(plays)

\* The rows go out without the flag, and nothing is cached.
ReadFails(i) ==
  /\ UnderWay(i)
  /\ Leave(i)
  /\ BroadcastBare(reads[i].waiters)
  /\ reads' = [reads EXCEPT ![i] = FreeRead]
  /\ UNCHANGED <<row, flags, stream, cache, heard, lost>>

\* 60 s pass, or 2000 other albums are used.
Expires(a) ==
  /\ cache[a] # {}
  /\ cache' = [cache EXCEPT ![a] = {}]
  /\ UNCHANGED <<row, flags, stream, inflight, reads, sent, heard, lost>>

Handle == HandlePlay \/ HandleChange

Next ==
  \/ \E r \in Rows : WriteRow(r)
  \/ \E a \in Albums : WriteAlbum(a) \/ Expires(a)
  \/ ConnectionBreaks
  \/ Handle
  \/ \E i \in Reads : QueryRuns(i) \/ ReadSettles(i) \/ ReadFails(i)

Spec == Init /\ [][Next]_vars

\* The event loop takes what has arrived, and a query ends.
Fairness ==
  /\ WF_vars(Handle)
  /\ \A i \in Reads : WF_vars(QueryRuns(i)) /\ WF_vars(ReadSettles(i))

FairSpec == Spec /\ Fairness

-----------------------------------------------------------------------------
(* Properties                                                              *)

\* The type invariant; a read that can be joined is under way for that album.
TypeOK ==
  /\ row \in [Rows -> 0 .. MaxVersions]
  /\ flags \in [Albums -> 0 .. MaxFlips]
  /\ stream \in Seq(Plays \cup Changes)
  /\ \A a \in Albums : cache[a] \subseteq 0 .. flags[a] /\ Cardinality(cache[a]) <= 1
  /\ inflight \in [Albums -> Reads \cup {NoRead}]
  /\ \A a \in Albums : inflight[a] # NoRead => reads[inflight[a]].album = a
  /\ \A i \in Reads :
       /\ reads[i].album \in Albums \cup {NoAlbum}
       /\ reads[i].saw \subseteq 0 .. MaxFlips
       /\ reads[i].poisoned \in BOOLEAN
       /\ reads[i].waiters \in Seq(Plays)
  /\ sent \in [Rows -> Seq(Versions)]
  /\ heard \in [Albums -> 0 .. MaxFlips]
  /\ lost \subseteq Plays \cup Changes

\* The cache never holds a flag that is older than a change the backend has
\* heard of, although a read that began before it may end after it (BS#1962).
CacheFresh == \A a \in Albums : \A saw \in cache[a] : saw >= heard[a]

Increasing(s) == \A j, k \in DOMAIN s : j < k => s[j] < s[k]

\* A client gets the versions of a row in order, each once, as long as no
\* change of its album was heard: a version that waits for a slow read is not
\* overtaken by the next one.
RowsInOrder ==
  \A r \in Rows : /\ IsInjective(sent[r])
                  /\ AlbumOf[r] = NoAlbum \/ heard[AlbumOf[r]] = 0 => Increasing(sent[r])

\* What is notified and passes the filters goes out, with or without its flag:
\* the INSERT of a track just played and every update with a terminal status,
\* whatever becomes of the read that it waits for.
EveryPlayGoesOut ==
  \A e \in Plays : PassesFilter(e) =>
    (row[e.row] >= e.version ~> e \in lost \/ e.version \in ToSet(sent[e.row]))
=============================================================================
