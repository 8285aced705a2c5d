----------------------------- MODULE MirrorProofs -----------------------------
(***************************************************************************)
(* Proofs about the mirror of the flowsheet (FlowsheetMirror), for any     *)
(* shows, any handlers and any number of entries and lost copies: the      *)
(* numbers lead to the right copies, no row is sent twice or sent back,    *)
(* and the nightly job heals a show in order.                              *)
(***************************************************************************)
EXTENDS FlowsheetMirror, Places, FiniteSetTheorems, TLAPS

-----------------------------------------------------------------------------
(* The inductive invariant.                                                *)

\* The types without the bound on the copies, which the steps do not look at.
LogRows == [show : Shows \cup {Stub}, type : {"show_start", "show_end", "track"},
         legacy : Nat, native : BOOLEAN, gone : BOOLEAN]
SentRows == [of : Nat, by : {"live", "job", "tubafrenzy"}, gone : BOOLEAN]
Steps == {"idle", "createShow", "startMarker", "signoff", "endMarker",
          "post", "persist", "update", "patch", "enqueue"}
CallRecs == [at : Steps, show : Shows \cup {Stub}, entry : EntryIds \cup {0}, id : Nat]
JobRecs == [at : {"idle", "create", "select", "entries", "post", "persist"},
            list : SUBSET Shows, todo : Seq(Nat), id : Nat]
ShowRecs == [phase : {"none", "open", "ended"}, mirrored : BOOLEAN,
             age : {"settling", "due", "aged"}]

Shape ==
  /\ show \in [Shows -> ShowRecs]
  /\ entry \in Seq(LogRows) /\ Len(entry) <= MaxEntries
  /\ tuba \in Seq(SentRows)
  /\ cache \in [EntryIds -> Nat]
  /\ call \in [Handlers -> CallRecs]
  /\ job \in JobRecs
  /\ deletes \subseteq DOMAIN tuba

Local(e) == e \in DOMAIN entry /\ ~entry[e].native
CopyOf(i, e) == i \in DOMAIN tuba /\ tuba[i].of = e

\* A number leads to the entry's own copy, and only what was logged here has one.
EntryTied(e) ==
  /\ entry[e].native => entry[e].legacy # 0 /\ entry[e].type = "track"
  /\ entry[e].legacy # 0 => entry[e].native \/ CopyOf(entry[e].legacy, e)
  /\ entry[e].legacy # 0 => entry[e].legacy \in DOMAIN tuba
EntriesTied == \A e \in DOMAIN entry : EntryTied(e)

CopyTied(i) ==
  /\ tuba[i].by = "tubafrenzy" => tuba[i].of = 0
  /\ tuba[i].by # "tubafrenzy" => Local(tuba[i].of)
CopiesTied == \A i \in DOMAIN tuba : CopyTied(i)

CacheTied == \A e \in EntryIds : cache[e] # 0 => CopyOf(cache[e], e)

CallTied(c) ==
  /\ c.at \in {"post", "persist"} => Local(c.entry)
  /\ c.at \in {"persist", "patch"} => CopyOf(c.id, c.entry)
  /\ c.at = "persist" => tuba[c.id].by = "live"
  /\ c.at = "update" => c.entry # 0
  /\ c.at = "enqueue" => c.id \in DOMAIN tuba \cup {0}
CallsTied == \A h \in Handlers : CallTied(call[h])

TiesInv == Shape /\ EntriesTied /\ CopiesTied /\ CacheTied /\ CallsTied

\* A handler that is to look for a marker of its show, and what was POSTed, or
\* is about to be.
SeeksBy(c, s, type) ==
  /\ c.show = s
  /\ \/ type = "show_start" /\ c.at \in {"createShow", "startMarker"}
     \/ type = "show_end" /\ c.at \in {"signoff", "endMarker"}
Seeks(h, s, type) == SeeksBy(call[h], s, type)
Reached(s, type) == show[s].phase = "ended" \/ (type = "show_start" /\ show[s].phase = "open")
Sent(e) == \E i \in DOMAIN tuba : tuba[i].of = e /\ tuba[i].by = "live"
Posting(h, e) == At(h, "post") /\ call[h].entry = e
Posted(e) == Sent(e) \/ \E h \in Handlers : Posting(h, e)
Marker(e, s, type) == e \in DOMAIN entry /\ entry[e].show = s /\ entry[e].type = type
MarkerTypes == {"show_start", "show_end"}

\* Each row is POSTed by one handler at most, once.
LiveOnce ==
  \A i, j \in DOMAIN tuba :
    tuba[i].by = "live" /\ tuba[j].by = "live" /\ tuba[i].of = tuba[j].of => i = j
PostsOnce ==
  \A h \in Handlers, e \in EntryIds : Posting(h, e) =>
    ~Sent(e) /\ \A k \in Handlers : Posting(k, e) => k = h

\* A marker is looked for by one handler, and before it is POSTed.
SeekOnce(h, s, type) ==
  /\ s \in Shows /\ Reached(s, type)
  /\ \A k \in Handlers : Seeks(k, s, type) => k = h
  /\ \A e \in DOMAIN entry : Marker(e, s, type) => ~Posted(e)
SeeksOnce ==
  \A h \in Handlers, s \in Shows \cup {Stub}, type \in MarkerTypes :
    Seeks(h, s, type) => SeekOnce(h, s, type)
MarkersReached ==
  \A s \in Shows \cup {Stub}, type \in MarkerTypes :
    \A e \in DOMAIN entry : Marker(e, s, type) => s \in Shows /\ Reached(s, type)

OnceInv == LiveOnce /\ PostsOnce /\ SeeksOnce /\ MarkersReached

\* What the job has in hand, lowest id first.
Listed(e) == \E k \in DOMAIN job.todo : job.todo[k] = e
HasCopy(e) == \E i \in DOMAIN tuba : tuba[i].of = e
JobTied ==
  /\ job.id # 0 <=> job.at = "persist"
  /\ job.at = "persist" => /\ job.todo # << >> /\ CopyOf(job.id, job.todo[1])
                           /\ tuba[job.id].by = "job"
  /\ \A j, k \in DOMAIN job.todo : j < k => job.todo[j] < job.todo[k]
ListedTied(e) ==
  Local(e) /\ (entry[e].legacy # 0 => tuba[entry[e].legacy].by # "job")

\* Before an entry on the job's list, an entry of its show that is there is on
\* the list too or has a copy.
Before(f, e) == f \in DOMAIN entry /\ f < e /\ ~entry[f].gone /\ ~entry[f].native
                /\ entry[f].show = entry[e].show
ListInOrder(e) == \A f \in DOMAIN entry : Before(f, e) => Listed(f) \/ HasCopy(f)
JobInv ==
  JobTied /\ \A k \in DOMAIN job.todo : ListedTied(job.todo[k]) /\ ListInOrder(job.todo[k])

MirrorInv == TiesInv /\ OnceInv /\ JobInv /\ HealedInOrder

-----------------------------------------------------------------------------
(* What a step leaves alone.                                               *)

EntriesKept ==
  \A e \in DOMAIN entry :
    /\ e \in DOMAIN entry'
    /\ entry'[e].show = entry[e].show /\ entry'[e].type = entry[e].type
    /\ entry'[e].native <=> entry[e].native
    /\ entry[e].gone => entry'[e].gone
CopiesKept ==
  \A i \in DOMAIN tuba :
    i \in DOMAIN tuba' /\ tuba'[i].of = tuba[i].of /\ tuba'[i].by = tuba[i].by
Kept == EntriesKept /\ CopiesKept

\* A row is inserted as one that was logged here, or with the number of a copy.
FreshRow(r) ==
  IF r.native THEN r.legacy # 0 /\ r.type = "track" ELSE r.legacy = 0
NewEntry(e) ==
  /\ e = Len(entry) + 1 /\ FreshRow(entry'[e])
  /\ entry'[e].legacy # 0 => entry'[e].legacy \in DOMAIN tuba'
NewNumber(e) ==
  /\ ~entry[e].native /\ entry'[e].legacy \in DOMAIN tuba
  /\ tuba[entry'[e].legacy].of = e
EntryStep ==
  /\ entry' \in Seq(LogRows) /\ Len(entry') <= MaxEntries /\ EntriesKept
  /\ \A e \in DOMAIN entry' : e \notin DOMAIN entry => NewEntry(e)
  /\ \A e \in DOMAIN entry : entry'[e].legacy = entry[e].legacy \/ NewNumber(e)
NumbersKept == \A e \in DOMAIN entry : entry'[e].legacy = entry[e].legacy
OnlyTracks == \A e \in DOMAIN entry' : e \notin DOMAIN entry => entry'[e].type = "track"

\* A row of tubafrenzy's own comes with its entry.
NewCopy(i) ==
  /\ i = Len(tuba) + 1
  /\ tuba'[i].by = "tubafrenzy" =>
       tuba'[i].of = 0 /\ \E e \in DOMAIN entry' : entry'[e].native /\ entry'[e].legacy = i
  /\ tuba'[i].by # "tubafrenzy" => Local(tuba'[i].of)
TubaStep ==
  /\ tuba' \in Seq(SentRows) /\ CopiesKept
  /\ \A i \in DOMAIN tuba' : i \notin DOMAIN tuba => NewCopy(i)
NoneBy(by) == \A i \in DOMAIN tuba' : i \notin DOMAIN tuba => tuba'[i].by # by

LEMMA AppendFacts ==
  ASSUME NEW S, NEW s \in Seq(S), NEW x \in S
  PROVE  /\ Append(s, x) \in Seq(S) /\ Len(Append(s, x)) = Len(s) + 1
         /\ Len(s) \in Nat /\ DOMAIN s = 1 .. Len(s)
         /\ DOMAIN Append(s, x) = DOMAIN s \cup {Len(s) + 1}
         /\ Len(s) + 1 \notin DOMAIN s
         /\ \A i \in DOMAIN s : Append(s, x)[i] = s[i] /\ s[i] \in S
         /\ Append(s, x)[Len(s) + 1] = x
OBVIOUS

LEMMA SetFacts ==
  ASSUME NEW S, NEW s \in Seq(S), NEW k \in DOMAIN s, NEW x \in S
  PROVE  /\ [s EXCEPT ![k] = x] \in Seq(S) /\ Len([s EXCEPT ![k] = x]) = Len(s)
         /\ DOMAIN [s EXCEPT ![k] = x] = DOMAIN s
         /\ \A i \in DOMAIN s : i # k => [s EXCEPT ![k] = x][i] = s[i]
         /\ [s EXCEPT ![k] = x][k] = x
         /\ \A i \in DOMAIN s : s[i] \in S
OBVIOUS

LEMMA EntrySame ==
  ASSUME Shape, UNCHANGED entry
  PROVE  EntryStep /\ NumbersKept /\ OnlyTracks
BY DEF Shape, EntryStep, EntriesKept, NumbersKept, OnlyTracks

LEMMA EntryAdded ==
  ASSUME Shape, NEW row \in LogRows, FreshRow(row), Insert(row),
         row.legacy # 0 => row.legacy \in DOMAIN tuba'
  PROVE  /\ EntryStep /\ NumbersKept
         /\ DOMAIN entry' = DOMAIN entry \cup {Len(entry) + 1}
         /\ Len(entry) + 1 \notin DOMAIN entry
         /\ \A e \in DOMAIN entry : entry'[e] = entry[e]
         /\ entry'[Len(entry) + 1] = row
<1>1. entry \in Seq(LogRows) /\ Len(entry) < MaxEntries /\ entry' = Append(entry, row)
  BY DEF Shape, Insert
<1>2. /\ entry' \in Seq(LogRows) /\ Len(entry') = Len(entry) + 1 /\ Len(entry) \in Nat
      /\ DOMAIN entry' = DOMAIN entry \cup {Len(entry) + 1}
      /\ Len(entry) + 1 \notin DOMAIN entry
      /\ \A e \in DOMAIN entry : entry'[e] = entry[e]
      /\ entry'[Len(entry) + 1] = row
  BY <1>1, AppendFacts
<1>3. Len(entry') <= MaxEntries
  BY <1>1, <1>2, MirrorAssumption
<1>4. EntriesKept /\ NumbersKept
  BY <1>2 DEF EntriesKept, NumbersKept
<1>5. ASSUME NEW e \in DOMAIN entry', e \notin DOMAIN entry PROVE NewEntry(e)
  BY <1>2, <1>5 DEF NewEntry
<1> QED
  BY <1>2, <1>3, <1>4, <1>5 DEF EntryStep, NumbersKept

\* "gone" is set, or the number.
LEMMA EntryChanged ==
  ASSUME Shape, NEW e \in DOMAIN entry, NEW row \in LogRows, entry' = [entry EXCEPT ![e] = row],
         row.show = entry[e].show, row.type = entry[e].type,
         row.native <=> entry[e].native, entry[e].gone => row.gone,
         \/ row.legacy = entry[e].legacy
         \/ ~entry[e].native /\ row.legacy \in DOMAIN tuba /\ tuba[row.legacy].of = e
  PROVE  /\ EntryStep /\ OnlyTracks
         /\ row.legacy = entry[e].legacy => NumbersKept
         /\ DOMAIN entry' = DOMAIN entry /\ entry'[e] = row
         /\ \A f \in DOMAIN entry : f # e => entry'[f] = entry[f]
<1>1. /\ entry' \in Seq(LogRows) /\ Len(entry') = Len(entry) /\ DOMAIN entry' = DOMAIN entry
      /\ \A f \in DOMAIN entry : f # e => entry'[f] = entry[f]
      /\ entry'[e] = row
  BY SetFacts DEF Shape
<1>2. EntriesKept
  BY <1>1 DEF EntriesKept
<1>3. \A f \in DOMAIN entry : entry'[f].legacy = entry[f].legacy \/ NewNumber(f)
  BY <1>1 DEF NewNumber
<1>4. row.legacy = entry[e].legacy => NumbersKept
  BY <1>1 DEF NumbersKept
<1> QED
  BY <1>1, <1>2, <1>3, <1>4 DEF EntryStep, OnlyTracks, Shape

LEMMA TubaSame ==
  ASSUME Shape, UNCHANGED tuba
  PROVE  TubaStep /\ \A by : NoneBy(by)
BY DEF Shape, TubaStep, CopiesKept, NoneBy

LEMMA TubaAdded ==
  ASSUME Shape, NEW e \in Nat, NEW by \in {"live", "job", "tubafrenzy"}, Create(e, by),
         by = "tubafrenzy" =>
           e = 0 /\ \E f \in DOMAIN entry' : entry'[f].native /\ entry'[f].legacy = NextCopy,
         by # "tubafrenzy" => Local(e)
  PROVE  /\ TubaStep
         /\ \A c \in {"live", "job", "tubafrenzy"} : c # by => NoneBy(c)
         /\ DOMAIN tuba' = DOMAIN tuba \cup {NextCopy} /\ NextCopy \notin DOMAIN tuba
         /\ \A i \in DOMAIN tuba : tuba'[i] = tuba[i]
         /\ tuba'[NextCopy].of = e /\ tuba'[NextCopy].by = by
         /\ NextCopy \in Nat \ {0}
         /\ \A i \in DOMAIN tuba : i < NextCopy
<1> DEFINE new == [of |-> e, by |-> by, gone |-> FALSE]
<1>1. tuba \in Seq(SentRows) /\ tuba' = Append(tuba, new) /\ new \in SentRows
  BY DEF Shape, Create, SentRows
<1>2. /\ tuba' \in Seq(SentRows)
      /\ DOMAIN tuba' = DOMAIN tuba \cup {NextCopy} /\ NextCopy \notin DOMAIN tuba
      /\ \A i \in DOMAIN tuba : tuba'[i] = tuba[i]
      /\ tuba'[NextCopy] = new /\ Len(tuba) \in Nat /\ DOMAIN tuba = 1 .. Len(tuba)
  <2> HIDE DEF new
  <2> QED BY <1>1, AppendFacts DEF NextCopy
<1>3. tuba'[NextCopy].of = e /\ tuba'[NextCopy].by = by
  BY <1>2
<1> HIDE DEF new
<1>4. CopiesKept
  BY <1>2 DEF CopiesKept
<1>5. ASSUME NEW i \in DOMAIN tuba', i \notin DOMAIN tuba PROVE NewCopy(i) /\ tuba'[i].by = by
  BY <1>2, <1>3, <1>5 DEF NewCopy, NextCopy
<1>6. NextCopy \in Nat \ {0} /\ \A i \in DOMAIN tuba : i < NextCopy
  BY <1>2 DEF NextCopy
<1> QED
  BY <1>2, <1>3, <1>4, <1>5, <1>6 DEF TubaStep, NoneBy

\* What EXCEPT makes of a row and of a copy.
LEMMA RowFacts ==
  ASSUME NEW r \in LogRows, NEW id \in Nat
  PROVE  /\ [r EXCEPT !.gone = TRUE] \in LogRows /\ [r EXCEPT !.legacy = id] \in LogRows
         /\ [r EXCEPT !.gone = TRUE].show = r.show /\ [r EXCEPT !.legacy = id].show = r.show
         /\ [r EXCEPT !.gone = TRUE].type = r.type /\ [r EXCEPT !.legacy = id].type = r.type
         /\ [r EXCEPT !.gone = TRUE].native <=> r.native
         /\ [r EXCEPT !.legacy = id].native <=> r.native
         /\ [r EXCEPT !.gone = TRUE].legacy = r.legacy /\ [r EXCEPT !.legacy = id].legacy = id
         /\ [r EXCEPT !.gone = TRUE].gone /\ ([r EXCEPT !.legacy = id].gone <=> r.gone)
BY DEF LogRows

LEMMA CopyFacts ==
  ASSUME NEW c \in SentRows
  PROVE  /\ [c EXCEPT !.gone = TRUE] \in SentRows
         /\ [c EXCEPT !.gone = TRUE].of = c.of
         /\ [c EXCEPT !.gone = TRUE].by = c.by
BY DEF SentRows

LEMMA TubaDeleted ==
  ASSUME Shape, NEW id \in DOMAIN tuba, Executed(id)
  PROVE  TubaStep /\ \A by : NoneBy(by)
<1>1. tuba \in Seq(SentRows) /\ tuba[id] \in SentRows
  BY DEF Shape
<1> DEFINE row == [tuba[id] EXCEPT !.gone = TRUE]
<1>2. tuba' = [tuba EXCEPT ![id] = row]
  BY DEF Executed
<1>3. row \in SentRows /\ row.of = tuba[id].of /\ row.by = tuba[id].by
  BY <1>1, CopyFacts
<1> HIDE DEF row
<1>4. /\ tuba' \in Seq(SentRows) /\ DOMAIN tuba' = DOMAIN tuba
      /\ \A i \in DOMAIN tuba : i # id => tuba'[i] = tuba[i]
      /\ tuba'[id] = row
  BY <1>1, <1>2, <1>3, SetFacts
<1>5. CopiesKept
  BY <1>3, <1>4 DEF CopiesKept
<1> QED
  BY <1>4, <1>5 DEF TubaStep, NoneBy

LEMMA EntryGoes ==
  ASSUME Shape, NEW e \in DOMAIN entry, entry' = [entry EXCEPT ![e].gone = TRUE]
  PROVE  EntryStep /\ OnlyTracks /\ NumbersKept
<1>1. entry[e] \in LogRows
  BY DEF Shape
<1> DEFINE row == [entry[e] EXCEPT !.gone = TRUE]
<1>2. entry' = [entry EXCEPT ![e] = row]
  OBVIOUS
<1>3. /\ row \in LogRows /\ row.show = entry[e].show /\ row.type = entry[e].type
      /\ row.native <=> entry[e].native
      /\ entry[e].gone => row.gone
      /\ row.legacy = entry[e].legacy
  BY <1>1, RowFacts, 0 \in Nat
<1> HIDE DEF row
<1> QED
  BY <1>2, <1>3, EntryChanged

LEMMA EntryNumbered ==
  ASSUME Shape, NEW e \in DOMAIN entry, NEW id \in DOMAIN tuba,
         entry' = [entry EXCEPT ![e].legacy = id],
         ~entry[e].native, tuba[id].of = e
  PROVE  /\ EntryStep /\ OnlyTracks
         /\ entry'[e].legacy = id
         /\ \A f \in DOMAIN entry : f # e => entry'[f].legacy = entry[f].legacy
<1>1. entry[e] \in LogRows /\ id \in Nat
  BY DEF Shape
<1> DEFINE row == [entry[e] EXCEPT !.legacy = id]
<1>2. entry' = [entry EXCEPT ![e] = row]
  OBVIOUS
<1>3. /\ row \in LogRows /\ row.show = entry[e].show /\ row.type = entry[e].type
      /\ row.native <=> entry[e].native
      /\ entry[e].gone => row.gone
      /\ row.legacy = id
  <2>1. PICK r \in LogRows : r = entry[e]
    BY <1>1
  <2>2. row = [r EXCEPT !.legacy = id]
    BY <2>1
  <2> HIDE DEF row
  <2>3. row \in LogRows
    BY <1>1, <2>2 DEF LogRows
  <2>7. row.legacy = id
    BY <2>2 DEF LogRows
  <2>4. row.show = r.show /\ row.type = r.type
    BY <1>1, <2>2, RowFacts
  <2>5. row.native <=> r.native
    BY <1>1, <2>2, RowFacts
  <2>6. row.gone <=> r.gone
    BY <1>1, <2>2, RowFacts
  <2> QED
    BY <2>1, <2>3, <2>4, <2>5, <2>6, <2>7
<1> HIDE DEF row
<1>4. /\ EntryStep /\ OnlyTracks /\ entry'[e] = row
      /\ \A f \in DOMAIN entry : f # e => entry'[f] = entry[f]
  BY <1>2, <1>3, EntryChanged, ZenonT(40)
<1> QED
  BY <1>3, <1>4

-----------------------------------------------------------------------------
(* The numbers lead to the right copies.                                   *)

LEMMA EntryStepTies ==
  ASSUME Shape, EntriesTied, EntryStep, TubaStep
  PROVE  EntriesTied'
<1> SUFFICES ASSUME NEW e \in DOMAIN entry' PROVE EntryTied(e)'
  BY DEF EntriesTied
<1>1. CASE e \notin DOMAIN entry
  <2>1. NewEntry(e)
    BY <1>1 DEF EntryStep
  <2> QED
    BY <2>1 DEF NewEntry, FreshRow, EntryTied
<1>2. CASE e \in DOMAIN entry
  <2>1. EntryTied(e) /\ (entry'[e].legacy = entry[e].legacy \/ NewNumber(e))
    BY <1>2 DEF EntriesTied, EntryStep
  <2>2. entry'[e].type = entry[e].type /\ (entry'[e].native <=> entry[e].native)
    BY <1>2 DEF EntryStep, EntriesKept
  <2>3. /\ \A i \in DOMAIN tuba : i \in DOMAIN tuba' /\ tuba'[i].of = tuba[i].of
        /\ 0 \notin DOMAIN tuba
    BY DEF TubaStep, CopiesKept, Shape
  <2>4. CASE entry'[e].legacy = entry[e].legacy
    BY <2>1, <2>2, <2>3, <2>4 DEF EntryTied, CopyOf
  <2>5. CASE NewNumber(e)
    BY <2>1, <2>2, <2>3, <2>5 DEF EntryTied, CopyOf, NewNumber
  <2> QED
    BY <2>1, <2>4, <2>5
<1> QED
  BY <1>1, <1>2

LEMMA TubaStepTies ==
  ASSUME CopiesTied, EntriesKept, TubaStep
  PROVE  CopiesTied'
<1>1. \A e : Local(e) => Local(e)'
  BY DEF EntriesKept, Local
<1> SUFFICES ASSUME NEW i \in DOMAIN tuba' PROVE CopyTied(i)'
  BY DEF CopiesTied
<1>2. CASE i \notin DOMAIN tuba
  <2>1. NewCopy(i)
    BY <1>2 DEF TubaStep
  <2> QED
    BY <1>1, <2>1 DEF NewCopy, CopyTied
<1>3. CASE i \in DOMAIN tuba
  <2>1. CopyTied(i) /\ tuba'[i].of = tuba[i].of /\ tuba'[i].by = tuba[i].by
    BY <1>3 DEF CopiesTied, TubaStep, CopiesKept
  <2> QED
    BY <1>1, <2>1 DEF CopyTied
<1> QED
  BY <1>2, <1>3

LEMMA CacheKept ==
  ASSUME CacheTied, CopiesKept, UNCHANGED cache
  PROVE  CacheTied'
BY DEF CacheTied, CopiesKept, CopyOf

LEMMA CallKept ==
  ASSUME Kept, NEW c, CallTied(c)
  PROVE  CallTied(c)'
BY DEF Kept, EntriesKept, CopiesKept, CallTied, CopyOf, Local

LEMMA CallsKept ==
  ASSUME CallsTied, Kept, UNCHANGED call
  PROVE  CallsTied'
<1> SUFFICES ASSUME NEW h \in Handlers PROVE CallTied(call[h])'
  BY DEF CallsTied
<1>1. CallTied(call[h])
  BY DEF CallsTied
<1> DEFINE c == call[h]
<1>2. CallTied(c)' /\ call'[h] = c
  BY <1>1, CallKept
<1> QED
  BY <1>2 DEF CallTied, CopyOf, Local

\* One handler goes on: to "c", a record that is tied after the step.
CallStep(h, c) == c \in CallRecs /\ CallTied(c)' /\ call' = [call EXCEPT ![h] = c]

LEMMA CallStepTies ==
  ASSUME Shape, CallsTied, Kept, NEW h \in Handlers, NEW c, CallStep(h, c)
  PROVE  /\ CallsTied' /\ call' \in [Handlers -> CallRecs] /\ call'[h] = c
         /\ \A k \in Handlers : k # h => call'[k] = call[k]
<1>1. /\ call' \in [Handlers -> CallRecs] /\ call'[h] = c
      /\ \A k \in Handlers : k # h => call'[k] = call[k]
  BY DEF Shape, CallStep
<1>2. ASSUME NEW k \in Handlers PROVE CallTied(call[k])'
  <2>1. CASE k = h
    <3>1. CallTied(c)' /\ call'[k] = c
      BY <1>1, <2>1 DEF CallStep
    <3> QED BY <3>1 DEF CallTied, CopyOf, Local
  <2>2. CASE k # h
    <3> DEFINE d == call[k]
    <3>1. CallTied(d)
      BY DEF CallsTied
    <3>2. CallTied(d)' /\ call'[k] = d
      BY <1>1, <2>2, <3>1, CallKept
    <3> QED BY <3>2 DEF CallTied, CopyOf, Local
  <2> QED
    BY <2>1, <2>2
<1> QED
  BY <1>1, <1>2 DEF CallsTied

LEMMA IdleTied ==
  Idle \in CallRecs /\ CallTied(Idle)'
BY DEF Idle, CallRecs, CallTied, Steps, Stub

-----------------------------------------------------------------------------
(* What every step does: the parts that change, and how.                   *)

ShowStep ==
  /\ show' \in [Shows -> ShowRecs]
  /\ \A s \in Shows : /\ show[s].phase = "ended" => show'[s].phase = "ended"
                      /\ show[s].phase = "open" => show'[s].phase \in {"open", "ended"}
Effects == ShowStep /\ EntryStep /\ TubaStep

CallsQuiet ==
  \A h \in Handlers :
    /\ call'[h].at = "post" => call[h].at = "post" /\ call'[h].entry = call[h].entry
    /\ \A s \in Shows \cup {Stub}, type \in MarkerTypes :
         SeeksBy(call'[h], s, type) => SeeksBy(call[h], s, type)
OnceQuiet == NoneBy("live") /\ OnlyTracks /\ CallsQuiet
JobQuiet ==
  /\ UNCHANGED job /\ NoneBy("job")
  /\ \A e \in DOMAIN entry :
       entry'[e].legacy # entry[e].legacy => tuba[entry'[e].legacy].by # "job"

LEMMA ShowSame ==
  ASSUME Shape, UNCHANGED show
  PROVE  ShowStep
BY DEF Shape, ShowStep

LEMMA ShowFacts ==
  ASSUME NEW r \in ShowRecs, NEW p \in {"none", "open", "ended"},
         NEW a \in {"settling", "due", "aged"}
  PROVE  /\ [r EXCEPT !.phase = p] \in ShowRecs /\ [r EXCEPT !.phase = p].phase = p
         /\ [r EXCEPT !.mirrored = TRUE] \in ShowRecs
         /\ [r EXCEPT !.mirrored = TRUE].phase = r.phase
         /\ [r EXCEPT !.age = a] \in ShowRecs /\ [r EXCEPT !.age = a].phase = r.phase
BY DEF ShowRecs

LEMMA ShowSet ==
  ASSUME Shape, NEW s \in Shows, NEW r \in ShowRecs, show' = [show EXCEPT ![s] = r],
         \/ r.phase = show[s].phase
         \/ r.phase = "open" /\ show[s].phase = "none"
         \/ r.phase = "ended" /\ show[s].phase = "open"
  PROVE  ShowStep /\ show'[s] = r
BY DEF Shape, ShowStep

LEMMA ShowMirrored ==
  ASSUME Shape, NEW s \in Shows, show' = [show EXCEPT ![s].mirrored = TRUE]
  PROVE  ShowStep
<1>1. PICK r \in ShowRecs : r = show[s]
  BY DEF Shape
<1> DEFINE q == [r EXCEPT !.mirrored = TRUE]
<1>2. show' = [show EXCEPT ![s] = q]
  BY <1>1
<1>3. q \in ShowRecs /\ q.phase = r.phase
  BY ShowFacts, "none" \in {"none", "open", "ended"}, "due" \in {"settling", "due", "aged"}
<1> HIDE DEF q
<1> QED
  BY <1>1, <1>2, <1>3, ShowSet

LEMMA ShowAges ==
  ASSUME Shape, NEW s \in Shows, NEW a \in {"due", "aged"}, show' = [show EXCEPT ![s].age = a]
  PROVE  ShowStep
<1>1. PICK r \in ShowRecs : r = show[s]
  BY DEF Shape
<1> DEFINE q == [r EXCEPT !.age = a]
<1>2. show' = [show EXCEPT ![s] = q]
  BY <1>1
<1>3. q \in ShowRecs /\ q.phase = r.phase
  BY ShowFacts, "none" \in {"none", "open", "ended"}, ZenonT(40)
<1> HIDE DEF q
<1> QED
  BY <1>1, <1>2, <1>3, ShowSet

LEMMA ShowPhase ==
  ASSUME Shape, NEW s \in Shows, NEW p \in {"open", "ended"}, show' = [show EXCEPT ![s].phase = p],
         show[s].phase = IF p = "open" THEN "none" ELSE "open"
  PROVE  ShowStep /\ show'[s].phase = p
<1>1. PICK r \in ShowRecs : r = show[s]
  BY DEF Shape
<1> DEFINE q == [r EXCEPT !.phase = p]
<1>2. show' = [show EXCEPT ![s] = q]
  BY <1>1
<1>3. q \in ShowRecs /\ q.phase = p
  BY ShowFacts, p \in {"none", "open", "ended"}, "due" \in {"settling", "due", "aged"}
<1> HIDE DEF q
<1> QED
  BY <1>1, <1>2, <1>3, ShowSet

LEMMA GotoSets ==
  ASSUME Shape, NEW h \in Handlers, NEW step \in Steps, NEW e \in EntryIds \cup {0},
         NEW id \in Nat, Goto(h, step, e, id)
  PROVE  LET c == [at |-> step, show |-> call[h].show, entry |-> e, id |-> id]
         IN c \in CallRecs /\ call' = [call EXCEPT ![h] = c]
<1>1. PICK d \in CallRecs : d = call[h]
  BY DEF Shape
<1>2. call' = [call EXCEPT ![h] = [d EXCEPT !.at = step, !.entry = e, !.id = id]]
  BY <1>1 DEF Goto
<1>3. [d EXCEPT !.at = step, !.entry = e, !.id = id]
      = [at |-> step, show |-> d.show, entry |-> e, id |-> id]
  <2>1. PICK at \in Steps, sh \in Shows \cup {Stub}, en \in EntryIds \cup {0}, no \in Nat :
          d = [at |-> at, show |-> sh, entry |-> en, id |-> no]
    BY DEF CallRecs
  <2>2. [d EXCEPT !.at = step] = [at |-> step, show |-> sh, entry |-> en, id |-> no]
    BY <2>1
  <2>3. [[at |-> step, show |-> sh, entry |-> en, id |-> no] EXCEPT !.entry = e]
        = [at |-> step, show |-> sh, entry |-> e, id |-> no]
    OBVIOUS
  <2>4. [[at |-> step, show |-> sh, entry |-> e, id |-> no] EXCEPT !.id = id]
        = [at |-> step, show |-> sh, entry |-> e, id |-> id]
    OBVIOUS
  <2>5. d.show = sh
    BY <2>1
  <2> QED
    BY <2>2, <2>3, <2>4, <2>5, Zenon
<1>4. [at |-> step, show |-> d.show, entry |-> e, id |-> id] \in CallRecs
  BY DEF CallRecs
<1> QED
  BY <1>1, <1>2, <1>3, <1>4

LEMMA QuietStep ==
  ASSUME NEW h \in Handlers, NEW c \in CallRecs, call' = [call EXCEPT ![h] = c], Shape,
         c.at # "post",
         \A s \in Shows \cup {Stub}, type \in MarkerTypes :
           SeeksBy(c, s, type) => SeeksBy(call[h], s, type)
  PROVE  CallsQuiet
<1>1. /\ call'[h] = c
      /\ \A k \in Handlers : k # h => call'[k] = call[k]
  BY DEF Shape
<1> QED
  BY <1>1 DEF CallsQuiet

LEMMA CallsSame ==
  ASSUME UNCHANGED call
  PROVE  CallsQuiet
BY DEF CallsQuiet

\* A step that hands a handler on to "c".
LEMMA HandlerTies ==
  ASSUME TiesInv, Effects, NEW h \in Handlers, NEW c, CallStep(h, c), UNCHANGED job,
         UNCHANGED cache \/ (CacheTied' /\ cache' \in [EntryIds -> Nat]),
         UNCHANGED deletes \/ deletes' \subseteq DOMAIN tuba'
  PROVE  TiesInv'
<1>1. Shape /\ EntriesTied /\ CopiesTied /\ CacheTied /\ CallsTied
  BY DEF TiesInv
<1>2. EntriesKept /\ CopiesKept /\ Kept /\ ShowStep /\ EntryStep /\ TubaStep
  BY DEF Effects, EntryStep, TubaStep, Kept
<1>3. EntriesTied' /\ CopiesTied' /\ CacheTied' /\ CallsTied'
      /\ call' \in [Handlers -> CallRecs]
  BY <1>1, <1>2, EntryStepTies, TubaStepTies, CacheKept, CallStepTies
<1>4. Shape'
  BY <1>1, <1>2, <1>3 DEF Shape, ShowStep, EntryStep, TubaStep, CopiesKept
<1> QED
  BY <1>3, <1>4 DEF TiesInv

\* A step of nobody's handler.
LEMMA OtherTies ==
  ASSUME TiesInv, Effects, UNCHANGED <<cache, call>>, job' \in JobRecs,
         deletes' \subseteq DOMAIN tuba'
  PROVE  TiesInv'
<1>1. Shape /\ EntriesTied /\ CopiesTied /\ CacheTied /\ CallsTied
  BY DEF TiesInv
<1>2. EntriesKept /\ CopiesKept /\ Kept /\ ShowStep /\ EntryStep /\ TubaStep
  BY DEF Effects, EntryStep, TubaStep, Kept
<1>3. EntriesTied' /\ CopiesTied' /\ CacheTied' /\ CallsTied'
  BY <1>1, <1>2, EntryStepTies, TubaStepTies, CacheKept, CallsKept
<1>4. Shape'
  BY <1>1, <1>2 DEF Shape, ShowStep, EntryStep, TubaStep
<1> QED
  BY <1>3, <1>4 DEF TiesInv

-----------------------------------------------------------------------------
(* The requests.                                                           *)

LEMMA QuietJobs ==
  ASSUME NumbersKept, NoneBy("job"), UNCHANGED job
  PROVE  JobQuiet
BY DEF NumbersKept, JobQuiet

LEMMA ReplyTies ==
  ASSUME TiesInv, Effects, NEW h \in Handlers, NEW step \in Steps, NEW s \in Shows \cup {Stub},
         NEW e \in EntryIds \cup {0}, NEW id \in Nat, Reply(h, step, s, e, id),
         CallTied([at |-> step, show |-> s, entry |-> e, id |-> id])',
         UNCHANGED <<cache, job, deletes>>
  PROVE  /\ TiesInv'
         /\ \/ UNCHANGED call
            \/ /\ call'[h] = [at |-> step, show |-> s, entry |-> e, id |-> id]
               /\ \A k \in Handlers : k # h => call'[k] = call[k]
<1> DEFINE c == [at |-> step, show |-> s, entry |-> e, id |-> id]
<1>1. c \in CallRecs
  BY DEF CallRecs
<1>2. CASE UNCHANGED call
  <2>1. job' \in JobRecs /\ deletes' \subseteq DOMAIN tuba'
    BY DEF TiesInv, Shape, Effects, TubaStep, CopiesKept
  <2> QED
    BY <1>2, <2>1, OtherTies
<1>3. CASE call' = [call EXCEPT ![h] = c]
  <2>1. CallStep(h, c)
    BY <1>1, <1>3 DEF CallStep
  <2>2. TiesInv'
    BY <2>1, HandlerTies
  <2>3. call'[h] = c /\ \A k \in Handlers : k # h => call'[k] = call[k]
    BY <1>3 DEF TiesInv, Shape
  <2> QED
    BY <2>2, <2>3
<1> QED
  BY <1>2, <1>3 DEF Reply

\* A request that logs no row and sends nothing to post, or look for a marker.
LEMMA ReplyQuiet ==
  ASSUME NEW h \in Handlers, NEW step \in {"update", "enqueue"}, NEW c, c.at = step,
         \/ UNCHANGED call
         \/ call'[h] = c /\ \A k \in Handlers : k # h => call'[k] = call[k]
  PROVE  CallsQuiet
BY DEF CallsQuiet, SeeksBy

LEMMA FreshRows ==
  ASSUME NEW s \in Shows \cup {Stub}, NEW type \in {"show_start", "show_end", "track"},
         NEW id \in Nat, id # 0 => type = "track"
  PROVE  /\ Row(s, type, id) \in LogRows /\ FreshRow(Row(s, type, id))
         /\ Row(s, type, id).show = s /\ Row(s, type, id).type = type
         /\ Row(s, type, id).legacy = id
BY DEF Row, LogRows, FreshRow

\* A row of its type is logged for the show, and a handler may be at its step.
Logged(h, s, type, step) ==
  /\ DOMAIN entry' = DOMAIN entry \cup {Len(entry) + 1}
  /\ entry'[Len(entry) + 1].show = s /\ entry'[Len(entry) + 1].type = type
  /\ \/ UNCHANGED call
     \/ /\ call'[h].at = step /\ call'[h].show = s
        /\ \A k \in Handlers : k # h => call'[k] = call[k]

LEMMA GoLiveStep ==
  ASSUME TiesInv, NEW h \in Handlers, NEW s \in Shows, GoLive(h, s)
  PROVE  /\ Effects /\ TiesInv' /\ NoneBy("live") /\ JobQuiet
         /\ Logged(h, s, "show_start", "createShow")
         /\ show[s].phase = "none" /\ show'[s].phase = "open"
<1>1. Shape /\ GoLive(h, s)
  BY DEF TiesInv
<1>8. PICK id \in Nat : id = 0
  OBVIOUS
<1>2. show[s].phase = "none" /\ show' = [show EXCEPT ![s].phase = "open"]
      /\ Insert(Row(s, "show_start", 0)) /\ Reply(h, "createShow", s, 0, id)
      /\ UNCHANGED <<tuba, cache, deletes, job>>
  BY <1>8 DEF GoLive
<1>3. ShowStep /\ show'[s].phase = "open"
  BY <1>1, <1>2, ShowPhase, "open" \in {"open", "ended"}
<1>4. /\ EntryStep /\ NumbersKept
      /\ DOMAIN entry' = DOMAIN entry \cup {Len(entry) + 1}
      /\ entry'[Len(entry) + 1].show = s /\ entry'[Len(entry) + 1].type = "show_start"
  <2>1. PICK row : row = Row(s, "show_start", 0)
    OBVIOUS
  <2>2. row \in LogRows /\ FreshRow(row) /\ row.legacy = 0 /\ row.show = s /\ row.type = "show_start"
    BY <2>1, FreshRows, 0 \in Nat, "show_start" \in {"show_start", "show_end", "track"}
  <2> QED
    BY <1>1, <1>2, <2>1, <2>2, EntryAdded
<1>5. TubaStep /\ NoneBy("live") /\ NoneBy("job")
  BY <1>1, <1>2, TubaSame
<1>6. CallTied([at |-> "createShow", show |-> s, entry |-> 0, id |-> id])'
  BY DEF CallTied
<1>7. /\ TiesInv'
      /\ \/ UNCHANGED call
         \/ /\ call'[h] = [at |-> "createShow", show |-> s, entry |-> 0, id |-> id]
            /\ \A k \in Handlers : k # h => call'[k] = call[k]
  BY <1>2, <1>3, <1>4, <1>5, <1>6, ReplyTies, "createShow" \in Steps, 0 \in EntryIds \cup {0}
     DEF Effects, Steps
<1> QED
  BY <1>2, <1>3, <1>4, <1>5, <1>7, QuietJobs DEF Effects, Logged

LEMMA EndShowStep ==
  ASSUME TiesInv, NEW h \in Handlers, NEW s \in Shows, EndShow(h, s)
  PROVE  /\ Effects /\ TiesInv' /\ NoneBy("live") /\ JobQuiet
         /\ Logged(h, s, "show_end", "signoff")
         /\ show[s].phase = "open" /\ show'[s].phase = "ended"
<1>1. Shape /\ EndShow(h, s)
  BY DEF TiesInv
<1>2. PICK id \in {0, 1} : id = IF show[s].mirrored THEN 1 ELSE 0
  OBVIOUS
<1>3. show[s].phase = "open" /\ show' = [show EXCEPT ![s].phase = "ended"]
      /\ Insert(Row(s, "show_end", 0)) /\ Reply(h, "signoff", s, 0, id)
      /\ UNCHANGED <<tuba, cache, deletes, job>>
  BY <1>2 DEF EndShow
<1>4. ShowStep /\ show'[s].phase = "ended"
  BY <1>1, <1>3, ShowPhase, "ended" \in {"open", "ended"}
<1>5. /\ EntryStep /\ NumbersKept
      /\ DOMAIN entry' = DOMAIN entry \cup {Len(entry) + 1}
      /\ entry'[Len(entry) + 1].show = s /\ entry'[Len(entry) + 1].type = "show_end"
  <2>1. PICK row : row = Row(s, "show_end", 0)
    OBVIOUS
  <2>2. row \in LogRows /\ FreshRow(row) /\ row.legacy = 0 /\ row.show = s /\ row.type = "show_end"
    BY <2>1, FreshRows, 0 \in Nat, "show_end" \in {"show_start", "show_end", "track"}
  <2> QED
    BY <1>1, <1>3, <2>1, <2>2, EntryAdded
<1>6. TubaStep /\ NoneBy("live") /\ NoneBy("job")
  BY <1>1, <1>3, TubaSame
<1>7. CallTied([at |-> "signoff", show |-> s, entry |-> 0, id |-> id])'
  BY DEF CallTied
<1>8. /\ TiesInv'
      /\ \/ UNCHANGED call
         \/ /\ call'[h] = [at |-> "signoff", show |-> s, entry |-> 0, id |-> id]
            /\ \A k \in Handlers : k # h => call'[k] = call[k]
  BY <1>3, <1>4, <1>5, <1>6, <1>7, ReplyTies, "signoff" \in Steps, 0 \in EntryIds \cup {0}, id \in Nat
     DEF Effects, Steps
<1> QED
  BY <1>3, <1>4, <1>5, <1>6, <1>8, QuietJobs DEF Effects, Logged

LEMMA AddEntryStep ==
  ASSUME TiesInv, NEW h \in Handlers, NEW s \in Shows, AddEntry(h, s)
  PROVE  /\ Effects /\ TiesInv' /\ NoneBy("live") /\ OnlyTracks /\ JobQuiet
         /\ \/ UNCHANGED call
            \/ /\ call'[h] = [at |-> "post", show |-> s, entry |-> Len(entry) + 1, id |-> 0]
               /\ \A k \in Handlers : k # h => call'[k] = call[k]
<1>1. Shape /\ AddEntry(h, s)
  BY DEF TiesInv
<1>2. PICK e \in EntryIds : e = Len(entry) + 1
  BY <1>1, MirrorAssumption DEF AddEntry, Insert, Shape, EntryIds
<1>3. /\ Insert(Row(s, "track", 0)) /\ Reply(h, "post", s, e, 0)
      /\ UNCHANGED <<show, tuba, cache, deletes, job>>
  BY <1>1, <1>2 DEF AddEntry
<1>4. ShowStep
  BY <1>1, <1>3, ShowSame
<1>5. /\ EntryStep /\ NumbersKept
      /\ DOMAIN entry' = DOMAIN entry \cup {e} /\ entry'[e] = Row(s, "track", 0)
  <2>1. PICK row : row = Row(s, "track", 0)
    OBVIOUS
  <2>2. row \in LogRows /\ FreshRow(row) /\ row.legacy = 0
    BY <2>1, FreshRows, 0 \in Nat, "track" \in {"show_start", "show_end", "track"}
  <2> QED
    BY <1>1, <1>2, <1>3, <2>1, <2>2, EntryAdded
<1>6. TubaStep /\ NoneBy("live") /\ NoneBy("job")
  BY <1>1, <1>3, TubaSame
<1>7. CallTied([at |-> "post", show |-> s, entry |-> e, id |-> 0])'
  <2>1. e \in DOMAIN entry' /\ ~entry'[e].native
    BY <1>5, FreshRows, 0 \in Nat, "track" \in {"show_start", "show_end", "track"} DEF FreshRow
  <2> QED
    BY <2>1 DEF CallTied, Local
<1>8. OnlyTracks
  BY <1>5 DEF OnlyTracks, Row
<1>9. /\ TiesInv'
      /\ \/ UNCHANGED call
         \/ /\ call'[h] = [at |-> "post", show |-> s, entry |-> e, id |-> 0]
            /\ \A k \in Handlers : k # h => call'[k] = call[k]
  BY <1>3, <1>4, <1>5, <1>6, <1>7, ReplyTies, "post" \in Steps, e \in EntryIds \cup {0}, 0 \in Nat
     DEF Effects, Steps
<1> QED
  BY <1>2, <1>3, <1>4, <1>5, <1>6, <1>8, <1>9, QuietJobs DEF Effects

LEMMA UpdateEntryStep ==
  ASSUME TiesInv, NEW h \in Handlers, NEW e \in Live, UpdateEntry(h, e)
  PROVE  Effects /\ TiesInv' /\ OnceQuiet /\ JobQuiet
<1>1. Shape /\ e \in DOMAIN entry /\ e \in EntryIds /\ e # 0 /\ entry[e] \in LogRows
  BY MirrorAssumption DEF TiesInv, Live, Shape, EntryIds
<1>2. PICK s \in Shows \cup {Stub} : s = entry[e].show
  BY <1>1 DEF LogRows
<1>3. Reply(h, "update", s, e, 0) /\ UNCHANGED <<show, entry, tuba, cache, deletes, job>>
  BY <1>2 DEF UpdateEntry
<1>4. /\ ShowStep /\ EntryStep /\ NumbersKept /\ OnlyTracks /\ TubaStep
      /\ NoneBy("live") /\ NoneBy("job")
  BY <1>1, <1>3, ShowSame, EntrySame, TubaSame
<1>5. CallTied([at |-> "update", show |-> s, entry |-> e, id |-> 0])'
  BY <1>1 DEF CallTied
<1>6. /\ TiesInv'
      /\ \/ UNCHANGED call
         \/ /\ call'[h] = [at |-> "update", show |-> s, entry |-> e, id |-> 0]
            /\ \A k \in Handlers : k # h => call'[k] = call[k]
  BY <1>1, <1>3, <1>4, <1>5, ReplyTies, "update" \in Steps, e \in EntryIds \cup {0}, 0 \in Nat
     DEF Effects, Steps
<1>7. CallsQuiet
  BY <1>6, ReplyQuiet, "update" \in {"update", "enqueue"}
<1> QED
  BY <1>3, <1>4, <1>6, <1>7, QuietJobs DEF Effects, OnceQuiet

LEMMA DeleteEntryStep ==
  ASSUME TiesInv, NEW h \in Handlers, NEW e \in Live, DeleteEntry(h, e)
  PROVE  Effects /\ TiesInv' /\ OnceQuiet /\ JobQuiet
<1>1. Shape /\ e \in DOMAIN entry /\ e \in EntryIds /\ entry[e] \in LogRows
  BY MirrorAssumption DEF TiesInv, Live, Shape, EntryIds
<1>2. PICK s \in Shows \cup {Stub}, id \in Nat : s = entry[e].show /\ id = entry[e].legacy
  BY <1>1 DEF LogRows
<1>3. /\ Reply(h, "enqueue", s, e, id) /\ entry' = [entry EXCEPT ![e].gone = TRUE]
      /\ UNCHANGED <<show, tuba, cache, deletes, job>>
  BY <1>2 DEF DeleteEntry
<1>4. /\ ShowStep /\ EntryStep /\ NumbersKept /\ OnlyTracks /\ TubaStep
      /\ NoneBy("live") /\ NoneBy("job")
  BY <1>1, <1>3, ShowSame, EntryGoes, TubaSame
<1>5. CallTied([at |-> "enqueue", show |-> s, entry |-> e, id |-> id])'
  <2>1. id \in DOMAIN tuba \cup {0}
    BY <1>1, <1>2 DEF TiesInv, EntriesTied, EntryTied
  <2>2. id \in DOMAIN tuba' \cup {0}
    BY <1>3, <2>1
  <2> QED
    BY <2>2 DEF CallTied
<1>6. /\ TiesInv'
      /\ \/ UNCHANGED call
         \/ /\ call'[h] = [at |-> "enqueue", show |-> s, entry |-> e, id |-> id]
            /\ \A k \in Handlers : k # h => call'[k] = call[k]
  BY <1>1, <1>3, <1>4, <1>5, ReplyTies, "enqueue" \in Steps, e \in EntryIds \cup {0}
     DEF Effects, Steps
<1>7. CallsQuiet
  BY <1>6, ReplyQuiet, "enqueue" \in {"update", "enqueue"}
<1> QED
  BY <1>3, <1>4, <1>6, <1>7, QuietJobs DEF Effects, OnceQuiet

-----------------------------------------------------------------------------
(* The mirror's handlers.                                                  *)

LEMMA DoneTies ==
  ASSUME TiesInv, Effects, NEW h \in Handlers, Done(h), UNCHANGED job,
         UNCHANGED cache, UNCHANGED deletes \/ deletes' \subseteq DOMAIN tuba'
  PROVE  TiesInv' /\ CallsQuiet
<1>1. CallStep(h, Idle)
  BY IdleTied DEF CallStep, Done
<1>2. CallsQuiet
  <2>1. Idle.at # "post" /\ \A s \in Shows \cup {Stub}, type \in MarkerTypes : ~SeeksBy(Idle, s, type)
    BY DEF Idle, SeeksBy
  <2> QED
    BY <2>1, IdleTied, QuietStep DEF Done, TiesInv
<1> QED
  BY <1>1, <1>2, HandlerTies

LEMMA GotoTies ==
  ASSUME TiesInv, Effects, NEW h \in Handlers, NEW step \in Steps, NEW e \in EntryIds \cup {0},
         NEW id \in Nat, Goto(h, step, e, id), NEW s, s = call[h].show,
         CallTied([at |-> step, show |-> s, entry |-> e, id |-> id])', UNCHANGED <<job, deletes>>,
         UNCHANGED cache \/ (CacheTied' /\ cache' \in [EntryIds -> Nat])
  PROVE  /\ TiesInv'
         /\ [at |-> step, show |-> s, entry |-> e, id |-> id] \in CallRecs
         /\ call' = [call EXCEPT ![h] = [at |-> step, show |-> s, entry |-> e, id |-> id]]
<1> DEFINE c == [at |-> step, show |-> s, entry |-> e, id |-> id]
<1>1. c \in CallRecs /\ call' = [call EXCEPT ![h] = c]
  BY GotoSets DEF TiesInv
<1>2. CallTied(c)'
  OBVIOUS
<1> HIDE DEF c
<1>3. CallStep(h, c)
  BY <1>1, <1>2 DEF CallStep
<1>4. TiesInv'
  BY <1>3, HandlerTies
<1> QED
  BY <1>1, <1>4 DEF c

\* On to a step after which the handler neither POSTs nor looks for a marker.
LEMMA GotoQuiet ==
  ASSUME Shape, NEW h \in Handlers, NEW step \in {"persist", "update", "patch", "enqueue"},
         NEW s, NEW e, NEW id,
         [at |-> step, show |-> s, entry |-> e, id |-> id] \in CallRecs,
         call' = [call EXCEPT ![h] = [at |-> step, show |-> s, entry |-> e, id |-> id]]
  PROVE  CallsQuiet
<1> DEFINE c == [at |-> step, show |-> s, entry |-> e, id |-> id]
<1>1. c.at # "post" /\ \A t \in Shows \cup {Stub}, type \in MarkerTypes : ~SeeksBy(c, t, type)
  BY DEF SeeksBy
<1> HIDE DEF c
<1>2. c \in CallRecs /\ call' = [call EXCEPT ![h] = c]
  BY DEF c
<1> QED
  BY <1>1, <1>2, QuietStep

LEMMA NothingChanges ==
  ASSUME TiesInv, UNCHANGED <<entry, tuba>>
  PROVE  /\ EntryStep /\ NumbersKept /\ OnlyTracks /\ TubaStep
         /\ NoneBy("live") /\ NoneBy("job") /\ (ShowStep => Effects)
BY EntrySame, TubaSame DEF TiesInv, Effects

LEMMA MirrorCreateShowStep ==
  ASSUME TiesInv, NEW h \in Handlers, MirrorCreateShow(h)
  PROVE  Effects /\ TiesInv' /\ OnceQuiet /\ JobQuiet
<1>1. /\ At(h, "createShow") /\ UNCHANGED <<entry, tuba, cache, deletes, job>>
      /\ Shape
  BY DEF MirrorCreateShow, TiesInv
<1>2. CASE Done(h) /\ UNCHANGED show
  BY <1>1, <1>2, ShowSame, NothingChanges, DoneTies, QuietJobs DEF OnceQuiet
<1>3. CASE /\ show' = [show EXCEPT ![call[h].show].mirrored = TRUE] \/ UNCHANGED show
           /\ Goto(h, "startMarker", 0, 0)
  <2>1. PICK s \in Shows \cup {Stub} : s = call[h].show
    BY <1>1 DEF Shape, CallRecs
  <2>2. ShowStep
    <3>1. CASE UNCHANGED show
      BY <1>1, <3>1, ShowSame
    <3>2. CASE show' = [show EXCEPT ![call[h].show].mirrored = TRUE] /\ s \in Shows
      BY <1>1, <2>1, <3>2, ShowMirrored
    <3>3. CASE show' = [show EXCEPT ![call[h].show].mirrored = TRUE] /\ s \notin Shows
      <4>1. show' = show
        BY <1>1, <2>1, <3>3 DEF Shape
      <4> QED BY <1>1, <4>1, ShowSame
    <3> QED BY <1>3, <2>1, <3>1, <3>2, <3>3
  <2>3. Effects
    BY <1>1, <2>2, NothingChanges
  <2> DEFINE c == [at |-> "startMarker", show |-> s, entry |-> 0, id |-> 0]
  <2>4. CallTied(c)'
    BY DEF CallTied
  <2>5. TiesInv' /\ c \in CallRecs /\ call' = [call EXCEPT ![h] = c]
    BY <1>1, <1>3, <2>1, <2>3, <2>4, GotoTies, "startMarker" \in Steps, 0 \in EntryIds \cup {0}, 0 \in Nat
       DEF Steps
  <2>6. /\ c.at # "post"
        /\ \A t \in Shows \cup {Stub}, type \in MarkerTypes :
             SeeksBy(c, t, type) => SeeksBy(call[h], t, type)
    BY <1>1, <2>1 DEF SeeksBy, At
  <2>7. CallsQuiet
    <3> HIDE DEF c
    <3> QED BY <1>1, <2>5, <2>6, QuietStep
  <2> QED
    BY <1>1, <2>3, <2>5, <2>7, NothingChanges, QuietJobs DEF OnceQuiet
<1> QED
  BY <1>2, <1>3 DEF MirrorCreateShow

LEMMA MirrorSignoffStep ==
  ASSUME TiesInv, NEW h \in Handlers, MirrorSignoff(h)
  PROVE  Effects /\ TiesInv' /\ OnceQuiet /\ JobQuiet
<1>1. /\ At(h, "signoff") /\ UNCHANGED <<show, entry, tuba, cache, deletes, job>>
      /\ Shape
  BY DEF MirrorSignoff, TiesInv
<1>2. Effects
  BY <1>1, ShowSame, NothingChanges
<1>3. CASE Done(h)
  BY <1>1, <1>2, <1>3, NothingChanges, DoneTies, QuietJobs DEF OnceQuiet
<1>4. CASE Goto(h, "endMarker", 0, 0)
  <2>1. PICK s \in Shows \cup {Stub} : s = call[h].show
    BY <1>1 DEF Shape, CallRecs
  <2> DEFINE c == [at |-> "endMarker", show |-> s, entry |-> 0, id |-> 0]
  <2>4. CallTied(c)'
    BY DEF CallTied
  <2>5. TiesInv' /\ c \in CallRecs /\ call' = [call EXCEPT ![h] = c]
    BY <1>1, <1>2, <1>4, <2>1, <2>4, GotoTies, "endMarker" \in Steps, 0 \in EntryIds \cup {0}, 0 \in Nat
       DEF Steps
  <2>6. /\ c.at # "post"
        /\ \A t \in Shows \cup {Stub}, type \in MarkerTypes :
             SeeksBy(c, t, type) => SeeksBy(call[h], t, type)
    BY <1>1, <2>1 DEF SeeksBy, At
  <2>7. CallsQuiet
    <3> HIDE DEF c
    <3> QED BY <1>1, <2>5, <2>6, QuietStep
  <2> QED
    BY <1>1, <1>2, <2>5, <2>7, NothingChanges, QuietJobs DEF OnceQuiet
<1> QED
  BY <1>3, <1>4 DEF MirrorSignoff

LEMMA MirrorAnnouncementStep ==
  ASSUME TiesInv, NEW h \in Handlers, MirrorAnnouncement(h)
  PROVE  /\ Effects /\ TiesInv' /\ NoneBy("live") /\ OnlyTracks /\ JobQuiet
         /\ UNCHANGED <<entry, tuba, show>>
         /\ \/ CallsQuiet
            \/ \E e \in Announcement(h) :
                 /\ call'[h].at = "post" /\ call'[h].entry = e
                 /\ \A k \in Handlers : k # h => call'[k] = call[k]
<1>1. UNCHANGED <<show, entry, tuba, cache, deletes, job>> /\ Shape
  BY DEF MirrorAnnouncement, TiesInv
<1>2. Effects /\ NoneBy("live") /\ OnlyTracks /\ JobQuiet
  BY <1>1, ShowSame, NothingChanges, QuietJobs
<1>3. CASE Done(h)
  BY <1>1, <1>2, <1>3, DoneTies
<1>4. ASSUME NEW e \in Announcement(h), Goto(h, "post", e, 0)
      PROVE  /\ TiesInv' /\ call'[h].at = "post" /\ call'[h].entry = e
             /\ \A k \in Handlers : k # h => call'[k] = call[k]
  <2>1. PICK s : s = call[h].show
    OBVIOUS
  <2>2. e \in DOMAIN entry /\ e \in EntryIds /\ entry[e].type # "track"
    BY <1>1, MirrorAssumption DEF Announcement, Live, MarkerType, Shape, EntryIds
  <2>3. ~entry[e].native
    BY <2>2 DEF TiesInv, EntriesTied, EntryTied
  <2> DEFINE c == [at |-> "post", show |-> s, entry |-> e, id |-> 0]
  <2>4. CallTied(c)'
    BY <1>1, <2>2, <2>3 DEF CallTied, Local
  <2>5. TiesInv' /\ c \in CallRecs /\ call' = [call EXCEPT ![h] = c]
    BY <1>1, <1>2, <1>4, <2>1, <2>2, <2>4, GotoTies, "post" \in Steps, e \in EntryIds \cup {0}, 0 \in Nat
       DEF Steps
  <2>6. call'[h] = c /\ \A k \in Handlers : k # h => call'[k] = call[k]
    BY <1>1, <2>5 DEF Shape
  <2> QED
    BY <2>5, <2>6
<1> QED
  BY <1>1, <1>2, <1>3, <1>4 DEF MirrorAnnouncement

LEMMA MirrorCreateEntryStep ==
  ASSUME TiesInv, NEW h \in Handlers, MirrorCreateEntry(h)
  PROVE  /\ Effects /\ TiesInv' /\ OnlyTracks /\ CallsQuiet /\ JobQuiet
         /\ UNCHANGED <<show, entry>> /\ At(h, "post")
         /\ \/ NoneBy("live")
            \/ /\ call'[h].at # "post"
               /\ \A i \in DOMAIN tuba' : i \notin DOMAIN tuba => tuba'[i].of = call[h].entry
<1>1. /\ UNCHANGED <<show, entry, deletes, job>> /\ Shape /\ At(h, "post")
      /\ CallsTied /\ CacheTied
  BY DEF MirrorCreateEntry, TiesInv
<1>2. PICK e \in EntryIds : e = call[h].entry /\ Local(e) /\ e \in Nat
  BY <1>1, MirrorAssumption DEF CallsTied, CallTied, Local, Shape, EntryIds, At
<1>3. ShowStep /\ EntryStep /\ NumbersKept /\ OnlyTracks
  BY <1>1, ShowSame, EntrySame
<1>4. CASE UNCHANGED tuba /\ Done(h) /\ UNCHANGED cache
  <2>1. Effects /\ NoneBy("live") /\ NoneBy("job")
    BY <1>1, <1>3, <1>4, TubaSame DEF Effects
  <2> QED
    BY <1>1, <1>3, <1>4, <2>1, DoneTies, QuietJobs
<1>5. ASSUME Create(e, "live")
      PROVE  /\ Effects /\ JobQuiet /\ NextCopy \in DOMAIN tuba' /\ NextCopy \in Nat
             /\ tuba'[NextCopy].of = e /\ tuba'[NextCopy].by = "live"
             /\ \A i \in DOMAIN tuba' : i \notin DOMAIN tuba => tuba'[i].of = e
  <2>1. /\ TubaStep /\ NoneBy("job")
        /\ DOMAIN tuba' = DOMAIN tuba \cup {NextCopy} /\ NextCopy \in Nat
        /\ tuba'[NextCopy].of = e /\ tuba'[NextCopy].by = "live"
    BY <1>1, <1>2, <1>5, TubaAdded, "live" \in {"live", "job", "tubafrenzy"},
       "job" \in {"live", "job", "tubafrenzy"}
  <2> QED
    BY <1>1, <1>3, <2>1, QuietJobs DEF Effects
<1>6. CASE Create(e, "live") /\ Done(h) /\ UNCHANGED cache
  <2>1. TiesInv' /\ CallsQuiet
    BY <1>1, <1>5, <1>6, DoneTies
  <2>2. call'[h].at # "post"
    BY <1>1, <1>6 DEF Done, Idle, Shape
  <2> QED
    BY <1>1, <1>2, <1>3, <1>5, <1>6, <2>1, <2>2
<1>7. CASE /\ Create(e, "live") /\ CacheEntryId(e, NextCopy)
           /\ Goto(h, "persist", e, NextCopy)
  <2>1. PICK id \in Nat : id = NextCopy
    BY <1>5, <1>7
  <2>2. /\ cache' = [cache EXCEPT ![e] = id] /\ Goto(h, "persist", e, id)
        /\ Effects /\ JobQuiet /\ id \in DOMAIN tuba' /\ tuba'[id].of = e /\ tuba'[id].by = "live"
    BY <1>5, <1>7, <2>1 DEF CacheEntryId
  <2>3. CopiesKept /\ EntriesKept
    BY <2>2 DEF Effects, TubaStep, EntryStep
  <2>4. cache' \in [EntryIds -> Nat] /\ CacheTied'
    BY <1>1, <1>2, <2>2, <2>3 DEF Shape, CacheTied, CopiesKept, CopyOf
  <2>5. PICK s : s = call[h].show
    OBVIOUS
  <2> DEFINE c == [at |-> "persist", show |-> s, entry |-> e, id |-> id]
  <2>6. CallTied(c)'
    BY <1>2, <2>2, <2>3 DEF CallTied, CopyOf, Local, EntriesKept
  <2>7. TiesInv' /\ c \in CallRecs /\ call' = [call EXCEPT ![h] = c]
    BY <1>1, <2>2, <2>4, <2>5, <2>6, GotoTies, "persist" \in Steps, e \in EntryIds \cup {0}
       DEF Steps
  <2>8. CallsQuiet /\ call'[h].at # "post"
    BY <1>1, <2>7, GotoQuiet, "persist" \in {"persist", "update", "patch", "enqueue"} DEF Shape
  <2> QED
    BY <1>1, <1>2, <1>3, <1>5, <1>7, <2>2, <2>7, <2>8
<1> QED
  BY <1>2, <1>4, <1>6, <1>7 DEF MirrorCreateEntry

LEMMA PersistLegacyEntryIdStep ==
  ASSUME TiesInv, NEW h \in Handlers, PersistLegacyEntryId(h)
  PROVE  Effects /\ TiesInv' /\ OnceQuiet /\ JobQuiet
<1>1. /\ UNCHANGED <<show, tuba, cache, deletes, job>> /\ Shape /\ At(h, "persist")
      /\ CallsTied /\ Done(h)
  BY DEF PersistLegacyEntryId, TiesInv
<1>2. PICK e, id : /\ e = call[h].entry /\ id = call[h].id
                   /\ e \in DOMAIN entry /\ ~entry[e].native
                   /\ id \in DOMAIN tuba /\ tuba[id].of = e /\ tuba[id].by = "live"
  BY <1>1 DEF CallsTied, CallTied, Local, CopyOf, At
<1>3. ShowStep /\ TubaStep /\ NoneBy("live") /\ NoneBy("job")
  BY <1>1, ShowSame, TubaSame
<1>4. CASE UNCHANGED entry
  BY <1>1, <1>3, <1>4, NothingChanges, DoneTies, QuietJobs DEF OnceQuiet
<1>5. CASE entry' = [entry EXCEPT ![e].legacy = id]
  <2>1. /\ EntryStep /\ OnlyTracks /\ entry'[e].legacy = id
        /\ \A f \in DOMAIN entry : f # e => entry'[f].legacy = entry[f].legacy
    BY <1>1, <1>2, <1>5, EntryNumbered
  <2>2. Effects
    BY <1>3, <2>1 DEF Effects
  <2>3. JobQuiet
    BY <1>1, <1>2, <1>3, <2>1 DEF JobQuiet
  <2> QED
    BY <1>1, <1>3, <2>1, <2>2, <2>3, DoneTies DEF OnceQuiet
<1> QED
  BY <1>2, <1>4, <1>5 DEF PersistLegacyEntryId

LEMMA MirrorUpdateEntryStep ==
  ASSUME TiesInv, NEW h \in Handlers, MirrorUpdateEntry(h)
  PROVE  Effects /\ TiesInv' /\ OnceQuiet /\ JobQuiet
<1>1. /\ UNCHANGED <<show, entry, tuba, cache, deletes, job>> /\ Shape /\ At(h, "update")
      /\ CallsTied /\ CacheTied
  BY DEF MirrorUpdateEntry, TiesInv
<1>2. Effects
  BY <1>1, ShowSame, NothingChanges
<1>3. CASE Done(h)
  BY <1>1, <1>2, <1>3, NothingChanges, DoneTies, QuietJobs DEF OnceQuiet
<1>4. CASE cache[call[h].entry] # 0 /\ Goto(h, "patch", call[h].entry, cache[call[h].entry])
  <2>1. PICK s, e, id : s = call[h].show /\ e = call[h].entry /\ id = cache[e]
    OBVIOUS
  <2>2. e \in EntryIds /\ id \in Nat /\ id # 0
    BY <1>1, <1>4, <2>1 DEF CallsTied, CallTied, Shape, CallRecs, At
  <2>3. CopyOf(id, e)
    BY <1>1, <2>1, <2>2 DEF CacheTied
  <2> DEFINE c == [at |-> "patch", show |-> s, entry |-> e, id |-> id]
  <2>4. CallTied(c)'
    BY <1>1, <2>3 DEF CallTied, CopyOf
  <2>5. Goto(h, "patch", e, id)
    BY <1>4, <2>1
  <2>6. TiesInv' /\ c \in CallRecs /\ call' = [call EXCEPT ![h] = c]
    BY <1>1, <1>2, <2>1, <2>2, <2>4, <2>5, GotoTies, "patch" \in Steps, e \in EntryIds \cup {0}
       DEF Steps
  <2>7. CallsQuiet
    BY <1>1, <2>6, GotoQuiet, "patch" \in {"persist", "update", "patch", "enqueue"}
  <2> QED
    BY <1>1, <1>2, <2>6, <2>7, NothingChanges, QuietJobs DEF OnceQuiet
<1> QED
  BY <1>3, <1>4 DEF MirrorUpdateEntry

LEMMA PatchDoneStep ==
  ASSUME TiesInv, NEW h \in Handlers, PatchDone(h)
  PROVE  Effects /\ TiesInv' /\ OnceQuiet /\ JobQuiet
<1>1. UNCHANGED <<show, entry, tuba, cache, deletes, job>> /\ Done(h) /\ Shape
  BY DEF PatchDone, TiesInv
<1> QED
  BY <1>1, ShowSame, NothingChanges, DoneTies, QuietJobs DEF OnceQuiet

LEMMA MirrorDeleteEntryStep ==
  ASSUME TiesInv, NEW h \in Handlers, MirrorDeleteEntry(h)
  PROVE  Effects /\ TiesInv' /\ OnceQuiet /\ JobQuiet
<1>1. /\ UNCHANGED <<show, entry, tuba, cache, job>> /\ Done(h) /\ Shape /\ CallsTied
      /\ At(h, "enqueue") /\ deletes' = deletes \cup ({call[h].id} \ {0})
  BY DEF MirrorDeleteEntry, TiesInv
<1>2. deletes' \subseteq DOMAIN tuba'
  BY <1>1 DEF CallsTied, CallTied, Shape, At
<1> QED
  BY <1>1, <1>2, ShowSame, NothingChanges, DoneTies, QuietJobs DEF OnceQuiet

-----------------------------------------------------------------------------
(* The queue, tubafrenzy, the ages of shows, and the restart.              *)

LEMMA RunDeleteStep ==
  ASSUME TiesInv, NEW id \in deletes, RunDelete(id)
  PROVE  Effects /\ TiesInv' /\ OnceQuiet /\ JobQuiet
<1>1. /\ UNCHANGED <<show, entry, cache, call, job>> /\ Shape /\ id \in DOMAIN tuba
      /\ Executed(id) /\ deletes' \subseteq deletes
  BY DEF RunDelete, TiesInv, Shape
<1>2. TubaStep /\ NoneBy("live") /\ NoneBy("job")
  BY <1>1, TubaDeleted
<1>3. ShowStep /\ EntryStep /\ NumbersKept /\ OnlyTracks
  BY <1>1, ShowSame, EntrySame
<1>4. job' \in JobRecs /\ deletes' \subseteq DOMAIN tuba'
  BY <1>1, <1>2 DEF Shape, TubaStep, CopiesKept
<1> QED
  BY <1>1, <1>2, <1>3, <1>4, OtherTies, CallsSame, QuietJobs DEF Effects, OnceQuiet

LEMMA QueueDiesStep ==
  ASSUME TiesInv, QueueDies
  PROVE  Effects /\ TiesInv' /\ OnceQuiet /\ JobQuiet
<1>1. /\ UNCHANGED <<show, entry, tuba, cache, call, job>> /\ Shape
      /\ job' \in JobRecs /\ deletes' \subseteq DOMAIN tuba'
  BY DEF QueueDies, TiesInv, Shape
<1> QED
  BY <1>1, ShowSame, NothingChanges, OtherTies, CallsSame, QuietJobs DEF OnceQuiet

LEMMA TubafrenzyAddsStep ==
  ASSUME TiesInv, NEW s \in Shows \cup {Stub}, TubafrenzyAdds(s)
  PROVE  Effects /\ TiesInv' /\ OnceQuiet /\ JobQuiet
<1>1. /\ UNCHANGED <<show, cache, call, deletes, job>> /\ Shape
      /\ Insert(Row(s, "track", NextCopy)) /\ Create(0, "tubafrenzy")
  BY DEF TubafrenzyAdds, TiesInv
<1>8. \E e \in DOMAIN entry' : entry'[e].native /\ entry'[e].legacy = NextCopy
  <2>1. NextCopy \in Nat \ {0}
    BY <1>1 DEF NextCopy, Shape
  <2>2. PICK row : row = Row(s, "track", NextCopy)
    OBVIOUS
  <2>3. row \in LogRows /\ row.legacy = NextCopy /\ row.native
    BY <2>1, <2>2, FreshRows, "track" \in {"show_start", "show_end", "track"} DEF FreshRow
  <2>4. entry \in Seq(LogRows) /\ entry' = Append(entry, row)
    BY <1>1, <2>2 DEF Insert, Shape
  <2> QED
    BY <2>3, <2>4, AppendFacts
<1>2. /\ TubaStep /\ NoneBy("live") /\ NoneBy("job")
      /\ DOMAIN tuba' = DOMAIN tuba \cup {NextCopy} /\ NextCopy \in Nat \ {0}
  BY <1>1, <1>8, TubaAdded, 0 \in Nat, "tubafrenzy" \in {"live", "job", "tubafrenzy"},
     "live" \in {"live", "job", "tubafrenzy"}, "job" \in {"live", "job", "tubafrenzy"}
<1>3. PICK row : row = Row(s, "track", NextCopy)
  OBVIOUS
<1>4. row \in LogRows /\ FreshRow(row) /\ row.legacy = NextCopy /\ row.type = "track"
  BY <1>2, <1>3, FreshRows, "track" \in {"show_start", "show_end", "track"}
<1>5. /\ EntryStep /\ NumbersKept
      /\ DOMAIN entry' = DOMAIN entry \cup {Len(entry) + 1}
      /\ entry'[Len(entry) + 1] = row
  BY <1>1, <1>2, <1>3, <1>4, EntryAdded
<1>6. OnlyTracks /\ ShowStep
  BY <1>1, <1>4, <1>5, ShowSame DEF OnlyTracks
<1>7. job' \in JobRecs /\ deletes' \subseteq DOMAIN tuba'
  BY <1>1, <1>2 DEF Shape
<1> QED
  BY <1>1, <1>2, <1>5, <1>6, <1>7, OtherTies, CallsSame, QuietJobs DEF Effects, OnceQuiet

LEMMA WebhookUpsertStep ==
  ASSUME TiesInv, NEW i \in DOMAIN tuba, NEW s \in Shows \cup {Stub}, WebhookUpsert(i, s)
  PROVE  Effects /\ TiesInv' /\ OnceQuiet /\ JobQuiet
<1>1. /\ UNCHANGED <<show, tuba, cache, call, deletes, job>> /\ Shape
      /\ Insert(Row(s, "track", i)) /\ i \in Nat \ {0}
  BY DEF WebhookUpsert, TiesInv, Shape
<1>2. TubaStep /\ NoneBy("live") /\ NoneBy("job") /\ ShowStep
  BY <1>1, TubaSame, ShowSame
<1>3. PICK row : row = Row(s, "track", i)
  OBVIOUS
<1>4. row \in LogRows /\ FreshRow(row) /\ row.legacy = i /\ row.type = "track"
  BY <1>1, <1>3, FreshRows, "track" \in {"show_start", "show_end", "track"}
<1>5. /\ EntryStep /\ NumbersKept
      /\ DOMAIN entry' = DOMAIN entry \cup {Len(entry) + 1}
      /\ entry'[Len(entry) + 1] = row
  BY <1>1, <1>2, <1>3, <1>4, EntryAdded
<1>6. OnlyTracks
  BY <1>4, <1>5 DEF OnlyTracks
<1>7. job' \in JobRecs /\ deletes' \subseteq DOMAIN tuba'
  BY <1>1, <1>2 DEF Shape
<1> QED
  BY <1>1, <1>2, <1>5, <1>6, <1>7, OtherTies, CallsSame, QuietJobs DEF Effects, OnceQuiet

LEMMA WebhookDeleteStep ==
  ASSUME TiesInv, NEW i \in DOMAIN tuba, WebhookDelete(i)
  PROVE  Effects /\ TiesInv' /\ OnceQuiet /\ JobQuiet
<1>1. /\ UNCHANGED <<show, cache, call, deletes, job>> /\ Shape /\ Executed(i)
  BY DEF WebhookDelete, TiesInv
<1>2. PICK e \in DOMAIN entry : entry' = [entry EXCEPT ![e].gone = TRUE]
  BY DEF WebhookDelete, Live
<1>3. TubaStep /\ NoneBy("live") /\ NoneBy("job") /\ ShowStep
  BY <1>1, TubaDeleted, ShowSame
<1>4. EntryStep /\ OnlyTracks /\ NumbersKept
  BY <1>1, <1>2, EntryGoes
<1>5. job' \in JobRecs /\ deletes' \subseteq DOMAIN tuba'
  BY <1>1, <1>3 DEF Shape, TubaStep, CopiesKept
<1> QED
  BY <1>1, <1>3, <1>4, <1>5, OtherTies, CallsSame, QuietJobs DEF Effects, OnceQuiet

LEMMA AgesStep ==
  ASSUME TiesInv, NEW s \in Shows, Ages(s)
  PROVE  Effects /\ TiesInv' /\ OnceQuiet /\ JobQuiet
<1>1. /\ UNCHANGED <<entry, tuba, cache, call, deletes, job>> /\ Shape
      /\ job' \in JobRecs /\ deletes' \subseteq DOMAIN tuba'
  BY DEF Ages, TiesInv, Shape
<1>2. PICK a \in {"due", "aged"} : a = IF show[s].age = "settling" THEN "due" ELSE "aged"
  OBVIOUS
<1>3. show' = [show EXCEPT ![s].age = a]
  BY <1>2 DEF Ages
<1>4. ShowStep
  BY <1>1, <1>3, ShowAges
<1> QED
  BY <1>1, <1>4, NothingChanges, OtherTies, CallsSame, QuietJobs DEF OnceQuiet

LEMMA RestartStep ==
  ASSUME TiesInv, Restart
  PROVE  Effects /\ TiesInv' /\ OnceQuiet /\ JobQuiet
<1>1. /\ UNCHANGED <<show, entry, tuba, job>> /\ Shape /\ deletes' = {}
      /\ cache' = [e \in EntryIds |-> 0] /\ call' = [h \in Handlers |-> Idle]
      /\ EntriesTied /\ CopiesTied
  BY DEF Restart, TiesInv
<1>2. Effects /\ NumbersKept /\ NoneBy("live") /\ NoneBy("job") /\ OnlyTracks
  BY <1>1, ShowSame, NothingChanges
<1>3. CallsQuiet
  BY <1>1 DEF CallsQuiet, Idle, SeeksBy
<1>4. CallsTied' /\ call' \in [Handlers -> CallRecs]
  <2>1. \A h \in Handlers : call'[h] = Idle
    BY <1>1
  <2>2. CallTied(Idle)' /\ Idle \in CallRecs
    BY IdleTied
  <2>3. \A h \in Handlers : CallTied(call[h])'
    BY <2>1 DEF CallTied, Idle
  <2> QED
    BY <1>1, <2>2, <2>3 DEF CallsTied
<1>5. CacheTied' /\ cache' \in [EntryIds -> Nat]
  BY <1>1 DEF CacheTied
<1>6. EntriesTied' /\ CopiesTied'
  BY <1>1, <1>2, EntryStepTies, TubaStepTies DEF Effects, EntryStep
<1>7. Shape'
  BY <1>1, <1>4, <1>5 DEF Shape
<1> QED
  BY <1>1, <1>2, <1>3, <1>4, <1>5, <1>6, <1>7, QuietJobs DEF TiesInv, OnceQuiet

-----------------------------------------------------------------------------
(* legacy-mirror-reconcile: what becomes of its record.                    *)

\* The job goes on with nothing new on its list.
JobLets ==
  /\ job' \in JobRecs /\ job'.id = 0 /\ job'.at # "persist"
  /\ job'.todo = job.todo \/ job'.todo = << >>

LEMMA JobAt ==
  ASSUME NEW r \in JobRecs, NEW a \in {"idle", "create", "select", "entries", "post", "persist"}
  PROVE  /\ [r EXCEPT !.at = a] \in JobRecs /\ [r EXCEPT !.at = a].at = a
         /\ [r EXCEPT !.at = a].list = r.list /\ [r EXCEPT !.at = a].todo = r.todo
         /\ [r EXCEPT !.at = a].id = r.id
BY DEF JobRecs

LEMMA JobList ==
  ASSUME NEW r \in JobRecs, NEW l \in SUBSET Shows
  PROVE  /\ [r EXCEPT !.list = l] \in JobRecs /\ [r EXCEPT !.list = l].list = l
         /\ [r EXCEPT !.list = l].at = r.at /\ [r EXCEPT !.list = l].todo = r.todo
         /\ [r EXCEPT !.list = l].id = r.id
BY DEF JobRecs

LEMMA JobTodo ==
  ASSUME NEW r \in JobRecs, NEW t \in Seq(Nat)
  PROVE  /\ [r EXCEPT !.todo = t] \in JobRecs /\ [r EXCEPT !.todo = t].todo = t
         /\ [r EXCEPT !.todo = t].at = r.at /\ [r EXCEPT !.todo = t].list = r.list
         /\ [r EXCEPT !.todo = t].id = r.id
BY DEF JobRecs

LEMMA JobId ==
  ASSUME NEW r \in JobRecs, NEW n \in Nat
  PROVE  /\ [r EXCEPT !.id = n] \in JobRecs /\ [r EXCEPT !.id = n].id = n
         /\ [r EXCEPT !.id = n].at = r.at /\ [r EXCEPT !.id = n].list = r.list
         /\ [r EXCEPT !.id = n].todo = r.todo
BY DEF JobRecs

LEMMA NoJobFacts ==
  NoJob \in JobRecs /\ NoJob.at = "idle" /\ NoJob.todo = << >> /\ NoJob.id = 0
BY DEF NoJob, JobRecs

LEMMA JobStartLets ==
  ASSUME Shape, JobStart
  PROVE  JobLets
<1> DEFINE a == [NoJob EXCEPT !.at = "create"]
           b == [a EXCEPT !.list = SelectShowsToCreate]
<1>1. job' = b
  BY DEF JobStart
<1>2. SelectShowsToCreate \in SUBSET Shows
  BY DEF SelectShowsToCreate
<1>3. a \in JobRecs /\ a.at = "create" /\ a.todo = << >> /\ a.id = 0
  BY NoJobFacts, JobAt, "create" \in {"idle", "create", "select", "entries", "post", "persist"}
<1> HIDE DEF a
<1>4. b \in JobRecs /\ b.at = "create" /\ b.todo = << >> /\ b.id = 0
  BY <1>2, <1>3, JobList
<1> HIDE DEF b
<1> QED
  BY <1>1, <1>4 DEF JobLets

LEMMA JobCreatesShowLets ==
  ASSUME Shape, JobTied, NEW works \in BOOLEAN, JobCreatesShow(works)
  PROVE  JobLets
<1> DEFINE l == job.list \ {First(job.list)}
           b == [job EXCEPT !.list = l]
<1>1. job' = b /\ job.at = "create" /\ job.id = 0
  BY DEF JobCreatesShow, JobTied
<1>2. job \in JobRecs /\ l \in SUBSET Shows
  BY DEF Shape, JobRecs
<1> HIDE DEF l
<1>3. b \in JobRecs /\ b.at = job.at /\ b.todo = job.todo /\ b.id = job.id
  BY <1>2, JobList
<1> HIDE DEF b
<1> QED
  BY <1>1, <1>3 DEF JobLets

LEMMA JobSelectsLets ==
  ASSUME Shape, JobTied, JobSelects
  PROVE  JobLets
<1> DEFINE a == [job EXCEPT !.at = "select"]
           b == [a EXCEPT !.list = SelectEntrySweepShows]
<1>1. job' = b /\ job.id = 0 /\ job \in JobRecs
  BY DEF JobSelects, JobTied, Shape
<1>2. SelectEntrySweepShows \in SUBSET Shows
  BY DEF SelectEntrySweepShows
<1>3. a \in JobRecs /\ a.at = "select" /\ a.todo = job.todo /\ a.id = job.id
  BY <1>1, JobAt, "select" \in {"idle", "create", "select", "entries", "post", "persist"}
<1> HIDE DEF a
<1>4. b \in JobRecs /\ b.at = "select" /\ b.todo = job.todo /\ b.id = job.id
  BY <1>2, <1>3, JobList
<1> HIDE DEF b
<1> QED
  BY <1>1, <1>4 DEF JobLets

LEMMA JobSignsOffLets ==
  ASSUME Shape, JobTied, JobSignsOff
  PROVE  JobLets
<1> DEFINE a == [job EXCEPT !.at = "select"]
<1>1. job' = a /\ job.id = 0 /\ job \in JobRecs
  BY DEF JobSignsOff, JobTied, Shape
<1>2. a \in JobRecs /\ a.at = "select" /\ a.todo = job.todo /\ a.id = job.id
  BY <1>1, JobAt, "select" \in {"idle", "create", "select", "entries", "post", "persist"}
<1> HIDE DEF a
<1> QED
  BY <1>1, <1>2 DEF JobLets

LEMMA StopShowLets ==
  ASSUME Shape, job.id = 0, job' = StopShow
  PROVE  JobLets /\ job'.todo = << >>
<1> DEFINE a == [job EXCEPT !.at = "select"]
           b == [a EXCEPT !.todo = << >>]
<1>1. job' = b /\ job.id = 0 /\ job \in JobRecs
  BY DEF StopShow, Shape
<1>3. a \in JobRecs /\ a.at = "select" /\ a.id = job.id
  BY <1>1, JobAt, "select" \in {"idle", "create", "select", "entries", "post", "persist"}
<1> HIDE DEF a
<1>4. b \in JobRecs /\ b.at = "select" /\ b.todo = << >> /\ b.id = job.id
  BY <1>3, JobTodo, << >> \in Seq(Nat)
<1> HIDE DEF b
<1> QED
  BY <1>1, <1>4 DEF JobLets

LEMMA NoJobLets ==
  ASSUME job' = NoJob
  PROVE  JobLets
BY NoJobFacts DEF JobLets

-----------------------------------------------------------------------------
(* What a step leaves alone, it keeps right.                               *)

LEMMA QuietOnce ==
  ASSUME TiesInv, OnceInv, Effects, OnceQuiet
  PROVE  OnceInv'
<1>1. Shape /\ CopiesKept /\ EntriesKept /\ NoneBy("live") /\ OnlyTracks /\ CallsQuiet /\ ShowStep
  BY DEF TiesInv, Effects, TubaStep, EntryStep, OnceQuiet
<1>2. \A i \in DOMAIN tuba' : tuba'[i].by = "live" =>
        i \in DOMAIN tuba /\ tuba[i].by = "live" /\ tuba[i].of = tuba'[i].of
  BY <1>1 DEF NoneBy, CopiesKept
<1>3. \A e : Sent(e)' => Sent(e)
  BY <1>2 DEF Sent
<1>4. \A h \in Handlers : \A e : Posting(h, e)' => Posting(h, e)
  BY <1>1 DEF CallsQuiet, Posting, At
<1>5. \A e : Posted(e)' => Posted(e)
  BY <1>3, <1>4 DEF Posted
<1>6. \A e, s : \A type \in MarkerTypes : Marker(e, s, type)' => Marker(e, s, type)
  BY <1>1 DEF OnlyTracks, EntriesKept, Marker, MarkerTypes
<1>7. \A s \in Shows : \A type \in MarkerTypes : Reached(s, type) => Reached(s, type)'
  BY <1>1 DEF ShowStep, Reached
<1>8. \A h \in Handlers, s \in Shows \cup {Stub}, type \in MarkerTypes :
        Seeks(h, s, type)' => Seeks(h, s, type)
  BY <1>1 DEF CallsQuiet, Seeks
<1>9. LiveOnce'
  BY <1>2 DEF OnceInv, LiveOnce
<1>10. PostsOnce'
  BY <1>3, <1>4 DEF OnceInv, PostsOnce
<1>11. ASSUME NEW h \in Handlers, NEW s \in Shows \cup {Stub}, NEW type \in MarkerTypes,
              Seeks(h, s, type)'
       PROVE  SeekOnce(h, s, type)'
  <2>1. SeekOnce(h, s, type)
    BY <1>8, <1>11 DEF OnceInv, SeeksOnce
  <2>2. s \in Shows /\ Reached(s, type)'
    BY <1>7, <2>1 DEF SeekOnce
  <2>3. \A k \in Handlers : Seeks(k, s, type)' => k = h
    BY <1>8, <2>1 DEF SeekOnce
  <2>4. \A e : Marker(e, s, type)' => ~Posted(e)'
    <3>1. \A e : Marker(e, s, type) => ~Posted(e)
      BY <2>1 DEF SeekOnce, Marker
    <3> QED
      BY <1>5, <1>6, <3>1
  <2> QED
    BY <2>2, <2>3, <2>4 DEF SeekOnce
<1>12. MarkersReached'
  <2>1. \A s \in Shows \cup {Stub}, type \in MarkerTypes : \A e :
          Marker(e, s, type) => s \in Shows /\ Reached(s, type)
    BY DEF OnceInv, MarkersReached, Marker
  <2>2. \A s \in Shows \cup {Stub}, type \in MarkerTypes : \A e :
          Marker(e, s, type)' => s \in Shows /\ Reached(s, type)'
    BY <1>6, <1>7, <2>1
  <2> QED
    BY <2>2 DEF MarkersReached
<1> QED
  BY <1>9, <1>10, <1>11, <1>12 DEF OnceInv, SeeksOnce

\* An entry before another is one that was there.
LEMMA BeforeKept ==
  ASSUME TiesInv, Effects, NEW e \in DOMAIN entry, NEW f, Before(f, e)'
  PROVE  f \in DOMAIN entry /\ Before(f, e)
<1>1. /\ entry \in Seq(LogRows) /\ entry' \in Seq(LogRows) /\ EntriesKept
      /\ f \in DOMAIN entry' /\ f < e
  BY DEF TiesInv, Shape, Effects, EntryStep, Before
<1>2. f \in DOMAIN entry
  BY <1>1
<1> QED
  BY <1>1, <1>2 DEF Before, EntriesKept

LEMMA CopyKept ==
  ASSUME TubaStep, NEW e, HasCopy(e)
  PROVE  HasCopy(e)'
BY DEF TubaStep, CopiesKept, HasCopy

\* HealedInOrder of one copy.
CopyInOrder(j) ==
  tuba[j].by = "job" => \A f : Before(f, tuba[j].of) =>
    \E i \in DOMAIN tuba : tuba[i].of = f /\ (tuba[i].by = "job" => i < j)

LEMMA CopiesInOrder ==
  ASSUME Shape
  PROVE  HealedInOrder <=> \A j \in DOMAIN tuba : CopyInOrder(j)
BY DEF HealedInOrder, CopyInOrder, Before, Live

LEMMA OldCopyHealed ==
  ASSUME TiesInv, HealedInOrder, Effects, NEW j \in DOMAIN tuba
  PROVE  CopyInOrder(j)'
<1>1. CopyInOrder(j) /\ CopyTied(j) /\ CopiesKept /\ Shape
  BY CopiesInOrder DEF TiesInv, CopiesTied, Effects, TubaStep
<1> SUFFICES ASSUME tuba[j].by = "job", NEW f, Before(f, tuba[j].of)'
             PROVE  \E i \in DOMAIN tuba' : tuba'[i].of = f /\ (tuba'[i].by = "job" => i < j)
  BY <1>1 DEF CopyInOrder, CopiesKept
<1>2. PICK e \in DOMAIN entry : e = tuba[j].of
  BY <1>1 DEF CopyTied, Local
<1>3. Before(f, e)'
  BY <1>1, <1>2 DEF Before, CopiesKept
<1>4. Before(f, e)
  BY <1>3, BeforeKept
<1>5. PICK i \in DOMAIN tuba : tuba[i].of = f /\ (tuba[i].by = "job" => i < j)
  BY <1>1, <1>2, <1>4 DEF CopyInOrder
<1> QED
  BY <1>1, <1>5 DEF CopiesKept

LEMMA QuietHealed ==
  ASSUME TiesInv, HealedInOrder, Effects, TiesInv', NoneBy("job")
  PROVE  HealedInOrder'
<1>1. ASSUME NEW j \in DOMAIN tuba' PROVE CopyInOrder(j)'
  <2>1. CASE j \in DOMAIN tuba
    BY <2>1, OldCopyHealed
  <2>2. CASE j \notin DOMAIN tuba
    BY <2>2 DEF NoneBy, CopyInOrder
  <2> QED
    BY <2>1, <2>2
<1>2. (HealedInOrder <=> \A j \in DOMAIN tuba : CopyInOrder(j))'
  <2>1. Shape'
    BY DEF TiesInv
  <2> QED
    BY <2>1 DEF HealedInOrder, CopyInOrder, Before, Live
<1> QED
  BY <1>1, <1>2

\* An entry on the job's list whose number is not one that the job gave.
LEMMA ListedKept ==
  ASSUME TiesInv, Effects, NEW e, ListedTied(e),
         entry'[e].legacy # entry[e].legacy => tuba[entry'[e].legacy].by # "job"
  PROVE  ListedTied(e)'
<1>1. /\ e \in DOMAIN entry /\ ~entry[e].native /\ EntriesKept /\ CopiesKept
      /\ entry[e].legacy # 0 => tuba[entry[e].legacy].by # "job" /\ entry[e].legacy \in DOMAIN tuba
      /\ entry'[e].legacy = entry[e].legacy \/ NewNumber(e)
  BY DEF TiesInv, EntriesTied, EntryTied, ListedTied, Local, Effects, EntryStep, TubaStep
<1> QED
  BY <1>1 DEF EntriesKept, CopiesKept, NewNumber, ListedTied, Local

LEMMA OrderKept ==
  ASSUME TiesInv, Effects, NEW e \in DOMAIN entry, ListInOrder(e),
         \A f : Listed(f) => Listed(f)' \/ HasCopy(f)
  PROVE  ListInOrder(e)'
<1> SUFFICES ASSUME NEW f \in DOMAIN entry', Before(f, e)' PROVE Listed(f)' \/ HasCopy(f)'
  BY DEF ListInOrder
<1>1. Listed(f) \/ HasCopy(f)
  BY BeforeKept DEF ListInOrder
<1> QED
  BY <1>1, CopyKept DEF Effects

LEMMA QuietJob ==
  ASSUME TiesInv, JobInv, Effects, JobQuiet
  PROVE  JobInv'
<1>1. UNCHANGED job /\ CopiesKept /\ TubaStep
  BY DEF JobQuiet, Effects, TubaStep
<1>2. JobTied'
  BY <1>1 DEF JobInv, JobTied, CopyOf, CopiesKept
<1>3. ASSUME NEW k \in DOMAIN job.todo
      PROVE  ListedTied(job.todo[k])' /\ ListInOrder(job.todo[k])'
  <2>1. PICK e : e = job.todo[k] /\ ListedTied(e) /\ ListInOrder(e) /\ e \in DOMAIN entry
    BY DEF JobInv, ListedTied, Local
  <2>2. ListedTied(e)'
    BY <2>1, ListedKept DEF JobQuiet
  <2>3. ListInOrder(e)'
    BY <1>1, <2>1, OrderKept DEF Listed
  <2> QED
    BY <1>1, <2>1, <2>2, <2>3 DEF ListedTied, Local, ListInOrder, Before, Listed, HasCopy
<1> QED
  BY <1>1, <1>2, <1>3 DEF JobInv

LEMMA LetsJob ==
  ASSUME TiesInv, JobInv, Effects, JobLets, NumbersKept
  PROVE  JobInv'
<1>1. CASE job'.todo = << >>
  BY <1>1 DEF JobLets, JobInv, JobTied
<1>2. CASE job'.todo = job.todo
  <2>1. JobTied'
    BY <1>2 DEF JobLets, JobInv, JobTied
  <2>2. ASSUME NEW k \in DOMAIN job.todo
        PROVE  ListedTied(job.todo[k])' /\ ListInOrder(job.todo[k])'
    <3>1. PICK e : e = job.todo[k] /\ ListedTied(e) /\ ListInOrder(e) /\ e \in DOMAIN entry
      BY DEF JobInv, ListedTied, Local
    <3>2. ListedTied(e)'
      BY <3>1, ListedKept DEF NumbersKept
    <3>3. ListInOrder(e)'
      BY <1>2, <3>1, OrderKept DEF Listed
    <3> QED
      BY <1>2, <3>1, <3>2, <3>3 DEF ListedTied, Local, ListInOrder, Before, Listed, HasCopy
  <2> QED
    BY <1>2, <2>1, <2>2 DEF JobInv
<1> QED
  BY <1>1, <1>2 DEF JobLets

-----------------------------------------------------------------------------
(* No row is sent twice by the live mirror.                                *)

\* What is sent or about to be sent is there.
LEMMA PostedIsThere ==
  ASSUME TiesInv, NEW e, Posted(e)
  PROVE  e \in DOMAIN entry
<1>1. CASE Sent(e)
  BY <1>1 DEF Sent, TiesInv, CopiesTied, CopyTied, Local
<1>2. CASE \E h \in Handlers : Posting(h, e)
  BY <1>2 DEF Posting, At, TiesInv, CallsTied, CallTied, Local
<1> QED
  BY <1>1, <1>2 DEF Posted

\* LiveOnce and what was sent, when nothing is sent in the step.
LEMMA NothingSent ==
  ASSUME OnceInv, Effects, NoneBy("live")
  PROVE  LiveOnce' /\ \A e : Sent(e)' => Sent(e)
<1>1. \A i \in DOMAIN tuba' : tuba'[i].by = "live" =>
        i \in DOMAIN tuba /\ tuba[i].by = "live" /\ tuba[i].of = tuba'[i].of
  BY DEF NoneBy, CopiesKept, Effects, TubaStep
<1> QED
  BY <1>1 DEF OnceInv, LiveOnce, Sent

LEMMA ReachedKept ==
  ASSUME Effects, NEW s \in Shows, NEW type, Reached(s, type)
  PROVE  Reached(s, type)'
BY DEF Effects, ShowStep, Reached

\* A marker is logged for a show that gets there by it.
LEMMA LoggedOnce ==
  ASSUME TiesInv, OnceInv, Effects, NoneBy("live"), NEW h \in Handlers, NEW s \in Shows,
         NEW type \in MarkerTypes, ~Reached(s, type), Reached(s, type)',
         Logged(h, s, type, IF type = "show_start" THEN "createShow" ELSE "signoff")
  PROVE  OnceInv'
<1> DEFINE e0 == Len(entry) + 1
<1>1. LiveOnce' /\ \A e : Sent(e)' => Sent(e)
  BY NothingSent
<1>2. \A k \in Handlers : call'[k] = call[k] \/ (k = h /\ call'[h].at \in {"createShow", "signoff"})
  BY DEF Logged
<1>3. \A k \in Handlers : \A e : Posting(k, e)' => Posting(k, e)
  BY <1>2 DEF Posting, At
<1>4. \A e : Posted(e)' => Posted(e)
  BY <1>1, <1>3 DEF Posted
<1>5. PostsOnce'
  BY <1>1, <1>3 DEF OnceInv, PostsOnce
<1>6. e0 \notin DOMAIN entry /\ ~Posted(e0)
  <2>1. e0 \notin DOMAIN entry
    BY DEF TiesInv, Shape
  <2> QED
    BY <2>1, PostedIsThere
<1>7. \A e, t : \A ty \in MarkerTypes : Marker(e, t, ty)' =>
        Marker(e, t, ty) \/ (e = e0 /\ t = s /\ ty = type)
  BY DEF Marker, Logged, Effects, EntryStep, EntriesKept
<1>8. \A k \in Handlers : \A t \in Shows \cup {Stub}, ty \in MarkerTypes : Seeks(k, t, ty)' =>
        Seeks(k, t, ty) \/ (k = h /\ t = s /\ ty = type)
  BY DEF Seeks, SeeksBy, Logged, MarkerTypes
<1>9. /\ \A k \in Handlers : ~Seeks(k, s, type)
      /\ \A e : ~Marker(e, s, type)
  BY DEF OnceInv, SeeksOnce, SeekOnce, MarkersReached, Marker
<1>10. ASSUME NEW k \in Handlers, NEW t \in Shows \cup {Stub}, NEW ty \in MarkerTypes,
              Seeks(k, t, ty)'
       PROVE  SeekOnce(k, t, ty)'
  <2>1. CASE Seeks(k, t, ty)
    <3>1. ~(t = s /\ ty = type)
      BY <1>9, <2>1
    <3>2. SeekOnce(k, t, ty)
      BY <2>1 DEF OnceInv, SeeksOnce
    <3>3. t \in Shows /\ Reached(t, ty)'
      BY <3>2, ReachedKept DEF SeekOnce
    <3>4. \A q \in Handlers : Seeks(q, t, ty)' => q = k
      BY <1>8, <3>1, <3>2 DEF SeekOnce
    <3>5. \A e : Marker(e, t, ty) => ~Posted(e)
      BY <3>2 DEF SeekOnce, Marker
    <3>6. \A e : Marker(e, t, ty)' => ~Posted(e)'
      BY <1>4, <1>7, <3>1, <3>5
    <3> QED
      BY <3>3, <3>4, <3>6 DEF SeekOnce
  <2>2. CASE ~Seeks(k, t, ty)
    <3>1. k = h /\ t = s /\ ty = type
      BY <1>8, <1>10, <2>2
    <3>2. \A q \in Handlers : Seeks(q, t, ty)' => q = k
      BY <1>8, <1>9, <3>1
    <3>3. \A e : Marker(e, t, ty)' => ~Posted(e)'
      BY <1>4, <1>6, <1>7, <1>9, <3>1
    <3> QED
      BY <3>1, <3>2, <3>3 DEF SeekOnce
  <2> QED
    BY <2>1, <2>2
<1>11. MarkersReached'
  <2>1. \A t \in Shows \cup {Stub}, ty \in MarkerTypes : \A e :
          Marker(e, t, ty) => t \in Shows /\ Reached(t, ty)
    BY DEF OnceInv, MarkersReached, Marker
  <2>2. \A t \in Shows \cup {Stub}, ty \in MarkerTypes : \A e :
          Marker(e, t, ty)' => t \in Shows /\ Reached(t, ty)'
    BY <1>7, <2>1, ReachedKept
  <2> QED
    BY <2>2 DEF MarkersReached
<1> QED
  BY <1>1, <1>5, <1>10, <1>11 DEF OnceInv, SeeksOnce

\* A handler is about to POST an entry that nobody has, and nobody looks for.
LEMMA PostingOnce ==
  ASSUME TiesInv, OnceInv, Effects, NoneBy("live"), OnlyTracks, NEW h \in Handlers, NEW e, ~Posted(e),
         call'[h].at = "post", call'[h].entry = e, \A k \in Handlers : k # h => call'[k] = call[k],
         \A k \in Handlers, s \in Shows \cup {Stub}, type \in MarkerTypes :
           k # h /\ Seeks(k, s, type) => ~Marker(e, s, type)
  PROVE  OnceInv'
<1>1. LiveOnce' /\ \A f : Sent(f)' => Sent(f)
  BY NothingSent
<1>2. \A k \in Handlers : \A f : Posting(k, f)' => Posting(k, f) \/ (k = h /\ f = e)
  BY DEF Posting, At
<1>3. \A f : Posted(f)' => Posted(f) \/ f = e
  BY <1>1, <1>2 DEF Posted
<1>4. \A k \in Handlers : Posting(k, e)' => k = h
  BY DEF Posting, Posted, At
<1>5. PostsOnce'
  <2> SUFFICES ASSUME NEW k \in Handlers, NEW f \in EntryIds, Posting(k, f)'
               PROVE  ~Sent(f)' /\ \A q \in Handlers : Posting(q, f)' => q = k
    BY DEF PostsOnce
  <2>1. CASE f = e
    BY <1>1, <1>4, <2>1 DEF Posted
  <2>2. CASE f # e
    <3>1. Posting(k, f)
      BY <1>2, <2>2
    <3>2. ~Sent(f) /\ \A q \in Handlers : Posting(q, f) => q = k
      BY <3>1 DEF OnceInv, PostsOnce
    <3> QED
      BY <1>1, <1>2, <2>2, <3>2
  <2> QED
    BY <2>1, <2>2
<1>6. \A f, s : \A type \in MarkerTypes : Marker(f, s, type)' => Marker(f, s, type)
  BY DEF OnlyTracks, EntriesKept, Marker, MarkerTypes, Effects, EntryStep
<1>7. \A k \in Handlers : \A s, type : Seeks(k, s, type)' => k # h /\ Seeks(k, s, type)
  BY DEF Seeks, SeeksBy
<1>8. ASSUME NEW k \in Handlers, NEW s \in Shows \cup {Stub}, NEW type \in MarkerTypes,
             Seeks(k, s, type)'
      PROVE  SeekOnce(k, s, type)'
  <2>1. k # h /\ Seeks(k, s, type)
    BY <1>7, <1>8
  <2>2. SeekOnce(k, s, type)
    BY <2>1 DEF OnceInv, SeeksOnce
  <2>3. s \in Shows /\ Reached(s, type)'
    BY <2>2, ReachedKept DEF SeekOnce
  <2>4. \A q \in Handlers : Seeks(q, s, type)' => q = k
    BY <1>7, <2>2 DEF SeekOnce
  <2>5. ~Marker(e, s, type)
    BY <2>1
  <2>6. \A f : Marker(f, s, type) => ~Posted(f)
    BY <2>2 DEF SeekOnce, Marker
  <2>7. \A f : Marker(f, s, type)' => ~Posted(f)'
    BY <1>3, <1>6, <2>5, <2>6
  <2> QED
    BY <2>3, <2>4, <2>7 DEF SeekOnce
<1>9. MarkersReached'
  <2>1. \A t \in Shows \cup {Stub}, ty \in MarkerTypes : \A f :
          Marker(f, t, ty) => t \in Shows /\ Reached(t, ty)
    BY DEF OnceInv, MarkersReached, Marker
  <2>2. \A t \in Shows \cup {Stub}, ty \in MarkerTypes : \A f :
          Marker(f, t, ty)' => t \in Shows /\ Reached(t, ty)'
    BY <1>6, <2>1, ReachedKept
  <2> QED
    BY <2>2 DEF MarkersReached
<1> QED
  BY <1>1, <1>5, <1>8, <1>9 DEF OnceInv, SeeksOnce

LEMMA GoLiveOnce ==
  ASSUME TiesInv, OnceInv, NEW h \in Handlers, NEW s \in Shows, GoLive(h, s)
  PROVE  OnceInv'
<1>1. /\ Effects /\ NoneBy("live") /\ Logged(h, s, "show_start", "createShow")
      /\ show[s].phase = "none" /\ show'[s].phase = "open"
  BY GoLiveStep
<1>2. ~Reached(s, "show_start") /\ Reached(s, "show_start")'
  BY <1>1 DEF Reached
<1> QED
  BY <1>1, <1>2, LoggedOnce, "show_start" \in MarkerTypes DEF MarkerTypes

LEMMA EndShowOnce ==
  ASSUME TiesInv, OnceInv, NEW h \in Handlers, NEW s \in Shows, EndShow(h, s)
  PROVE  OnceInv'
<1>1. /\ Effects /\ NoneBy("live") /\ Logged(h, s, "show_end", "signoff")
      /\ show[s].phase = "open" /\ show'[s].phase = "ended"
  BY EndShowStep
<1>2. ~Reached(s, "show_end") /\ Reached(s, "show_end")'
  BY <1>1 DEF Reached
<1> QED
  BY <1>1, <1>2, LoggedOnce, "show_end" \in MarkerTypes DEF MarkerTypes

LEMMA AddEntryOnce ==
  ASSUME TiesInv, OnceInv, NEW h \in Handlers, NEW s \in Shows, AddEntry(h, s)
  PROVE  OnceInv'
<1>1. /\ Effects /\ NoneBy("live") /\ OnlyTracks
      /\ \/ UNCHANGED call
         \/ /\ call'[h] = [at |-> "post", show |-> s, entry |-> Len(entry) + 1, id |-> 0]
            /\ \A k \in Handlers : k # h => call'[k] = call[k]
  BY AddEntryStep
<1>2. CASE UNCHANGED call
  BY <1>1, <1>2, CallsSame, QuietOnce DEF OnceQuiet
<1>3. CASE /\ call'[h] = [at |-> "post", show |-> s, entry |-> Len(entry) + 1, id |-> 0]
           /\ \A k \in Handlers : k # h => call'[k] = call[k]
  <2>1. Len(entry) + 1 \notin DOMAIN entry
    BY DEF TiesInv, Shape
  <2>2. PICK e : e = Len(entry) + 1
    OBVIOUS
  <2>3. ~Posted(e) /\ \A t, type : ~Marker(e, t, type)
    BY <2>1, <2>2, PostedIsThere DEF Marker
  <2>4. call'[h].at = "post" /\ call'[h].entry = e
    BY <1>3, <2>2
  <2> QED
    BY <1>1, <1>3, <2>3, <2>4, PostingOnce
<1> QED
  BY <1>1, <1>2, <1>3

LEMMA MirrorAnnouncementOnce ==
  ASSUME TiesInv, OnceInv, NEW h \in Handlers, MirrorAnnouncement(h)
  PROVE  OnceInv'
<1>1. /\ Effects /\ NoneBy("live") /\ OnlyTracks
      /\ \/ CallsQuiet
         \/ \E e \in Announcement(h) :
              /\ call'[h].at = "post" /\ call'[h].entry = e
              /\ \A k \in Handlers : k # h => call'[k] = call[k]
  BY MirrorAnnouncementStep
<1>2. CASE CallsQuiet
  BY <1>1, <1>2, QuietOnce DEF OnceQuiet
<1>3. ASSUME NEW e \in Announcement(h), call'[h].at = "post", call'[h].entry = e,
             \A k \in Handlers : k # h => call'[k] = call[k]
      PROVE  OnceInv'
  <2>1. PICK s \in Shows \cup {Stub}, type \in MarkerTypes : s = call[h].show /\ type = MarkerType(h)
    BY DEF TiesInv, Shape, CallRecs, MarkerType, MarkerTypes
  <2>2. Seeks(h, s, type) /\ Marker(e, s, type)
    BY <2>1 DEF Seeks, SeeksBy, MarkerType, MirrorAnnouncement, At, Announcement, Live, Marker
  <2>3. SeekOnce(h, s, type)
    BY <2>2 DEF OnceInv, SeeksOnce
  <2>4. ~Posted(e)
    BY <2>2, <2>3 DEF SeekOnce, Marker
  <2>5. \A k \in Handlers, t \in Shows \cup {Stub}, ty \in MarkerTypes :
          k # h /\ Seeks(k, t, ty) => ~Marker(e, t, ty)
    BY <2>2, <2>3 DEF SeekOnce, Marker
  <2> QED
    BY <1>1, <1>3, <2>4, <2>5, PostingOnce
<1> QED
  BY <1>1, <1>2, <1>3

LEMMA MirrorCreateEntryOnce ==
  ASSUME TiesInv, OnceInv, NEW h \in Handlers, MirrorCreateEntry(h)
  PROVE  OnceInv'
<1>1. /\ Effects /\ OnlyTracks /\ CallsQuiet /\ UNCHANGED <<show, entry>> /\ At(h, "post")
      /\ \/ NoneBy("live")
         \/ /\ call'[h].at # "post"
            /\ \A i \in DOMAIN tuba' : i \notin DOMAIN tuba => tuba'[i].of = call[h].entry
  BY MirrorCreateEntryStep
<1>2. CASE NoneBy("live")
  BY <1>1, <1>2, QuietOnce DEF OnceQuiet
<1>3. CASE /\ call'[h].at # "post"
           /\ \A i \in DOMAIN tuba' : i \notin DOMAIN tuba => tuba'[i].of = call[h].entry
  <2>1. PICK e \in EntryIds : e = call[h].entry /\ Posting(h, e)
    <3>1. call[h].entry \in DOMAIN entry
      BY <1>1 DEF TiesInv, CallsTied, CallTied, Local, At
    <3>2. call[h].entry \in EntryIds
      BY <3>1, MirrorAssumption DEF TiesInv, Shape, EntryIds
    <3> QED
      BY <1>1, <3>2 DEF Posting
  <2>2. ~Sent(e) /\ \A k \in Handlers : Posting(k, e) => k = h
    BY <2>1 DEF OnceInv, PostsOnce
  <2>3. \A i \in DOMAIN tuba' :
          IF i \in DOMAIN tuba THEN tuba'[i].of = tuba[i].of /\ tuba'[i].by = tuba[i].by
          ELSE tuba'[i].of = e /\ i = NextCopy
    BY <1>1, <1>3, <2>1 DEF Effects, TubaStep, CopiesKept, NewCopy, NextCopy
  <2>4. \A f : Sent(f)' => Sent(f) \/ f = e
    BY <2>3 DEF Sent
  <2>5. \A i \in DOMAIN tuba : ~(tuba[i].of = e /\ tuba[i].by = "live")
    BY <2>2 DEF Sent
  <2>6. LiveOnce'
    BY <2>3, <2>5 DEF OnceInv, LiveOnce
  <2>7. \A k \in Handlers : \A f : Posting(k, f)' => k # h /\ Posting(k, f)
    BY <1>1, <1>3 DEF Posting, At, CallsQuiet
  <2>8. PostsOnce'
    <3> SUFFICES ASSUME NEW k \in Handlers, NEW f \in EntryIds, Posting(k, f)'
                 PROVE  ~Sent(f)' /\ \A q \in Handlers : Posting(q, f)' => q = k
      BY DEF PostsOnce
    <3>1. k # h /\ Posting(k, f)
      BY <2>7
    <3>2. ~Sent(f) /\ \A q \in Handlers : Posting(q, f) => q = k
      BY <3>1 DEF OnceInv, PostsOnce
    <3>3. f # e
      BY <2>2, <3>1
    <3> QED
      BY <2>4, <2>7, <3>2, <3>3
  <2>9. \A f : Posted(f)' => Posted(f)
    BY <2>1, <2>4, <2>7 DEF Posted
  <2>10. \A k \in Handlers, s \in Shows \cup {Stub}, type \in MarkerTypes :
           Seeks(k, s, type)' => Seeks(k, s, type)
    BY <1>1 DEF CallsQuiet, Seeks
  <2>11. \A f, s, type : Marker(f, s, type)' <=> Marker(f, s, type)
    BY <1>1 DEF Marker
  <2>12. \A s, type : Reached(s, type)' <=> Reached(s, type)
    BY <1>1 DEF Reached
  <2>13. ASSUME NEW k \in Handlers, NEW s \in Shows \cup {Stub}, NEW type \in MarkerTypes,
                Seeks(k, s, type)'
         PROVE  SeekOnce(k, s, type)'
    <3>1. SeekOnce(k, s, type)
      BY <2>10, <2>13 DEF OnceInv, SeeksOnce
    <3>2. /\ s \in Shows /\ Reached(s, type)
          /\ \A q \in Handlers : Seeks(q, s, type) => q = k
          /\ \A f : Marker(f, s, type) => ~Posted(f)
      BY <3>1 DEF SeekOnce, Marker
    <3>3. /\ s \in Shows /\ Reached(s, type)'
          /\ \A q \in Handlers : Seeks(q, s, type)' => q = k
          /\ \A f : Marker(f, s, type)' => ~Posted(f)'
      BY <2>9, <2>10, <2>11, <2>12, <3>2
    <3> QED
      BY <3>3 DEF SeekOnce
  <2>14. MarkersReached'
    BY <1>1 DEF OnceInv, MarkersReached, Marker, Reached
  <2> QED
    BY <2>6, <2>8, <2>13, <2>14 DEF OnceInv, SeeksOnce
<1> QED
  BY <1>1, <1>2, <1>3

-----------------------------------------------------------------------------
(* The ids of a set in play_order.                                         *)

LEMMA RankFacts ==
  ASSUME NEW n \in Nat, NEW places \in SUBSET (1 .. n)
  PROVE  /\ IsFiniteSet(places) /\ Cardinality(places) \in Nat
         /\ \A i \in places : Rank(places, i) \in 1 .. Cardinality(places)
         /\ \A i, j \in places : i < j => Rank(places, i) < Rank(places, j)
         /\ \A k \in 1 .. Cardinality(places) : \E i \in places : Rank(places, i) = k
<1>1. IsFiniteSet(places) /\ Cardinality(places) \in Nat
  <2>1. IsFiniteSet(1 .. n)
    BY FS_Interval
  <2>2. IsFiniteSet(places)
    BY <2>1, FS_Subset
  <2> QED
    BY <2>2, FS_CardinalityType
<1>2. ASSUME NEW i \in places
      PROVE  /\ IsFiniteSet({j \in places : j <= i})
             /\ Rank(places, i) \in Nat /\ Rank(places, i) \in 1 .. Cardinality(places)
  <2> DEFINE upTo == {j \in places : j <= i}
  <2>1. upTo \in SUBSET places /\ i \in upTo /\ upTo # {}
    OBVIOUS
  <2>2. IsFiniteSet(upTo) /\ Cardinality(upTo) <= Cardinality(places)
    BY <1>1, <2>1, FS_Subset
  <2>3. Cardinality(upTo) \in Nat /\ Cardinality(upTo) # 0
    BY <2>1, <2>2, FS_CardinalityType, FS_EmptySet
  <2> QED
    BY <1>1, <2>2, <2>3 DEF Rank
<1>3. ASSUME NEW i \in places, NEW j \in places, i < j
      PROVE  Rank(places, i) < Rank(places, j)
  <2> DEFINE upToI == {x \in places : x <= i}
             upToJ == {x \in places : x <= j}
  <2>1. upToI \in SUBSET upToJ /\ j \in upToJ /\ j \notin upToI
    <3>1. i \in Nat /\ j \in Nat /\ \A x \in places : x \in Nat
      OBVIOUS
    <3>2. \A x \in places : x <= i => x <= j
      BY <1>3, <3>1
    <3>3. j <= j /\ ~(j <= i)
      BY <1>3, <3>1
    <3> QED
      BY <3>2, <3>3, Zenon
  <2>2. IsFiniteSet(upToJ) /\ IsFiniteSet(upToI)
    BY <1>2
  <2>3. Cardinality(upToI) <= Cardinality(upToJ) /\ Cardinality(upToI) # Cardinality(upToJ)
    BY <2>1, <2>2, FS_Subset
  <2>4. Cardinality(upToI) \in Nat /\ Cardinality(upToJ) \in Nat
    BY <2>2, FS_CardinalityType
  <2> QED
    BY <2>3, <2>4 DEF Rank
<1>4. \A k \in 1 .. Cardinality(places) : \E i \in places : Rank(places, i) = k
  <2> DEFINE top == 1 .. Cardinality(places)
             rank == [i \in places |-> Rank(places, i)]
  <2>1. rank \in Injection(places, top)
    <3>1. rank \in [places -> top]
      BY <1>2
    <3>2. ASSUME NEW i \in places, NEW j \in places, rank[i] = rank[j]
          PROVE  i = j
      <4>1. i \in Nat /\ j \in Nat
        OBVIOUS
      <4>2. Rank(places, i) = Rank(places, j)
        BY <3>2, Zenon
      <4>3. Rank(places, i) \in Nat
        BY <1>2, Zenon
      <4> QED
        BY <1>3, <4>1, <4>2, <4>3
    <3> QED
      BY <3>1, <3>2 DEF Injection, IsInjective
  <2>2. IsFiniteSet(top) /\ Cardinality(top) = Cardinality(places)
    BY <1>1, FS_Interval
  <2>3. rank \in Surjection(places, top)
    BY <2>1, <2>2, FS_Injection
  <2> QED
    BY <2>3 DEF Surjection
<1> QED
  BY <1>1, <1>2, <1>3, <1>4

\* The enumeration of a set of ids exists, and every id is on it.
LEMMA InPlayOrderFacts ==
  ASSUME NEW n \in Nat, NEW ids \in SUBSET (1 .. n)
  PROVE  /\ InPlayOrder(ids) \in Seq(Nat)
         /\ \A k \in DOMAIN InPlayOrder(ids) : InPlayOrder(ids)[k] \in ids
         /\ \A j, k \in DOMAIN InPlayOrder(ids) :
              j < k => InPlayOrder(ids)[j] < InPlayOrder(ids)[k]
         /\ \A e \in ids : \E k \in DOMAIN InPlayOrder(ids) : InPlayOrder(ids)[k] = e
<1> DEFINE c == Cardinality(ids)
           ordered(q) == \A j, k \in 1 .. c : j < k => q[j] < q[k]
           q0 == [k \in 1 .. c |-> CHOOSE i \in ids : Rank(ids, i) = k]
<1>1. /\ IsFiniteSet(ids) /\ c \in Nat
      /\ \A i, j \in ids : i < j => Rank(ids, i) < Rank(ids, j)
      /\ \A k \in 1 .. c : \E i \in ids : Rank(ids, i) = k
      /\ \A i \in ids : i \in Nat
  <2>1. /\ IsFiniteSet(ids) /\ c \in Nat
        /\ \A i, j \in ids : i < j => Rank(ids, i) < Rank(ids, j)
        /\ \A k \in 1 .. c : \E i \in ids : Rank(ids, i) = k
    BY RankFacts, Zenon
  <2>2. \A i \in ids : i \in Nat
    OBVIOUS
  <2> QED
    BY <2>1, <2>2
<1>2. \A k \in 1 .. c : q0[k] \in ids /\ Rank(ids, q0[k]) = k
  BY <1>1
<1>3. q0 \in [1 .. c -> ids]
  BY <1>2
<1> HIDE DEF q0
<1>4. ordered(q0)
  <2> SUFFICES ASSUME NEW j \in 1 .. c, NEW k \in 1 .. c, j < k PROVE q0[j] < q0[k]
    OBVIOUS
  <2>1. PICK x \in ids, y \in ids : x = q0[j] /\ y = q0[k] /\ Rank(ids, x) = j /\ Rank(ids, y) = k
    BY <1>2
  <2>2. x \in Nat /\ y \in Nat /\ (y < x => Rank(ids, y) < Rank(ids, x))
    BY <1>1
  <2> QED
    BY <2>1, <2>2
<1>5. PICK q : q = InPlayOrder(ids)
  OBVIOUS
<1>6. q \in [1 .. c -> ids] /\ ordered(q)
  <2>1. q = CHOOSE r \in [1 .. c -> ids] : ordered(r)
    BY <1>5 DEF InPlayOrder
  <2> HIDE DEF ordered
  <2> QED
    BY <1>3, <1>4, <2>1
<1>7. q \in Injection(1 .. c, ids)
  <2> SUFFICES ASSUME NEW j \in 1 .. c, NEW k \in 1 .. c, q[j] = q[k] PROVE j = k
    BY <1>6 DEF Injection, IsInjective
  <2>1. q[j] \in Nat /\ q[k] \in Nat /\ (j < k => q[j] < q[k]) /\ (k < j => q[k] < q[j])
    BY <1>1, <1>6
  <2> QED
    BY <2>1
<1>8. q \in Surjection(1 .. c, ids)
  <2>1. IsFiniteSet(1 .. c) /\ Cardinality(1 .. c) = c
    BY <1>1, FS_Interval
  <2> QED
    BY <1>1, <1>7, <2>1, FS_Injection
<1>9. \A e \in ids : \E k \in 1 .. c : q[k] = e
  BY <1>8 DEF Surjection
<1>10. DOMAIN q = 1 .. c /\ q \in Seq(Nat)
  <2>1. q \in [1 .. c -> Nat] /\ DOMAIN q = 1 .. c
    BY <1>1, <1>6
  <2> QED
    BY <1>1, <2>1
<1> QED
  BY <1>5, <1>6, <1>9, <1>10

-----------------------------------------------------------------------------
(* The job's steps.                                                        *)

\* With nothing new sent, listed or numbered.
LEMMA JobLetsStep ==
  ASSUME MirrorInv, ShowStep, JobLets, UNCHANGED <<entry, tuba, cache, call, deletes>>
  PROVE  MirrorInv'
<1>1. TiesInv /\ OnceInv /\ JobInv /\ HealedInOrder /\ Shape
  BY DEF MirrorInv, TiesInv
<1>2. Effects /\ OnlyTracks /\ NumbersKept /\ NoneBy("live") /\ NoneBy("job")
  BY <1>1, NothingChanges
<1>3. OnceQuiet
  BY <1>2, CallsSame DEF OnceQuiet
<1>4. TiesInv'
  BY <1>1, <1>2, OtherTies DEF JobLets, Shape
<1> QED
  BY <1>1, <1>2, <1>3, <1>4, QuietOnce, LetsJob, QuietHealed DEF MirrorInv

LEMMA JobShowStep ==
  ASSUME Shape, NEW works \in BOOLEAN, JobCreatesShow(works)
  PROVE  ShowStep
<1>1. \/ show' = [show EXCEPT ![First(job.list)].mirrored = TRUE]
      \/ show' = show
  BY DEF JobCreatesShow
<1>2. PICK s : s = First(job.list)
  OBVIOUS
<1>3. CASE s \in Shows /\ show' = [show EXCEPT ![s].mirrored = TRUE]
  BY <1>3, ShowMirrored
<1>4. CASE s \notin Shows /\ show' = [show EXCEPT ![s].mirrored = TRUE]
  BY <1>4, ShowSame DEF Shape
<1>5. CASE show' = show
  BY <1>5, ShowSame
<1> QED
  BY <1>1, <1>2, <1>3, <1>4, <1>5

\* What comes before the head of the list has its copy already.
LEMMA HeadIsNext ==
  ASSUME TiesInv, JobInv, job.todo # << >>
  PROVE  /\ 1 \in DOMAIN job.todo /\ Head(job.todo) = job.todo[1]
         /\ ListedTied(job.todo[1]) /\ ListInOrder(job.todo[1])
         /\ job.todo[1] \in Nat
         /\ \A f : Before(f, job.todo[1]) => HasCopy(f)
<1>1. job.todo \in Seq(Nat) /\ 1 \in DOMAIN job.todo
  BY DEF TiesInv, Shape, JobRecs
<1>2. ListedTied(job.todo[1]) /\ ListInOrder(job.todo[1])
  BY <1>1 DEF JobInv
<1>3. ASSUME NEW f, Before(f, job.todo[1]) PROVE HasCopy(f)
  <2>1. Listed(f) \/ HasCopy(f)
    BY <1>2, <1>3 DEF ListInOrder, Before
  <2>2. ASSUME NEW k \in DOMAIN job.todo, job.todo[k] = f PROVE FALSE
    <3>1. f < job.todo[1] /\ (1 < k => job.todo[1] < job.todo[k])
      BY <1>1, <1>3 DEF Before, JobInv, JobTied
    <3> QED
      BY <1>1, <2>2, <3>1
  <2> QED
    BY <2>1, <2>2 DEF Listed
<1> QED
  BY <1>1, <1>2, <1>3

\* What the job sends next leaves no gap before it.
LEMMA JobCopyHealed ==
  ASSUME MirrorInv, TiesInv', Effects, NEW e, job.todo # << >>, e = job.todo[1], Create(e, "job")
  PROVE  HealedInOrder'
<1>1. TiesInv /\ JobInv /\ HealedInOrder /\ Shape
  BY DEF MirrorInv, TiesInv
<1>2. /\ e \in Nat /\ Local(e) /\ e \in DOMAIN entry /\ \A f : Before(f, e) => HasCopy(f)
  BY <1>1, HeadIsNext DEF ListedTied, Local
<1>3. /\ DOMAIN tuba' = DOMAIN tuba \cup {NextCopy}
      /\ \A i \in DOMAIN tuba : tuba'[i] = tuba[i] /\ i < NextCopy
      /\ tuba'[NextCopy].of = e
  BY <1>1, <1>2, TubaAdded, "job" \in {"live", "job", "tubafrenzy"}
<1>4. ASSUME NEW j \in DOMAIN tuba' PROVE CopyInOrder(j)'
  <2>1. CASE j \in DOMAIN tuba
    BY <1>1, <2>1, OldCopyHealed
  <2>2. CASE j \notin DOMAIN tuba
    <3>1. j = NextCopy
      BY <1>3, <2>2
    <3>2. ASSUME NEW f, Before(f, e)'
          PROVE  \E i \in DOMAIN tuba' : tuba'[i].of = f /\ (tuba'[i].by = "job" => i < j)
      <4>1. HasCopy(f)
        BY <1>1, <1>2, <3>2, BeforeKept
      <4> QED
        BY <1>3, <3>1, <4>1 DEF HasCopy
    <3> QED
      BY <1>3, <3>1, <3>2 DEF CopyInOrder, Before
  <2> QED
    BY <2>1, <2>2
<1>5. (HealedInOrder <=> \A j \in DOMAIN tuba : CopyInOrder(j))'
  <2>1. Shape'
    BY DEF TiesInv
  <2> QED
    BY <2>1 DEF HealedInOrder, CopyInOrder, Before, Live
<1> QED
  BY <1>4, <1>5

\* The job posts e, the head of its list, and has the number of the copy.
JobPosted(e) ==
  /\ UNCHANGED <<show, entry, cache, call, deletes>>
  /\ Create(e, "job") /\ Effects /\ OnlyTracks /\ NumbersKept /\ NoneBy("live")
  /\ DOMAIN tuba' = DOMAIN tuba \cup {NextCopy} /\ NextCopy \notin DOMAIN tuba
  /\ tuba'[NextCopy].of = e /\ tuba'[NextCopy].by = "job" /\ NextCopy \in Nat \ {0}

LEMMA PostedFacts ==
  ASSUME TiesInv, JobInv, NEW e, job.todo # << >>, e = job.todo[1], Create(e, "job"),
         UNCHANGED <<show, entry, cache, call, deletes>>
  PROVE  /\ e \in Nat /\ Local(e) /\ ListedTied(e) /\ ListInOrder(e) /\ Listed(e)
         /\ JobPosted(e)
<1>1. e \in Nat /\ Local(e) /\ ListedTied(e) /\ ListInOrder(e) /\ Listed(e) /\ Shape
  BY HeadIsNext DEF ListedTied, Listed, TiesInv
<1>2. /\ TubaStep /\ NoneBy("live") /\ DOMAIN tuba' = DOMAIN tuba \cup {NextCopy}
      /\ NextCopy \notin DOMAIN tuba
      /\ tuba'[NextCopy].of = e /\ tuba'[NextCopy].by = "job" /\ NextCopy \in Nat \ {0}
  BY <1>1, TubaAdded, "job" \in {"live", "job", "tubafrenzy"},
     "live" \in {"live", "job", "tubafrenzy"}
<1>3. Effects /\ OnlyTracks /\ NumbersKept
  BY <1>1, <1>2, ShowSame, EntrySame DEF Effects
<1> QED
  BY <1>1, <1>2, <1>3 DEF JobPosted

LEMMA JobPostsDoes ==
  ASSUME TiesInv, JobInv, JobPosts
  PROVE  /\ job.todo # << >> /\ job.id = 0 /\ Create(job.todo[1], "job")
         /\ UNCHANGED <<show, entry, cache, call, deletes>>
         /\ job' \in JobRecs /\ job'.at = "persist" /\ job'.id = NextCopy
         /\ job'.todo = job.todo
<1>1. PICK id : id = NextCopy
  OBVIOUS
<1>2. /\ UNCHANGED <<show, entry, cache, call, deletes>> /\ job.todo # << >> /\ job.id = 0
      /\ Create(job.todo[1], "job") /\ job' = [job EXCEPT !.at = "persist", !.id = id]
  BY <1>1, HeadIsNext DEF JobPosts, JobInv, JobTied
<1> DEFINE a == [job EXCEPT !.at = "persist"]
           b == [a EXCEPT !.id = id]
<1>3. job' = b /\ job \in JobRecs /\ id \in Nat
  BY <1>1, <1>2 DEF TiesInv, Shape, NextCopy
<1>4. a \in JobRecs /\ a.at = "persist" /\ a.todo = job.todo
  BY <1>3, JobAt, "persist" \in {"idle", "create", "select", "entries", "post", "persist"}
<1> HIDE DEF a
<1>5. b \in JobRecs /\ b.at = "persist" /\ b.todo = job.todo /\ b.id = id
  BY <1>3, <1>4, JobId
<1> HIDE DEF b
<1> QED
  BY <1>1, <1>2, <1>3, <1>5

LEMMA JobPostsStep ==
  ASSUME MirrorInv, JobPosts
  PROVE  MirrorInv'
<1>1. TiesInv /\ OnceInv /\ JobInv /\ HealedInOrder /\ Shape
  BY DEF MirrorInv, TiesInv
<1>2. PICK e, id : e = job.todo[1] /\ id = NextCopy
  OBVIOUS
<1>7. /\ job' \in JobRecs /\ job'.at = "persist" /\ job'.id = id /\ job'.todo = job.todo
      /\ job.todo # << >> /\ Create(e, "job")
      /\ UNCHANGED <<show, entry, cache, call, deletes>>
  BY <1>1, <1>2, JobPostsDoes
<1>4. e \in Nat /\ Local(e) /\ ListedTied(e) /\ ListInOrder(e) /\ JobPosted(e)
  BY <1>1, <1>2, <1>7, PostedFacts
<1>3. UNCHANGED <<show, entry, cache, call, deletes>> /\ job.todo # << >> /\ Create(e, "job")
  BY <1>7
<1>5. /\ NoneBy("live") /\ DOMAIN tuba' = DOMAIN tuba \cup {id}
      /\ tuba'[id].of = e /\ tuba'[id].by = "job" /\ id \in Nat \ {0}
  BY <1>2, <1>4 DEF JobPosted
<1>6. Effects /\ OnlyTracks /\ NumbersKept
  BY <1>4 DEF JobPosted
<1>8. TiesInv'
  <2>1. deletes' \subseteq DOMAIN tuba'
    BY <1>1, <1>3, <1>5 DEF Shape
  <2> QED
    BY <1>1, <1>3, <1>6, <1>7, <2>1, OtherTies
<1>9. OnceInv'
  BY <1>1, <1>3, <1>5, <1>6, QuietOnce, CallsSame DEF OnceQuiet
<1>10. JobInv'
  <2>1. JobTied'
    BY <1>1, <1>2, <1>3, <1>5, <1>7 DEF JobInv, JobTied, CopyOf
  <2>2. ASSUME NEW k \in DOMAIN job.todo
        PROVE  ListedTied(job.todo[k])' /\ ListInOrder(job.todo[k])'
    <3>1. PICK f : f = job.todo[k] /\ ListedTied(f) /\ ListInOrder(f) /\ f \in DOMAIN entry
      BY <1>1 DEF JobInv, ListedTied, Local
    <3>2. ListedTied(f)'
      BY <1>1, <1>6, <3>1, ListedKept DEF NumbersKept
    <3>3. ListInOrder(f)'
      BY <1>1, <1>6, <1>7, <3>1, OrderKept DEF Listed
    <3> QED
      BY <1>7, <3>1, <3>2, <3>3 DEF ListedTied, Local, ListInOrder, Before, Listed, HasCopy
  <2> QED
    BY <1>7, <2>1, <2>2 DEF JobInv
<1>11. HealedInOrder'
  BY <1>2, <1>3, <1>6, <1>8, JobCopyHealed
<1> QED
  BY <1>8, <1>9, <1>10, <1>11 DEF MirrorInv

LEMMA JobPostFailsDoes ==
  ASSUME TiesInv, JobInv, JobPostFails
  PROVE  /\ UNCHANGED <<show, entry, cache, call, deletes>> /\ job.todo # << >> /\ job.id = 0
         /\ UNCHANGED tuba \/ (MayLose(1) /\ Create(job.todo[1], "job"))
         /\ JobLets /\ job'.todo = << >>
<1>1. /\ UNCHANGED <<show, entry, cache, call, deletes>> /\ job.todo # << >> /\ job.id = 0
      /\ job' = StopShow /\ Shape
      /\ UNCHANGED tuba \/ (MayLose(1) /\ Create(job.todo[1], "job"))
  BY HeadIsNext DEF JobPostFails, TiesInv, JobInv, JobTied
<1> QED
  BY <1>1, StopShowLets

LEMMA JobPostFailsStep ==
  ASSUME MirrorInv, JobPostFails
  PROVE  MirrorInv'
<1>1. TiesInv /\ OnceInv /\ JobInv /\ HealedInOrder /\ Shape
  BY DEF MirrorInv, TiesInv
<1>2. PICK e : e = job.todo[1]
  OBVIOUS
<1>3. /\ UNCHANGED <<show, entry, cache, call, deletes>> /\ job.todo # << >>
      /\ UNCHANGED tuba \/ Create(e, "job")
      /\ JobLets /\ job'.todo = << >>
  BY <1>1, <1>2, JobPostFailsDoes
<1>4. CASE UNCHANGED tuba
  BY <1>1, <1>3, <1>4, ShowSame, JobLetsStep
<1>5. CASE Create(e, "job")
  <2>1. JobPosted(e)
    BY <1>1, <1>2, <1>3, <1>5, PostedFacts
  <2>2. NoneBy("live") /\ Effects /\ OnlyTracks /\ NumbersKept
    BY <2>1 DEF JobPosted
  <2>3. TiesInv'
    <3>1. deletes' \subseteq DOMAIN tuba'
      BY <1>1, <1>3, <2>1 DEF Shape, JobPosted
    <3> QED
      BY <1>1, <1>3, <2>2, <3>1, OtherTies DEF JobLets
  <2>4. OnceInv'
    BY <1>1, <1>3, <2>2, QuietOnce, CallsSame DEF OnceQuiet
  <2>5. JobInv'
    BY <1>1, <1>3, <2>2, LetsJob
  <2>6. HealedInOrder'
    BY <1>2, <1>3, <1>5, <2>2, <2>3, JobCopyHealed
  <2> QED
    BY <2>3, <2>4, <2>5, <2>6 DEF MirrorInv
<1> QED
  BY <1>3, <1>4, <1>5

LEMMA TailFacts ==
  ASSUME NEW s \in Seq(Nat), s # << >>
  PROVE  /\ Tail(s) \in Seq(Nat)
         /\ \A k \in DOMAIN Tail(s) : k \in Nat \ {0} /\ k + 1 \in DOMAIN s /\ Tail(s)[k] = s[k + 1]
         /\ \A k \in DOMAIN s : k # 1 => \E j \in DOMAIN Tail(s) : Tail(s)[j] = s[k]
<1>1. /\ Tail(s) \in Seq(Nat) /\ Len(s) \in Nat /\ Len(s) # 0
      /\ DOMAIN s = 1 .. Len(s) /\ DOMAIN Tail(s) = 1 .. Len(s) - 1
      /\ \A k \in 1 .. Len(s) - 1 : Tail(s)[k] = s[k + 1]
  OBVIOUS
<1>2. ASSUME NEW k \in DOMAIN s, k # 1 PROVE \E j \in DOMAIN Tail(s) : Tail(s)[j] = s[k]
  <2>1. PICK j \in 1 .. Len(s) - 1 : j + 1 = k
    <3>1. k - 1 \in 1 .. Len(s) - 1 /\ (k - 1) + 1 = k
      BY <1>1, <1>2
    <3> QED BY <3>1
  <2> QED
    BY <1>1, <2>1
<1>3. \A k \in DOMAIN Tail(s) : k \in Nat \ {0} /\ k + 1 \in DOMAIN s
  BY <1>1
<1> QED
  BY <1>1, <1>2, <1>3

\* The job numbers the head of its list, or finds it numbered or deleted.
JobNumbers(e, id) ==
  /\ e = job.todo[1] /\ id = job.id /\ e \in DOMAIN entry /\ ~entry[e].native
  /\ id \in DOMAIN tuba /\ tuba[id].of = e /\ tuba[id].by = "job"
  /\ \/ entry' = [entry EXCEPT ![e].legacy = id]
     \/ UNCHANGED entry /\ (entry[e].gone \/ entry[e].legacy # 0)

LEMMA JobPersistsDoes ==
  ASSUME TiesInv, JobInv, JobPersists
  PROVE  /\ job.todo # << >> /\ job.todo \in Seq(Nat)
         /\ UNCHANGED <<show, tuba, cache, call, deletes>>
         /\ job' \in JobRecs /\ job'.at = "post" /\ job'.id = 0
         /\ job'.todo = Tail(job.todo)
         /\ \E e, id : JobNumbers(e, id)
<1>1. Shape /\ JobTied
  BY DEF TiesInv, JobInv
<1>2. /\ UNCHANGED <<show, tuba, cache, call, deletes>> /\ job.at = "persist"
      /\ job' = [job EXCEPT !.at = "post", !.todo = Tail(job.todo), !.id = 0]
      /\ job.todo # << >> /\ job.todo \in Seq(Nat)
  BY <1>1 DEF JobPersists, JobTied, Shape, JobRecs
<1>3. PICK e, id : /\ e = job.todo[1] /\ id = job.id /\ Head(job.todo) = e
                   /\ e \in DOMAIN entry /\ ~entry[e].native
                   /\ id \in DOMAIN tuba /\ tuba[id].of = e /\ tuba[id].by = "job"
  BY <1>1, <1>2, HeadIsNext DEF JobTied, CopyOf, ListedTied, Local
<1>4. JobNumbers(e, id)
  BY <1>3 DEF JobPersists, JobNumbers, Live
<1> DEFINE t == Tail(job.todo)
           a == [job EXCEPT !.at = "post"]
           b == [a EXCEPT !.todo = t]
           c == [b EXCEPT !.id = 0]
<1>5. job' = c /\ job \in JobRecs
  BY <1>1, <1>2 DEF Shape
<1>6. t \in Seq(Nat)
  BY <1>2, TailFacts
<1> HIDE DEF t
<1>7. a \in JobRecs /\ a.at = "post"
  BY <1>5, JobAt, "post" \in {"idle", "create", "select", "entries", "post", "persist"}
<1> HIDE DEF a
<1>8. b \in JobRecs /\ b.at = "post" /\ b.todo = t
  BY <1>6, <1>7, JobTodo
<1> HIDE DEF b
<1>9. c \in JobRecs /\ c.at = "post" /\ c.todo = t /\ c.id = 0
  BY <1>8, JobId, 0 \in Nat
<1> HIDE DEF c
<1> QED
  BY <1>2, <1>4, <1>5, <1>9 DEF t

\* The job has no more to do with an entry.
Settled(e) == entry[e].gone \/ entry[e].legacy # 0

LEMMA NumbersFacts ==
  ASSUME TiesInv, UNCHANGED <<show, tuba>>, NEW e, NEW id, JobNumbers(e, id)
  PROVE  /\ Effects /\ OnlyTracks /\ NoneBy("live") /\ NoneBy("job")
         /\ \A f \in DOMAIN entry : f # e => entry'[f].legacy = entry[f].legacy
         /\ entry'[e].legacy \in {entry[e].legacy, id} /\ Settled(e)'
<1>1. Shape /\ id \in Nat \ {0}
  BY DEF TiesInv, Shape, JobNumbers
<1>2. CASE entry' = [entry EXCEPT ![e].legacy = id]
  <2>1. /\ EntryStep /\ OnlyTracks /\ entry'[e].legacy = id
        /\ \A f \in DOMAIN entry : f # e => entry'[f].legacy = entry[f].legacy
    BY <1>1, <1>2, EntryNumbered DEF JobNumbers
  <2> QED
    BY <1>1, <2>1, ShowSame, TubaSame DEF Effects, Settled
<1>3. CASE UNCHANGED entry /\ (entry[e].gone \/ entry[e].legacy # 0)
  BY <1>1, <1>3, EntrySame, ShowSame, TubaSame DEF Effects, NumbersKept, Settled
<1> QED
  BY <1>2, <1>3 DEF JobNumbers

LEMMA JobPersistsStep ==
  ASSUME MirrorInv, JobPersists
  PROVE  MirrorInv'
<1>1. TiesInv /\ OnceInv /\ JobInv /\ HealedInOrder /\ Shape /\ JobTied
  BY DEF MirrorInv, TiesInv, JobInv
<1>7. /\ job' \in JobRecs /\ job'.at = "post" /\ job'.id = 0 /\ job'.todo = Tail(job.todo)
      /\ UNCHANGED <<show, tuba, cache, call, deletes>>
      /\ job.todo # << >> /\ job.todo \in Seq(Nat)
  BY <1>1, JobPersistsDoes
<1>2. UNCHANGED <<show, tuba, cache, call, deletes>> /\ job.todo # << >> /\ job.todo \in Seq(Nat)
  BY <1>7
<1>4. PICK e, id : JobNumbers(e, id)
  BY <1>1, JobPersistsDoes
<1>3. /\ e = job.todo[1] /\ id \in DOMAIN tuba /\ tuba[id].of = e
  BY <1>4 DEF JobNumbers
<1>6. /\ Effects /\ OnlyTracks /\ NoneBy("live") /\ NoneBy("job")
      /\ \A f \in DOMAIN entry : f # e => entry'[f].legacy = entry[f].legacy
  BY <1>1, <1>2, <1>4, NumbersFacts
<1>5. OnlyTracks /\ \A f \in DOMAIN entry : f # e => entry'[f].legacy = entry[f].legacy
  BY <1>6
<1>8. TiesInv'
  <2>1. deletes' \subseteq DOMAIN tuba'
    BY <1>1, <1>2 DEF Shape
  <2> QED
    BY <1>1, <1>2, <1>6, <1>7, <2>1, OtherTies
<1>9. OnceInv'
  BY <1>1, <1>2, <1>5, <1>6, QuietOnce, CallsSame DEF OnceQuiet
<1>10. HealedInOrder'
  BY <1>1, <1>6, <1>8, QuietHealed
<1>11. JobInv'
  <2>1. \A j, k \in DOMAIN job.todo : j < k => job.todo[j] < job.todo[k]
    BY <1>1 DEF JobTied
  <2>2. PICK t : t = job'.todo
    OBVIOUS
  <2>3. \A k \in DOMAIN t : /\ k \in Nat \ {0} /\ k + 1 \in DOMAIN job.todo
                            /\ t[k] = job.todo[k + 1]
    BY <1>2, <1>7, <2>2, TailFacts
  <2>4. JobTied'
    <3>1. job'.at = "post" /\ job'.id = 0 /\ job'.todo = t /\ job.todo \in Seq(Nat)
      BY <1>7, <2>2
    <3>2. ASSUME NEW j \in DOMAIN t, NEW k \in DOMAIN t, j < k PROVE t[j] < t[k]
      <4>1. j + 1 < k + 1 /\ t[j] = job.todo[j + 1] /\ t[k] = job.todo[k + 1]
        BY <2>3, <3>2
      <4> QED
        BY <2>1, <2>3, <4>1
    <3> QED
      BY <3>1, <3>2 DEF JobTied
  <2>5. \A f : Listed(f) => Listed(f)' \/ HasCopy(f)
    <3> SUFFICES ASSUME NEW f, NEW k \in DOMAIN job.todo, job.todo[k] = f
                 PROVE  Listed(f)' \/ HasCopy(f)
      BY DEF Listed
    <3>1. CASE k = 1
      BY <1>3, <3>1 DEF HasCopy
    <3>2. CASE k # 1
      <4>1. \E j \in DOMAIN Tail(job.todo) : Tail(job.todo)[j] = job.todo[k]
        BY <1>2, <3>2, TailFacts
      <4> QED
        BY <1>7, <4>1 DEF Listed
    <3> QED
      BY <3>1, <3>2
  <2>6. ASSUME NEW k \in DOMAIN t PROVE ListedTied(t[k])' /\ ListInOrder(t[k])'
    <3>1. PICK f : f = t[k] /\ f = job.todo[k + 1] /\ k + 1 \in DOMAIN job.todo
      BY <2>3
    <3>2. ListedTied(f) /\ ListInOrder(f) /\ f \in DOMAIN entry
      BY <1>1, <3>1 DEF JobInv, ListedTied, Local
    <3>3. f # e
      <4>1. 1 \in DOMAIN job.todo /\ 1 < k + 1 /\ e \in Nat
        BY <1>1, <1>2, <1>3, <2>3, HeadIsNext
      <4> QED
        BY <1>3, <2>1, <3>1, <4>1
    <3>4. ListedTied(f)'
      BY <1>1, <1>5, <1>6, <3>2, <3>3, ListedKept
    <3>5. ListInOrder(f)'
      BY <1>1, <1>6, <2>5, <3>2, OrderKept
    <3> QED
      BY <3>1, <3>4, <3>5
  <2> QED
    BY <2>2, <2>4, <2>6 DEF JobInv
<1> QED
  BY <1>8, <1>9, <1>10, <1>11 DEF MirrorInv

LEMMA JobTakesShowStep ==
  ASSUME MirrorInv, NEW on \in BOOLEAN, JobTakesShow(on)
  PROVE  MirrorInv'
<1>1. TiesInv /\ OnceInv /\ JobInv /\ HealedInOrder /\ Shape /\ JobTied
  BY DEF MirrorInv, TiesInv, JobInv
<1>2. UNCHANGED <<show, entry, tuba, cache, call, deletes>> /\ job.at = "select" /\ job.id = 0
  BY <1>1 DEF JobTakesShow, JobTied
<1>3. PICK s : s = First(job.list)
  OBVIOUS
<1>4. PICK q : q = IF on THEN InPlayOrder(Orphans(s)) ELSE << >>
  OBVIOUS
<1>5. Orphans(s) \in SUBSET (1 .. Len(entry)) /\ Len(entry) \in Nat
  BY <1>1 DEF Orphans, Live, Shape
<1>6. /\ q \in Seq(Nat)
      /\ \A k \in DOMAIN q : q[k] \in Orphans(s)
      /\ \A j, k \in DOMAIN q : j < k => q[j] < q[k]
      /\ \A k \in DOMAIN q : \A e \in Orphans(s) : \E m \in DOMAIN q : q[m] = e
  <2>1. CASE on
    BY <1>4, <1>5, <2>1, InPlayOrderFacts
  <2>2. CASE ~on
    BY <1>4, <2>2
  <2> QED
    BY <2>1, <2>2
<1>7. job' \in JobRecs /\ job'.todo = q /\ job'.id = 0 /\ job'.at # "persist"
  <2> DEFINE l == job.list \ {First(job.list)}
             n == IF on THEN "post" ELSE "select"
             a == [job EXCEPT !.list = l]
             b == [a EXCEPT !.todo = q]
             c == [b EXCEPT !.at = n]
  <2>1. job' = c /\ job \in JobRecs
    BY <1>1, <1>3, <1>4 DEF Shape, JobTakesShow
  <2>2. l \in SUBSET Shows /\ n \in {"idle", "create", "select", "entries", "post", "persist"}
        /\ n # "persist"
    BY <1>1 DEF Shape, JobRecs
  <2> HIDE DEF l, n
  <2>3. a \in JobRecs /\ a.id = 0
    BY <1>2, <2>1, <2>2, JobList
  <2> HIDE DEF a
  <2>4. b \in JobRecs /\ b.id = 0 /\ b.todo = q
    BY <1>6, <2>3, JobTodo
  <2> HIDE DEF b
  <2>5. c \in JobRecs /\ c.id = 0 /\ c.todo = q /\ c.at = n
    BY <2>2, <2>4, JobAt
  <2> HIDE DEF c
  <2> QED
    BY <2>1, <2>2, <2>5
<1>8. Effects /\ OnlyTracks /\ NoneBy("live") /\ NoneBy("job")
  BY <1>1, <1>2, ShowSame, NothingChanges
<1>9. TiesInv'
  BY <1>1, <1>2, <1>7, <1>8, OtherTies DEF Shape
<1>10. OnceInv' /\ HealedInOrder'
  BY <1>1, <1>2, <1>8, <1>9, QuietOnce, QuietHealed, CallsSame DEF OnceQuiet
<1>11. JobInv'
  <2>1. JobTied'
    BY <1>6, <1>7 DEF JobTied
  <2>2. ASSUME NEW k \in DOMAIN q PROVE ListedTied(q[k])' /\ ListInOrder(q[k])'
    <3>1. PICK e : e = q[k] /\ e \in DOMAIN entry /\ entry[e].legacy = 0 /\ entry[e].show = s
      BY <1>6 DEF Orphans, Live
    <3>2. ListedTied(e)'
      BY <1>1, <1>2, <3>1 DEF TiesInv, EntriesTied, EntryTied, ListedTied, Local
    <3>3. ASSUME NEW f, Before(f, e) PROVE Listed(f)' \/ HasCopy(f)
      <4>1. f \in DOMAIN entry /\ ~entry[f].gone /\ ~entry[f].native /\ entry[f].show = s
        BY <3>1, <3>3 DEF Before
      <4>2. CASE entry[f].legacy = 0
        <5>1. f \in Orphans(s)
          BY <4>1, <4>2 DEF Orphans, Live
        <5> QED
          BY <1>6, <1>7, <5>1 DEF Listed
      <4>3. CASE entry[f].legacy # 0
        BY <1>1, <4>1, <4>3 DEF TiesInv, EntriesTied, EntryTied, CopyOf, HasCopy
      <4> QED
        BY <4>2, <4>3
    <3>4. ListInOrder(e)'
      BY <1>2, <3>3 DEF ListInOrder, Before, HasCopy
    <3> QED
      BY <1>7, <3>1, <3>2, <3>4 DEF ListedTied, Local, ListInOrder, Before, Listed, HasCopy
  <2> QED
    BY <1>7, <2>1, <2>2 DEF JobInv
<1> QED
  BY <1>9, <1>10, <1>11 DEF MirrorInv

-----------------------------------------------------------------------------
(* The invariant.                                                          *)

LEMMA MirrorInit == Init => MirrorInv
<1> SUFFICES ASSUME Init PROVE MirrorInv
  OBVIOUS
<1>1. /\ entry = << >> /\ tuba = << >> /\ deletes = {} /\ job = NoJob
      /\ call = [h \in Handlers |-> Idle] /\ cache = [e \in EntryIds |-> 0]
      /\ show = [s \in Shows |-> [phase |-> "none", mirrored |-> FALSE, age |-> "settling"]]
  BY DEF Init
<1>2. /\ \A h \in Handlers : call[h] = Idle
      /\ Idle \in CallRecs /\ Idle.at = "idle"
      /\ DOMAIN entry = {} /\ DOMAIN tuba = {}
  BY <1>1 DEF Idle, CallRecs, Steps, Stub
<1>3. Shape
  BY <1>1, <1>2, NoJobFacts, MirrorAssumption DEF Shape, ShowRecs
<1>4. EntriesTied /\ CopiesTied /\ CacheTied
  BY <1>1, <1>2 DEF EntriesTied, CopiesTied, CacheTied
<1>5. CallsTied
  BY <1>2 DEF CallsTied, CallTied
<1>6. OnceInv
  BY <1>2 DEF OnceInv, LiveOnce, PostsOnce, SeeksOnce, MarkersReached, Posting, At, Seeks, SeeksBy
<1>7. JobInv
  BY <1>1, NoJobFacts DEF JobInv, JobTied
<1>8. HealedInOrder
  BY <1>2 DEF HealedInOrder
<1> QED
  BY <1>3, <1>4, <1>5, <1>6, <1>7, <1>8 DEF MirrorInv, TiesInv

\* A step of no part of the job's.
Calm == Effects /\ TiesInv' /\ OnceInv' /\ JobQuiet

LEMMA CalmMirror ==
  ASSUME MirrorInv, Calm
  PROVE  MirrorInv'
BY QuietJob, QuietHealed DEF Calm, MirrorInv, JobQuiet

LEMMA RequestsStep ==
  ASSUME MirrorInv, NEW h \in Handlers, Requests(h)
  PROVE  Calm
<1>1. TiesInv /\ OnceInv
  BY DEF MirrorInv
<1>2. ASSUME NEW s \in Shows, GoLive(h, s) PROVE Calm
  BY <1>1, <1>2, GoLiveStep, GoLiveOnce DEF Calm
<1>3. ASSUME NEW s \in Shows, AddEntry(h, s) PROVE Calm
  BY <1>1, <1>3, AddEntryStep, AddEntryOnce DEF Calm
<1>4. ASSUME NEW s \in Shows, EndShow(h, s) PROVE Calm
  BY <1>1, <1>4, EndShowStep, EndShowOnce DEF Calm
<1>5. ASSUME NEW e \in Live, UpdateEntry(h, e) PROVE Calm
  BY <1>1, <1>5, UpdateEntryStep, QuietOnce DEF Calm
<1>6. ASSUME NEW e \in Live, DeleteEntry(h, e) PROVE Calm
  BY <1>1, <1>6, DeleteEntryStep, QuietOnce DEF Calm
<1> QED
  BY <1>2, <1>3, <1>4, <1>5, <1>6 DEF Requests

LEMMA HandlersStep ==
  ASSUME MirrorInv, NEW h \in Handlers, Mirror(h)
  PROVE  Calm
<1>1. TiesInv /\ OnceInv
  BY DEF MirrorInv
<1>2. CASE MirrorCreateShow(h)
  BY <1>1, <1>2, MirrorCreateShowStep, QuietOnce DEF Calm
<1>3. CASE MirrorSignoff(h)
  BY <1>1, <1>3, MirrorSignoffStep, QuietOnce DEF Calm
<1>4. CASE MirrorAnnouncement(h)
  BY <1>1, <1>4, MirrorAnnouncementStep, MirrorAnnouncementOnce DEF Calm
<1>5. CASE MirrorCreateEntry(h)
  BY <1>1, <1>5, MirrorCreateEntryStep, MirrorCreateEntryOnce DEF Calm
<1>6. CASE PersistLegacyEntryId(h)
  BY <1>1, <1>6, PersistLegacyEntryIdStep, QuietOnce DEF Calm
<1>7. CASE MirrorUpdateEntry(h)
  BY <1>1, <1>7, MirrorUpdateEntryStep, QuietOnce DEF Calm
<1>8. CASE PatchDone(h)
  BY <1>1, <1>8, PatchDoneStep, QuietOnce DEF Calm
<1>9. CASE MirrorDeleteEntry(h)
  BY <1>1, <1>9, MirrorDeleteEntryStep, QuietOnce DEF Calm
<1> QED
  BY <1>2, <1>3, <1>4, <1>5, <1>6, <1>7, <1>8, <1>9 DEF Mirror

LEMMA OutsideStep ==
  ASSUME MirrorInv, Queue \/ Tubafrenzy \/ (\E s \in Shows : Ages(s)) \/ Restart
  PROVE  Calm
<1>1. TiesInv /\ OnceInv
  BY DEF MirrorInv
<1>2. CASE QueueDies
  BY <1>1, <1>2, QueueDiesStep, QuietOnce DEF Calm
<1>3. ASSUME NEW id \in deletes, RunDelete(id) PROVE Calm
  BY <1>1, <1>3, RunDeleteStep, QuietOnce DEF Calm
<1>4. ASSUME NEW s \in Shows \cup {Stub}, TubafrenzyAdds(s) PROVE Calm
  BY <1>1, <1>4, TubafrenzyAddsStep, QuietOnce DEF Calm
<1>5. ASSUME NEW i \in DOMAIN tuba, WebhookDelete(i) PROVE Calm
  BY <1>1, <1>5, WebhookDeleteStep, QuietOnce DEF Calm
<1>6. ASSUME NEW i \in DOMAIN tuba, NEW s \in Shows \cup {Stub}, WebhookUpsert(i, s) PROVE Calm
  BY <1>1, <1>6, WebhookUpsertStep, QuietOnce DEF Calm
<1>7. ASSUME NEW s \in Shows, Ages(s) PROVE Calm
  BY <1>1, <1>7, AgesStep, QuietOnce DEF Calm
<1>8. CASE Restart
  BY <1>1, <1>8, RestartStep, QuietOnce DEF Calm
<1> QED
  BY <1>2, <1>3, <1>4, <1>5, <1>6, <1>7, <1>8 DEF Queue, Tubafrenzy

LEMMA JobStep ==
  ASSUME MirrorInv, JobStart \/ JobGoesOn
  PROVE  MirrorInv'
<1>1. Shape /\ JobTied
  BY DEF MirrorInv, TiesInv, JobInv
<1>2. CASE JobStart
  BY <1>1, <1>2, JobStartLets, ShowSame, JobLetsStep DEF JobStart
<1>3. ASSUME NEW works \in BOOLEAN, JobCreatesShow(works) PROVE MirrorInv'
  <2>1. UNCHANGED <<entry, tuba, cache, call, deletes>>
    BY <1>3 DEF JobCreatesShow
  <2> QED
    BY <1>1, <1>3, <2>1, JobCreatesShowLets, JobShowStep, JobLetsStep
<1>4. CASE JobSelects
  BY <1>1, <1>4, JobSelectsLets, ShowSame, JobLetsStep DEF JobSelects
<1>5. CASE JobFinishes
  BY <1>1, <1>5, NoJobLets, ShowSame, JobLetsStep DEF JobFinishes
<1>6. ASSUME NEW on \in BOOLEAN, JobTakesShow(on) PROVE MirrorInv'
  BY <1>6, JobTakesShowStep
<1>7. CASE JobPosts
  BY <1>7, JobPostsStep
<1>8. CASE JobPostFails
  BY <1>8, JobPostFailsStep
<1>9. CASE JobPersists
  BY <1>9, JobPersistsStep
<1>10. CASE JobSignsOff
  BY <1>1, <1>10, JobSignsOffLets, ShowSame, JobLetsStep DEF JobSignsOff
<1>11. CASE JobAborts
  BY <1>1, <1>11, NoJobLets, ShowSame, JobLetsStep DEF JobAborts
<1> QED
  BY <1>2, <1>3, <1>4, <1>5, <1>6, <1>7, <1>8, <1>9, <1>10, <1>11 DEF JobGoesOn

LEMMA MirrorStutters ==
  ASSUME MirrorInv, UNCHANGED <<show, entry, tuba, cache, call, deletes, job>>
  PROVE  Calm
<1>1. TiesInv /\ OnceInv /\ Shape
  BY DEF MirrorInv, TiesInv
<1>2. Effects /\ OnlyTracks /\ NumbersKept /\ NoneBy("live") /\ NoneBy("job")
  BY <1>1, ShowSame, NothingChanges
<1>3. TiesInv'
  BY <1>1, <1>2, OtherTies DEF Shape
<1> QED
  BY <1>1, <1>2, <1>3, CallsSame, QuietOnce, QuietJobs DEF OnceQuiet, Calm

LEMMA MirrorStep == MirrorInv /\ [Next]_vars => MirrorInv'
<1> SUFFICES ASSUME MirrorInv, [Next]_vars PROVE MirrorInv'
  OBVIOUS
<1>1. CASE UNCHANGED vars
  BY <1>1, MirrorStutters, CalmMirror DEF vars
<1>2. CASE Next
  BY <1>2, RequestsStep, HandlersStep, OutsideStep, CalmMirror, JobStep DEF Next
<1> QED
  BY <1>1, <1>2

LEMMA MirrorHolds == Spec => []MirrorInv
BY MirrorInit, MirrorStep, PTL DEF Spec

-----------------------------------------------------------------------------
(* The properties.                                                         *)

LEMMA AtMostOne ==
  ASSUME NEW S, \A x, y \in S : x = y
  PROVE  Cardinality(S) <= 1
<1>1. CASE S = {}
  BY <1>1, FS_EmptySet
<1>2. CASE S # {}
  <2>1. \E x : S = {x}
    BY <1>2
  <2> QED
    BY <2>1, FS_Singleton
<1> QED
  BY <1>1, <1>2

LEMMA JobCopiesOnce ==
  ASSUME MirrorInv, NEW e \in DOMAIN entry
  PROVE  Cardinality(CopiesOf(e, "job") \ Lost) <= 1
<1>1. /\ Shape /\ EntriesTied /\ CopiesTied /\ CallsTied /\ JobTied
      /\ \A k \in DOMAIN job.todo : ListedTied(job.todo[k])
  BY DEF MirrorInv, TiesInv, JobInv
\* A copy of the job's that is not lost is in its hands, or the entry's own.
<1>2. ASSUME NEW i \in CopiesOf(e, "job") \ Lost
      PROVE  i \in DOMAIN tuba /\ tuba[i].of = e /\ tuba[i].by = "job"
             /\ (i = job.id \/ i = entry[e].legacy)
  <2>1. i \in DOMAIN tuba /\ tuba[i].of = e /\ tuba[i].by = "job"
    BY DEF CopiesOf
  <2>2. i \in InFlight \/ i = entry[e].legacy
    BY <2>1 DEF Lost
  <2>3. ASSUME NEW h \in Handlers, At(h, "persist"), i = call[h].id PROVE FALSE
    BY <1>1, <2>1, <2>3 DEF CallsTied, CallTied, At
  <2> QED
    BY <2>1, <2>2, <2>3 DEF InFlight
<1>3. ASSUME NEW i \in CopiesOf(e, "job") \ Lost, NEW j \in CopiesOf(e, "job") \ Lost,
             i = job.id, j = entry[e].legacy
      PROVE  i = j
  <2>1. job.at = "persist" /\ job.todo # << >> /\ tuba[job.id].of = job.todo[1]
    BY <1>1, <1>2, <1>3 DEF JobTied, CopyOf, Shape
  <2>2. 1 \in DOMAIN job.todo /\ job.todo[1] = e
    BY <1>1, <1>2, <1>3, <2>1 DEF Shape, JobRecs
  <2>3. entry[e].legacy # 0 => tuba[entry[e].legacy].by # "job"
    BY <1>1, <2>2 DEF ListedTied
  <2> QED
    BY <1>1, <1>2, <1>3, <2>3 DEF Shape
<1>4. \A i, j \in CopiesOf(e, "job") \ Lost : i = j
  BY <1>2, <1>3
<1> QED
  BY <1>4, AtMostOne

LEMMA CopiesFollow == MirrorInv => CopiesAreRight
<1> SUFFICES ASSUME MirrorInv PROVE CopiesAreRight
  OBVIOUS
<1>1. Shape /\ EntriesTied /\ CopiesTied /\ CacheTied /\ CallsTied /\ LiveOnce
  BY DEF MirrorInv, TiesInv, OnceInv
<1>2. OwnCopies
  BY <1>1 DEF OwnCopies, CacheTied, CopyOf, EntriesTied, EntryTied, CallsTied, CallTied, At
<1>3. ASSUME NEW e \in DOMAIN entry PROVE Cardinality(CopiesOf(e, "live")) <= 1
  <2>1. \A i, j \in CopiesOf(e, "live") : i = j
    BY <1>1 DEF CopiesOf, LiveOnce
  <2> QED
    BY <2>1, AtMostOne
<1>4. OneCopyEach
  BY <1>3, JobCopiesOnce DEF OneCopyEach
<1>5. NoLoop
  BY <1>1 DEF NoLoop, CopiesTied, CopyTied, Local
<1> QED
  BY <1>2, <1>4, <1>5 DEF CopiesAreRight

\* Whatever the order of replies, POSTs, writes, webhooks and restarts: the
\* cached number, the written number and the PATCH under way of an entry lead
\* to its own copy; the live mirror POSTs a row once, and the job has at most
\* one copy of it whose number was not lost; and nothing that came from
\* tubafrenzy is sent back to it.
THEOREM CopiesStayRight == Spec => []CopiesAreRight
BY MirrorHolds, CopiesFollow, PTL

\* The nightly job leaves no gap before an entry that it has sent, and comes
\* back to none: it sends a show in play order, from the first entry on that
\* is still there, whatever the live mirror, the DJs and the webhook do.
THEOREM ShowsHealInOrder == Spec => []HealedInOrder
<1>1. MirrorInv => HealedInOrder
  BY DEF MirrorInv
<1> QED
  BY MirrorHolds, <1>1, PTL

-----------------------------------------------------------------------------
(* The types, and the number of copies: two of an entry, but for the lost. *)

\* Copies of the job's are its entry's only one, the webhook has brought them
\* back under another entry, or they are among the G whose number got lost.
Given(i) == \E e \in DOMAIN entry : entry[e].native /\ entry[e].legacy = i
Plain(i, G) == i \in DOMAIN tuba /\ i \notin G /\ tuba[i].by = "job" /\ ~Given(i)
Astray(G) ==
  /\ G \subseteq DOMAIN tuba /\ Cardinality(G) <= MaxLost
  /\ \A i \in G : tuba[i].by = "job" /\ i # job.id /\ entry[tuba[i].of].legacy # i
PlainOnce(i, G) ==
  /\ \A j : Plain(j, G) /\ tuba[j].of = tuba[i].of => i = j
  /\ Settled(tuba[i].of) \/ i = job.id
  /\ Listed(tuba[i].of) => i = job.id
Counts(G) == Astray(G) /\ \A i : Plain(i, G) => PlainOnce(i, G)
OwnGiven == \A i \in DOMAIN tuba : tuba[i].by = "tubafrenzy" => Given(i)
CountInv == OwnGiven /\ \E G \in SUBSET DOMAIN tuba : Counts(G)

\* The other ids of a handler, and the shows that the process knows.
CallIdFits(c) ==
  c.at \notin {"persist", "patch", "enqueue"} => c.id = 0 \/ (c.id = 1 /\ MaxEntries # 0)
CallsFit == \A h \in Handlers : CallIdFits(call[h])
RestInv == showCache \subseteq Shows /\ CallsFit

LEMMA GivenKept ==
  ASSUME TiesInv, Effects, NEW i, Given(i)
  PROVE  Given(i)'
<1>1. PICK e \in DOMAIN entry : entry[e].native /\ entry[e].legacy = i
  BY DEF Given
<1>2. e \in DOMAIN entry' /\ entry'[e].native /\ entry'[e].legacy = i
  BY <1>1 DEF Effects, EntryStep, EntriesKept, NewNumber
<1> QED
  BY <1>2 DEF Given

LEMMA OwnGivenKept ==
  ASSUME TiesInv, OwnGiven, Effects
  PROVE  OwnGiven'
<1> SUFFICES ASSUME NEW i \in DOMAIN tuba', tuba'[i].by = "tubafrenzy" PROVE Given(i)'
  BY DEF OwnGiven
<1>1. CASE i \in DOMAIN tuba
  <2>1. Given(i)
    BY <1>1 DEF OwnGiven, Effects, TubaStep, CopiesKept
  <2> QED
    BY <2>1, GivenKept
<1>2. CASE i \notin DOMAIN tuba
  BY <1>2 DEF Effects, TubaStep, NewCopy, Given
<1> QED
  BY <1>1, <1>2

LEMMA SettledKept ==
  ASSUME TiesInv, Effects, NEW e \in DOMAIN entry, Settled(e)
  PROVE  Settled(e)'
<1>1. /\ entry[e].gone => entry'[e].gone
      /\ entry'[e].legacy = entry[e].legacy \/ NewNumber(e)
      /\ 0 \notin DOMAIN tuba
  BY DEF Effects, EntryStep, EntriesKept, TiesInv, Shape
<1> QED
  BY <1>1 DEF Settled, NewNumber

LEMMA AstrayKept ==
  ASSUME TiesInv, Effects, NEW G, Astray(G), job'.id \notin G,
         \A e \in DOMAIN entry : entry'[e].legacy = entry[e].legacy \/ entry'[e].legacy \notin G
  PROVE  Astray(G)'
<1>1. CopiesKept /\ EntriesKept
  BY DEF Effects, TubaStep, EntryStep
<1>2. G \subseteq DOMAIN tuba' /\ Cardinality(G) <= MaxLost
  BY <1>1 DEF Astray, CopiesKept
<1>3. ASSUME NEW i \in G
      PROVE  tuba'[i].by = "job" /\ i # job'.id /\ entry'[tuba'[i].of].legacy # i
  <2>1. /\ i \in DOMAIN tuba /\ tuba[i].by = "job" /\ entry[tuba[i].of].legacy # i
        /\ tuba'[i].by = tuba[i].by /\ tuba'[i].of = tuba[i].of
    BY <1>1 DEF Astray, CopiesKept
  <2>2. tuba[i].of \in DOMAIN entry
    BY <2>1 DEF TiesInv, CopiesTied, CopyTied, Local
  <2> QED
    BY <2>1, <2>2
<1> QED
  BY <1>2, <1>3 DEF Astray

\* A copy that counts after the step did so before it, unless it is new.
LEMMA PlainWas ==
  ASSUME TiesInv, Effects, NEW G, NEW i, Plain(i, G)'
  PROVE  Plain(i, G) \/ (i \notin DOMAIN tuba /\ tuba'[i].by = "job")
<1>1. CopiesKept
  BY DEF Effects, TubaStep
<1> QED
  BY <1>1, GivenKept DEF Plain, CopiesKept

\* The copies that count in H after the step did so in G before it.
LEMMA CountsKept ==
  ASSUME TiesInv, Effects, NEW G, NEW H, Counts(G), Astray(H)',
         \A i : Plain(i, H)' => Plain(i, G),
         \A i, e : Plain(i, H)' /\ tuba[i].of = e => Settled(e)' \/ i = job'.id,
         \A i, e : Plain(i, H)' /\ tuba[i].of = e /\ Listed(e)' => i = job'.id
  PROVE  Counts(H)'
<1>1. CopiesKept
  BY DEF Effects, TubaStep
<1>2. ASSUME NEW i, Plain(i, H)' PROVE PlainOnce(i, H)'
  <2>1. Plain(i, G) /\ i \in DOMAIN tuba /\ tuba'[i].of = tuba[i].of
    BY <1>1, <1>2 DEF Plain, CopiesKept
  <2>2. \A j : Plain(j, G) /\ tuba[j].of = tuba[i].of => i = j
    BY <2>1 DEF Counts, PlainOnce
  <2>3. \A j : Plain(j, H)' => Plain(j, G) /\ tuba'[j].of = tuba[j].of
    BY <1>1 DEF Plain, CopiesKept
  <2>4. \A j : Plain(j, H)' /\ tuba'[j].of = tuba'[i].of => i = j
    BY <2>1, <2>2, <2>3
  <2>5. PICK e : e = tuba[i].of
    OBVIOUS
  <2>6. Settled(e)' \/ i = job'.id
    BY <1>2, <2>5
  <2>7. Listed(e)' => i = job'.id
    BY <1>2, <2>5
  <2>8. tuba'[i].of = e
    BY <2>1, <2>5
  <2> QED
    BY <2>4, <2>6, <2>7, <2>8 DEF PlainOnce, Settled, Listed
<1> QED
  BY <1>2 DEF Counts

\* What counts is of an entry that is there.
LEMMA PlainOf ==
  ASSUME TiesInv, NEW G, NEW i, Plain(i, G)
  PROVE  i \in DOMAIN tuba /\ i # 0 /\ tuba[i].of \in DOMAIN entry /\ tuba[i].by = "job"
BY DEF Plain, TiesInv, Shape, CopiesTied, CopyTied, Local

LEMMA QuietCount ==
  ASSUME TiesInv, CountInv, Effects, JobQuiet
  PROVE  CountInv'
<1>1. PICK G \in SUBSET DOMAIN tuba : Counts(G)
  BY DEF CountInv
<1>2. UNCHANGED job /\ NoneBy("job") /\ CopiesKept
  BY DEF JobQuiet, Effects, TubaStep
<1>3. Astray(G)'
  <2>1. Astray(G)
    BY <1>1 DEF Counts
  <2>2. job'.id \notin G
    BY <1>2, <2>1 DEF Astray
  <2>3. \A e \in DOMAIN entry : entry'[e].legacy = entry[e].legacy \/ entry'[e].legacy \notin G
    BY <2>1 DEF JobQuiet, Astray
  <2> QED
    BY <2>1, <2>2, <2>3, AstrayKept
<1>4. \A i : Plain(i, G)' => Plain(i, G)
  <2> SUFFICES ASSUME NEW i, Plain(i, G)' PROVE Plain(i, G)
    OBVIOUS
  <2>1. CASE i \notin DOMAIN tuba /\ tuba'[i].by = "job"
    BY <1>2, <2>1 DEF NoneBy, Plain
  <2> QED
    BY <2>1, PlainWas
<1>5. ASSUME NEW i, NEW e, Plain(i, G)', tuba[i].of = e
      PROVE  /\ Settled(e)' \/ i = job'.id
             /\ Listed(e)' => i = job'.id
  <2>1. Plain(i, G) /\ PlainOnce(i, G) /\ e \in DOMAIN entry
    BY <1>1, <1>4, <1>5, PlainOf DEF Counts
  <2>2. (Settled(e) \/ i = job.id) /\ (Listed(e) => i = job.id)
    BY <1>5, <2>1 DEF PlainOnce
  <2>3. Listed(e)' => Listed(e)
    BY <1>2 DEF Listed
  <2> QED
    BY <1>2, <2>1, <2>2, <2>3, SettledKept
<1>6. Counts(G)'
  BY <1>1, <1>3, <1>4, <1>5, CountsKept
<1>7. G \in SUBSET DOMAIN tuba'
  BY <1>3 DEF Astray
<1> QED
  BY <1>6, <1>7, OwnGivenKept DEF CountInv

\* The job takes up nothing new: what it had in its hands is of an entry that
\* is settled, or does not count any more.
LEMMA CountsLet ==
  ASSUME TiesInv, Effects, NEW G, NEW H, Counts(G), Astray(H)', JobLets,
         \A i : Plain(i, H)' => Plain(i, G),
         \A i : Plain(i, H)' /\ i = job.id => Settled(tuba[i].of) /\ job'.todo = << >>
  PROVE  Counts(H)'
<1>1. ASSUME NEW i, NEW e, Plain(i, H)', tuba[i].of = e
      PROVE  Settled(e)' /\ ~Listed(e)'
  <2>1. PlainOnce(i, G) /\ e \in DOMAIN entry
    BY <1>1, PlainOf DEF Counts
  <2>2. Settled(e) /\ (Listed(e) => i = job.id)
    BY <1>1, <2>1 DEF PlainOnce
  <2>3. ~Listed(e)'
    BY <1>1, <2>2 DEF Listed, JobLets
  <2> QED
    BY <2>1, <2>2, <2>3, SettledKept
<1> QED
  BY <1>1, CountsKept

\* The job has nothing in its hands.
LEMMA LetsCount ==
  ASSUME TiesInv, CountInv, Effects, UNCHANGED tuba, NumbersKept, JobLets, job.id = 0
  PROVE  CountInv'
<1>1. PICK G \in SUBSET DOMAIN tuba : Counts(G)
  BY DEF CountInv
<1>2. \A i : Plain(i, G)' => Plain(i, G)
  BY PlainWas DEF Plain
<1>3. Astray(G)'
  <2>1. Astray(G) /\ 0 \notin G
    BY <1>1 DEF Counts, TiesInv, Shape
  <2> QED
    BY <2>1, AstrayKept DEF JobLets, NumbersKept
<1>4. \A i : Plain(i, G)' => i # job.id
  BY <1>2, PlainOf
<1>5. Counts(G)'
  BY <1>1, <1>2, <1>3, <1>4, CountsLet
<1> QED
  BY <1>3, <1>5, OwnGivenKept DEF CountInv, Astray

\* One more copy is lost where the bound allows it.
LEMMA OneMoreLost ==
  ASSUME Shape, NEW G, Astray(G), TiesInv, JobTied, NEW i, MayLose(1)
  PROVE  Cardinality(G \cup {i}) <= MaxLost
<1>1. IsFiniteSet(DOMAIN tuba)
  <2>1. DOMAIN tuba = 1 .. Len(tuba) /\ Len(tuba) \in Nat
    BY DEF Shape
  <2> QED
    BY <2>1, FS_Interval
<1>2. Lost \in SUBSET DOMAIN tuba
  BY DEF Lost
<1>3. G \in SUBSET Lost
  <2> SUFFICES ASSUME NEW j \in G PROVE j \in Lost
    OBVIOUS
  <2>1. j \in DOMAIN tuba /\ tuba[j].by = "job" /\ j # job.id /\ entry[tuba[j].of].legacy # j
    BY DEF Astray
  <2>2. ASSUME NEW h \in Handlers, At(h, "persist"), j = call[h].id PROVE FALSE
    BY <2>1, <2>2 DEF TiesInv, CallsTied, CallTied, At
  <2> QED
    BY <2>1, <2>2 DEF Lost, InFlight
<1>4. IsFiniteSet(Lost) /\ IsFiniteSet(G) /\ Cardinality(G) <= Cardinality(Lost)
  BY <1>1, <1>2, <1>3, FS_Subset
<1>5. Cardinality(G) \in Nat /\ Cardinality(Lost) \in Nat
  BY <1>4, FS_CardinalityType
<1>6. Cardinality(G \cup {i}) = IF i \in G THEN Cardinality(G) ELSE Cardinality(G) + 1
  BY <1>4, FS_AddElement, Zenon
<1>7. Cardinality(G \cup {i}) \in Nat /\ Cardinality(G \cup {i}) <= Cardinality(G) + 1
  BY <1>5, <1>6
<1> QED
  BY <1>4, <1>5, <1>6, <1>7, MirrorAssumption DEF MayLose

\* A copy without a number joins those that are astray.
LEMMA AstrayGrows ==
  ASSUME NEW G, Astray(G)', NEW i \in DOMAIN tuba', tuba'[i].by = "job", i # job'.id,
         entry'[tuba'[i].of].legacy # i, Cardinality(G \cup {i}) <= MaxLost
  PROVE  Astray(G \cup {i})'
BY DEF Astray

LEMMA JobPostsCount ==
  ASSUME MirrorInv, CountInv, JobPosts
  PROVE  CountInv'
<1>1. TiesInv /\ JobInv /\ Shape
  BY DEF MirrorInv, TiesInv
<1>2. PICK G \in SUBSET DOMAIN tuba : Counts(G)
  BY DEF CountInv
<1>3. PICK e, id : e = job.todo[1] /\ id = NextCopy
  OBVIOUS
<1>4. /\ job'.id = id /\ job'.todo = job.todo /\ job.id = 0
      /\ UNCHANGED entry /\ Listed(e) /\ JobPosted(e)
  BY <1>1, <1>3, JobPostsDoes, PostedFacts
<1>5. /\ Effects /\ CopiesKept /\ DOMAIN tuba' = DOMAIN tuba \cup {id} /\ id \notin DOMAIN tuba
      /\ tuba'[id].of = e
  BY <1>3, <1>4 DEF JobPosted, Effects, TubaStep
<1>6. Astray(G)'
  BY <1>1, <1>2, <1>4, <1>5, AstrayKept DEF Counts
\* What counted before is of another entry.
<1>7. ASSUME NEW i, Plain(i, G)', i # id
      PROVE  /\ Plain(i, G) /\ tuba'[i].of = tuba[i].of /\ tuba[i].of # e
             /\ Settled(tuba[i].of) /\ ~Listed(tuba[i].of) /\ tuba[i].of \in DOMAIN entry
  <2>1. Plain(i, G) /\ PlainOnce(i, G)
    BY <1>1, <1>2, <1>5, <1>7, PlainWas DEF Counts, Plain
  <2>2. i \in DOMAIN tuba /\ i # 0 /\ tuba[i].of \in DOMAIN entry
    BY <1>1, <2>1, PlainOf
  <2> QED
    BY <1>4, <1>5, <2>1, <2>2 DEF PlainOnce, CopiesKept
<1>8. ASSUME NEW i, Plain(i, G)' PROVE PlainOnce(i, G)'
  <2>1. CASE i = id
    <3>1. \A j : Plain(j, G)' /\ tuba'[j].of = tuba'[i].of => i = j
      BY <1>5, <1>7, <2>1
    <3> QED
      BY <1>4, <2>1, <3>1 DEF PlainOnce
  <2>2. CASE i # id
    <3>1. \A j : Plain(j, G) /\ tuba[j].of = tuba[i].of => i = j
      BY <1>2, <1>7, <1>8, <2>2 DEF Counts, PlainOnce
    <3>2. \A j : Plain(j, G)' /\ tuba'[j].of = tuba'[i].of => i = j
      BY <1>5, <1>7, <1>8, <2>2, <3>1
    <3>3. PICK f : f = tuba[i].of
      OBVIOUS
    <3>4. Settled(f)' /\ ~Listed(f)'
      BY <1>1, <1>4, <1>5, <1>7, <1>8, <2>2, <3>3, SettledKept DEF Listed
    <3>5. tuba'[i].of = f
      BY <1>7, <1>8, <2>2, <3>3
    <3> QED
      BY <3>2, <3>4, <3>5 DEF PlainOnce, Settled, Listed
  <2> QED
    BY <2>1, <2>2
<1> QED
  BY <1>1, <1>5, <1>6, <1>8, OwnGivenKept DEF CountInv, Counts, Astray

LEMMA JobPostFailsCount ==
  ASSUME MirrorInv, CountInv, JobPostFails
  PROVE  CountInv'
<1>1. TiesInv /\ JobInv /\ Shape /\ JobTied
  BY DEF MirrorInv, TiesInv, JobInv
<1>2. PICK e, id : e = job.todo[1] /\ id = NextCopy
  OBVIOUS
<1>3. /\ UNCHANGED <<show, entry, cache, call, deletes>> /\ job.todo # << >> /\ job.id = 0
      /\ UNCHANGED tuba \/ (MayLose(1) /\ Create(e, "job"))
      /\ JobLets /\ job'.todo = << >>
  BY <1>1, <1>2, JobPostFailsDoes
<1>4. CASE UNCHANGED tuba
  <2>1. Effects /\ NumbersKept
    BY <1>1, <1>3, <1>4, ShowSame, NothingChanges
  <2> QED
    BY <1>1, <1>3, <1>4, <2>1, LetsCount
<1>5. CASE MayLose(1) /\ Create(e, "job")
  <2>1. JobPosted(e) /\ Local(e)
    BY <1>1, <1>2, <1>3, <1>5, PostedFacts
  <2>2. /\ Effects /\ CopiesKept /\ DOMAIN tuba' = DOMAIN tuba \cup {id} /\ id \notin DOMAIN tuba
        /\ tuba'[id].of = e /\ tuba'[id].by = "job" /\ id \in Nat \ {0} /\ job'.id = 0
    BY <1>2, <1>3, <2>1 DEF JobPosted, Effects, TubaStep, JobLets
  <2>3. PICK G \in SUBSET DOMAIN tuba : Counts(G)
    BY DEF CountInv
  <2>4. Astray(G)'
    <3>1. job'.id \notin G
      <4>1. 0 \notin DOMAIN tuba
        BY <1>1 DEF Shape
      <4> QED
        BY <2>2, <4>1
    <3>2. Astray(G)
      BY <2>3 DEF Counts
    <3> QED
      BY <1>1, <1>3, <2>2, <3>1, <3>2, AstrayKept
  <2>5. Cardinality(G \cup {id}) <= MaxLost
    BY <1>1, <1>5, <2>3, OneMoreLost DEF Counts
  <2>6. entry'[e].legacy # id
    BY <1>1, <1>3, <2>1, <2>2 DEF TiesInv, EntriesTied, EntryTied, Local
  <2> DEFINE H == G \cup {id}
  <2>7. Astray(H)'
    BY <2>2, <2>4, <2>5, <2>6, AstrayGrows
  <2>8. \A i : Plain(i, H)' => Plain(i, G)
    BY <1>1, <2>2, PlainWas DEF Plain
  <2> HIDE DEF H
  <2>9. \A i : Plain(i, H)' => i # job.id
    BY <1>1, <1>3, <2>8, PlainOf
  <2>10. Counts(H)'
    BY <1>1, <1>3, <2>2, <2>3, <2>7, <2>8, <2>9, CountsLet
  <2> QED
    BY <1>1, <2>2, <2>7, <2>10, OwnGivenKept DEF CountInv, Astray
<1> QED
  BY <1>3, <1>4, <1>5

LEMMA JobPersistsCount ==
  ASSUME MirrorInv, CountInv, JobPersists
  PROVE  CountInv'
<1>1. TiesInv /\ JobInv /\ Shape /\ JobTied
  BY DEF MirrorInv, TiesInv, JobInv
<1>2. /\ job'.id = 0 /\ job'.todo = Tail(job.todo) /\ UNCHANGED <<show, tuba>>
      /\ job.todo # << >> /\ job.todo \in Seq(Nat)
  BY <1>1, JobPersistsDoes
<1>3. PICK e, id : JobNumbers(e, id)
  BY <1>1, JobPersistsDoes
<1>4. e = job.todo[1] /\ id = job.id /\ tuba[id].of = e
  BY <1>3 DEF JobNumbers
<1>5. /\ Effects /\ Settled(e)'
      /\ \A f \in DOMAIN entry : entry'[f].legacy \in {entry[f].legacy, id}
  BY <1>1, <1>2, <1>3, NumbersFacts
<1>6. PICK G \in SUBSET DOMAIN tuba : Counts(G)
  BY DEF CountInv
<1>7. Astray(G)'
  <2>1. Astray(G) /\ 0 \notin G /\ id \notin G
    BY <1>1, <1>4, <1>6 DEF Counts, Astray, Shape
  <2> QED
    BY <1>1, <1>2, <1>5, <2>1, AstrayKept
<1>8. \A i : Plain(i, G)' => Plain(i, G)
  BY <1>1, <1>2, <1>5, PlainWas DEF Plain
<1>9. ASSUME NEW i, NEW f, Plain(i, G)', tuba[i].of = f
      PROVE  Settled(f)' /\ ~Listed(f)'
  <2>1. Plain(i, G) /\ PlainOnce(i, G) /\ f \in DOMAIN entry
    BY <1>1, <1>6, <1>8, <1>9, PlainOf DEF Counts
  <2>2. (Settled(f) \/ i = job.id) /\ (Listed(f) => i = job.id)
    BY <1>9, <2>1 DEF PlainOnce
  <2>3. i = job.id => f = e
    BY <1>4, <1>9
  <2>4. Settled(f)'
    BY <1>1, <1>5, <2>1, <2>2, <2>3, SettledKept
  <2>5. ASSUME Listed(f)' PROVE FALSE
    <3>1. PICK k \in DOMAIN Tail(job.todo) : Tail(job.todo)[k] = f
      BY <1>2, <2>5 DEF Listed
    <3>2. k \in Nat \ {0} /\ k + 1 \in DOMAIN job.todo /\ job.todo[k + 1] = f
      BY <1>2, <3>1, TailFacts
    <3>3. f = e
      BY <2>2, <2>3, <3>2 DEF Listed
    <3>4. 1 \in DOMAIN job.todo /\ e \in Nat /\ 1 < k + 1
      BY <1>1, <1>2, <1>4, <3>2, HeadIsNext
    <3>5. e < job.todo[k + 1]
      BY <1>1, <1>4, <3>2, <3>4 DEF JobTied
    <3> QED
      BY <3>2, <3>3, <3>4, <3>5
  <2> QED
    BY <2>4, <2>5
<1>10. Counts(G)'
  BY <1>1, <1>5, <1>6, <1>7, <1>8, <1>9, CountsKept
<1> QED
  BY <1>1, <1>2, <1>5, <1>6, <1>10, OwnGivenKept DEF CountInv

LEMMA JobTakesShowDoes ==
  ASSUME Shape, JobTied, NEW on \in BOOLEAN, JobTakesShow(on)
  PROVE  /\ UNCHANGED <<show, entry, tuba>> /\ job.id = 0 /\ job'.id = 0
         /\ \A k \in DOMAIN job'.todo : ~Settled(job'.todo[k])
<1>1. /\ UNCHANGED <<show, entry, tuba>> /\ job.id = 0
      /\ job'.todo = IF on THEN InPlayOrder(Orphans(First(job.list))) ELSE << >>
      /\ job'.id = job.id
  <2>1. UNCHANGED <<show, entry, tuba>> /\ job.id = 0 /\ job.at = "select"
    BY DEF JobTakesShow, JobTied
  <2> DEFINE l == job.list \ {First(job.list)}
             q == IF on THEN InPlayOrder(Orphans(First(job.list))) ELSE << >>
             n == IF on THEN "post" ELSE "select"
             a == [job EXCEPT !.list = l]
             b == [a EXCEPT !.todo = q]
             c == [b EXCEPT !.at = n]
  <2>2. job' = c /\ DOMAIN job = {"at", "list", "todo", "id"}
    BY DEF Shape, JobRecs, JobTakesShow
  <2> HIDE DEF l, q, n
  <2>3. c.todo = q /\ c.id = job.id
    BY <2>2
  <2> QED
    BY <2>1, <2>2, <2>3 DEF q
<1>2. PICK s : s = First(job.list)
  OBVIOUS
<1>3. Orphans(s) \in SUBSET (1 .. Len(entry)) /\ Len(entry) \in Nat
  BY DEF Orphans, Live, Shape
<1>4. CASE on
  <2>1. PICK q : q = InPlayOrder(Orphans(s))
    OBVIOUS
  <2>2. \A k \in DOMAIN q : q[k] \in Orphans(s)
    BY <1>3, <2>1, InPlayOrderFacts
  <2>3. job'.todo = q
    BY <1>1, <1>2, <1>4, <2>1
  <2>4. \A f \in Orphans(s) : ~Settled(f)
    BY DEF Orphans, Live, Settled
  <2> QED
    BY <1>1, <2>2, <2>3, <2>4
<1>5. CASE ~on
  BY <1>1, <1>5
<1> QED
  BY <1>1, <1>4, <1>5

LEMMA JobTakesShowCount ==
  ASSUME MirrorInv, CountInv, NEW on \in BOOLEAN, JobTakesShow(on)
  PROVE  CountInv'
<1>1. TiesInv /\ Shape /\ JobTied
  BY DEF MirrorInv, TiesInv, JobInv
<1>2. /\ UNCHANGED <<show, entry, tuba>> /\ job.id = 0 /\ job'.id = 0
      /\ \A k \in DOMAIN job'.todo : ~Settled(job'.todo[k])
  BY <1>1, JobTakesShowDoes
<1>3. Effects
  BY <1>1, <1>2, ShowSame, NothingChanges
<1>4. PICK G \in SUBSET DOMAIN tuba : Counts(G)
  BY DEF CountInv
<1>5. Astray(G)'
  <2>1. Astray(G) /\ 0 \notin G
    BY <1>1, <1>4 DEF Counts, Shape
  <2> QED
    BY <1>1, <1>2, <1>3, <2>1, AstrayKept
<1>6. \A i : Plain(i, G)' => Plain(i, G)
  BY <1>1, <1>2, <1>3, PlainWas DEF Plain
<1>7. ASSUME NEW i, NEW f, Plain(i, G)', tuba[i].of = f
      PROVE  Settled(f)' /\ ~Listed(f)'
  <2>1. Plain(i, G) /\ PlainOnce(i, G) /\ i # 0
    BY <1>1, <1>4, <1>6, <1>7, PlainOf DEF Counts
  <2>2. Settled(f)
    BY <1>2, <1>7, <2>1 DEF PlainOnce
  <2> QED
    BY <1>2, <2>2 DEF Listed, Settled
<1>8. Counts(G)'
  BY <1>1, <1>3, <1>4, <1>5, <1>6, <1>7, CountsKept
<1> QED
  BY <1>1, <1>2, <1>3, <1>4, <1>8, OwnGivenKept DEF CountInv

LEMMA JobAbortsCount ==
  ASSUME MirrorInv, CountInv, JobAborts
  PROVE  CountInv'
<1>1. TiesInv /\ Shape /\ JobTied
  BY DEF MirrorInv, TiesInv, JobInv
<1>2. /\ UNCHANGED <<show, entry, tuba>> /\ JobLets /\ job'.id = 0 /\ job'.todo = << >>
      /\ job.at = "persist" => Taken(job.id) \/ MayLose(1)
  BY NoJobLets, NoJobFacts DEF JobAborts
<1>3. Effects /\ NumbersKept
  BY <1>1, <1>2, ShowSame, NothingChanges
<1>4. CASE job.id = 0
  BY <1>1, <1>2, <1>3, <1>4, LetsCount
<1>5. CASE job.id # 0
  <2>1. PICK G \in SUBSET DOMAIN tuba : Counts(G)
    BY DEF CountInv
  <2>2. PICK id, e : id = job.id /\ e = tuba[id].of
    OBVIOUS
  <2>3. id \in DOMAIN tuba /\ tuba[id].by = "job" /\ (Taken(id) \/ MayLose(1)) /\ id # 0
    BY <1>1, <1>2, <1>5, <2>2 DEF JobTied, CopyOf
  <2>4. Astray(G)'
    <3>1. Astray(G) /\ 0 \notin G
      BY <1>1, <2>1 DEF Counts, Shape
    <3> QED
      BY <1>1, <1>2, <1>3, <3>1, AstrayKept DEF NumbersKept
  <2>5. CASE Plain(id, G) => Settled(e)
    <3>1. \A i : Plain(i, G)' => Plain(i, G)
      BY <1>1, <1>2, <1>3, PlainWas DEF Plain
    <3>2. Counts(G)'
      BY <1>1, <1>2, <1>3, <2>1, <2>2, <2>4, <2>5, <3>1, CountsLet
    <3> QED
      BY <1>1, <1>2, <1>3, <2>1, <3>2, OwnGivenKept DEF CountInv
  <2>6. CASE Plain(id, G) /\ ~Settled(e)
    <3>1. ~Taken(id)
      <4> SUFFICES ASSUME NEW f \in Live, entry[f].legacy = id PROVE FALSE
        BY DEF Taken
      <4>1. f \in DOMAIN entry /\ ~entry[f].native
        BY <2>6 DEF Live, Plain, Given
      <4>2. f = e
        BY <1>1, <2>2, <2>3, <4>1 DEF TiesInv, EntriesTied, EntryTied, CopyOf
      <4> QED
        BY <2>3, <2>6, <4>2 DEF Settled
    <3>2. Cardinality(G \cup {id}) <= MaxLost
      BY <1>1, <2>1, <2>3, <3>1, OneMoreLost DEF Counts
    <3> DEFINE H == G \cup {id}
    <3>3. Astray(H)'
      <4>1. entry'[tuba'[id].of].legacy # id
        BY <1>2, <2>2, <2>3, <2>6 DEF Settled
      <4> QED
        BY <1>2, <2>3, <2>4, <3>2, <4>1, AstrayGrows
    <3>4. \A i : Plain(i, H)' => Plain(i, G) /\ i # id
      BY <1>1, <1>2, <1>3, PlainWas DEF Plain
    <3> HIDE DEF H
    <3>5. Counts(H)'
      BY <1>1, <1>2, <1>3, <2>1, <2>2, <3>3, <3>4, CountsLet
    <3> QED
      BY <1>1, <1>2, <1>3, <3>3, <3>5, OwnGivenKept DEF CountInv, Astray
  <2> QED
    BY <2>5, <2>6
<1> QED
  BY <1>4, <1>5

LEMMA JobCount ==
  ASSUME MirrorInv, CountInv, JobStart \/ JobGoesOn
  PROVE  CountInv'
<1>1. TiesInv /\ Shape /\ JobTied
  BY DEF MirrorInv, TiesInv, JobInv
\* Nothing is in its hands, and nothing new comes into them.
<1>2. ASSUME JobLets, job.id = 0, ShowStep, UNCHANGED <<entry, tuba>> PROVE CountInv'
  <2>1. Effects /\ NumbersKept
    BY <1>1, <1>2, NothingChanges
  <2> QED
    BY <1>1, <1>2, <2>1, LetsCount
<1>3. CASE JobStart
  BY <1>1, <1>2, <1>3, JobStartLets, ShowSame DEF JobStart, JobTied
<1>4. ASSUME NEW works \in BOOLEAN, JobCreatesShow(works) PROVE CountInv'
  BY <1>1, <1>2, <1>4, JobCreatesShowLets, JobShowStep DEF JobCreatesShow, JobTied
<1>5. CASE JobSelects
  BY <1>1, <1>2, <1>5, JobSelectsLets, ShowSame DEF JobSelects, JobTied
<1>6. CASE JobFinishes
  BY <1>1, <1>2, <1>6, NoJobLets, ShowSame DEF JobFinishes, JobTied
<1>7. CASE JobSignsOff
  BY <1>1, <1>2, <1>7, JobSignsOffLets, ShowSame DEF JobSignsOff, JobTied
<1> QED
  BY <1>3, <1>4, <1>5, <1>6, <1>7, JobTakesShowCount, JobPostsCount, JobPostFailsCount,
     JobPersistsCount, JobAbortsCount DEF JobGoesOn

LEMMA CountStep == MirrorInv /\ CountInv /\ [Next]_vars => CountInv'
<1> SUFFICES ASSUME MirrorInv, CountInv, [Next]_vars PROVE CountInv'
  OBVIOUS
<1>1. Calm => CountInv'
  BY QuietCount DEF MirrorInv, Calm
<1>2. CASE UNCHANGED vars
  BY <1>1, <1>2, MirrorStutters DEF vars
<1>3. CASE Next
  BY <1>1, <1>3, RequestsStep, HandlersStep, OutsideStep, JobCount DEF Next
<1> QED
  BY <1>2, <1>3

LEMMA CountInit == Init => CountInv
<1> SUFFICES ASSUME Init PROVE CountInv
  OBVIOUS
<1>1. tuba = << >> /\ DOMAIN tuba = {}
  BY DEF Init
<1>2. Astray({})
  BY <1>1, FS_EmptySet, MirrorAssumption DEF Astray
<1>3. Counts({})
  BY <1>1, <1>2 DEF Counts, Plain
<1> QED
  BY <1>1, <1>3 DEF CountInv, OwnGiven

-----------------------------------------------------------------------------
(* What else a handler and the process keep.                               *)

LEMMA FitsOneCall ==
  ASSUME Shape, CallsFit, NEW h \in Handlers, NEW c, CallIdFits(c), call' = [call EXCEPT ![h] = c]
  PROVE  CallsFit'
<1>1. \A k \in Handlers : call'[k] = c \/ call'[k] = call[k]
  BY DEF Shape
<1> QED
  BY <1>1 DEF CallsFit, CallIdFits

LEMMA FitsGoto ==
  ASSUME Shape, CallsFit, NEW h \in Handlers, NEW step, NEW e, NEW id, Goto(h, step, e, id),
         id = 0 \/ step \in {"persist", "patch", "enqueue"}
  PROVE  CallsFit'
<1>1. PICK d : d = call[h] /\ DOMAIN d = {"at", "show", "entry", "id"}
  BY DEF Shape, CallRecs
<1>2. PICK c : c = [d EXCEPT !.at = step, !.entry = e, !.id = id]
  OBVIOUS
<1>3. c.at = step /\ c.id = id
  BY <1>1, <1>2
<1>4. CallIdFits(c)
  BY <1>3 DEF CallIdFits
<1>5. call' = [call EXCEPT ![h] = c]
  BY <1>1, <1>2 DEF Goto
<1> QED
  BY <1>4, <1>5, FitsOneCall

LEMMA FitsReply ==
  ASSUME Shape, CallsFit, NEW h \in Handlers, NEW step, NEW s, NEW e, NEW id,
         Reply(h, step, s, e, id),
         id = 0 \/ (id = 1 /\ MaxEntries # 0) \/ step \in {"persist", "patch", "enqueue"}
  PROVE  CallsFit'
<1> DEFINE c == [at |-> step, show |-> s, entry |-> e, id |-> id]
<1>1. CallIdFits(c)
  BY DEF CallIdFits
<1>2. CASE call' = [call EXCEPT ![h] = c]
  BY <1>1, <1>2, FitsOneCall
<1>3. CASE UNCHANGED call
  BY <1>3 DEF CallsFit, CallIdFits
<1> QED
  BY <1>2, <1>3 DEF Reply

LEMMA FitsDone ==
  ASSUME Shape, CallsFit, NEW h \in Handlers, Done(h)
  PROVE  CallsFit'
<1>1. CallIdFits(Idle)
  BY DEF CallIdFits, Idle
<1> QED
  BY <1>1, FitsOneCall DEF Done

LEMMA RequestsRest ==
  ASSUME Shape, CallsFit, NEW h \in Handlers, Requests(h)
  PROVE  CallsFit' /\ UNCHANGED showCache
<1>1. ASSUME NEW s \in Shows, GoLive(h, s) PROVE CallsFit' /\ UNCHANGED showCache
  BY <1>1, FitsReply DEF GoLive
<1>2. ASSUME NEW s \in Shows, AddEntry(h, s) PROVE CallsFit' /\ UNCHANGED showCache
  BY <1>2, FitsReply DEF AddEntry
<1>3. ASSUME NEW s \in Shows, EndShow(h, s) PROVE CallsFit' /\ UNCHANGED showCache
  <2>1. MaxEntries # 0 /\ UNCHANGED showCache
        /\ Reply(h, "signoff", s, 0, IF show[s].mirrored THEN 1 ELSE 0)
    BY <1>3, MirrorAssumption DEF EndShow, Insert, Shape
  <2>2. PICK id : id = (IF show[s].mirrored THEN 1 ELSE 0) /\ (id = 0 \/ id = 1)
    OBVIOUS
  <2> QED
    BY <2>1, <2>2, FitsReply
<1>4. ASSUME NEW e \in Live, UpdateEntry(h, e) PROVE CallsFit' /\ UNCHANGED showCache
  BY <1>4, FitsReply DEF UpdateEntry
<1>5. ASSUME NEW e \in Live, DeleteEntry(h, e) PROVE CallsFit' /\ UNCHANGED showCache
  BY <1>5, FitsReply DEF DeleteEntry
<1> QED
  BY <1>1, <1>2, <1>3, <1>4, <1>5 DEF Requests

LEMMA HandlersRest ==
  ASSUME MirrorInv, RestInv, NEW h \in Handlers, Mirror(h)
  PROVE  RestInv'
<1>1. Shape /\ CallsFit /\ showCache \subseteq Shows
  BY DEF MirrorInv, TiesInv, RestInv
<1>2. CASE MirrorCreateShow(h)
  <2>1. CallsFit'
    BY <1>1, <1>2, FitsDone, FitsGoto DEF MirrorCreateShow
  <2>2. call[h].show \in Shows
    <3>1. PICK s \in Shows \cup {Stub} : s = call[h].show /\ call[h].at = "createShow"
      BY <1>1, <1>2 DEF MirrorCreateShow, At, Shape, CallRecs
    <3>2. Seeks(h, s, "show_start") /\ "show_start" \in MarkerTypes
      BY <3>1 DEF Seeks, SeeksBy, MarkerTypes
    <3> QED
      BY <3>1, <3>2 DEF MirrorInv, OnceInv, SeeksOnce, SeekOnce
  <2>3. showCache' \subseteq Shows
    BY <1>1, <1>2, <2>2 DEF MirrorCreateShow
  <2> QED
    BY <2>1, <2>3 DEF RestInv
<1>3. CASE MirrorCreateEntry(h)
  <2>1. CallsFit'
    BY <1>1, <1>3, FitsDone, FitsGoto DEF MirrorCreateEntry
  <2>2. showCache' \subseteq Shows
    <3>1. call[h].show \in Shows \cup {Stub}
      BY <1>1 DEF Shape, CallRecs
    <3> QED
      BY <1>1, <1>3, <3>1 DEF MirrorCreateEntry
  <2> QED
    BY <2>1, <2>2 DEF RestInv
<1>4. ASSUME UNCHANGED showCache, CallsFit' PROVE RestInv'
  BY <1>1, <1>4 DEF RestInv
<1>5. CASE MirrorSignoff(h)
  BY <1>1, <1>4, <1>5, FitsDone, FitsGoto DEF MirrorSignoff
<1>6. CASE MirrorAnnouncement(h)
  BY <1>1, <1>4, <1>6, FitsDone, FitsGoto DEF MirrorAnnouncement
<1>7. CASE PersistLegacyEntryId(h)
  BY <1>1, <1>4, <1>7, FitsDone DEF PersistLegacyEntryId
<1>8. CASE MirrorUpdateEntry(h)
  BY <1>1, <1>4, <1>8, FitsDone, FitsGoto DEF MirrorUpdateEntry
<1>9. CASE PatchDone(h)
  BY <1>1, <1>4, <1>9, FitsDone DEF PatchDone
<1>10. CASE MirrorDeleteEntry(h)
  BY <1>1, <1>4, <1>10, FitsDone DEF MirrorDeleteEntry
<1> QED
  BY <1>2, <1>3, <1>5, <1>6, <1>7, <1>8, <1>9, <1>10 DEF Mirror

LEMMA RestStep == MirrorInv /\ RestInv /\ [Next]_vars => RestInv'
<1> SUFFICES ASSUME MirrorInv, RestInv, [Next]_vars PROVE RestInv'
  OBVIOUS
<1>1. Shape /\ CallsFit
  BY DEF MirrorInv, TiesInv, RestInv
<1>2. ASSUME UNCHANGED <<showCache, call>> PROVE RestInv'
  BY <1>2 DEF RestInv, CallsFit, CallIdFits
<1>3. CASE UNCHANGED vars
  BY <1>2, <1>3 DEF vars
<1>4. ASSUME NEW h \in Handlers, Requests(h) PROVE RestInv'
  BY <1>1, <1>4, RequestsRest DEF RestInv
<1>5. CASE Queue
  BY <1>2, <1>5 DEF Queue, QueueDies, RunDelete
<1>6. CASE Tubafrenzy
  BY <1>2, <1>6 DEF Tubafrenzy, TubafrenzyAdds, WebhookDelete, WebhookUpsert
<1>7. CASE JobStart \/ JobGoesOn
  BY <1>2, <1>7 DEF JobStart, JobGoesOn, JobCreatesShow, JobSelects, JobFinishes,
     JobTakesShow, JobPosts, JobPostFails, JobPersists, JobSignsOff, JobAborts
<1>8. CASE \E s \in Shows : Ages(s)
  BY <1>2, <1>8 DEF Ages
<1>9. CASE Restart
  <2>1. call' = [h \in Handlers |-> Idle] /\ showCache' = {}
    BY <1>9 DEF Restart
  <2>2. CallIdFits(Idle)
    BY DEF CallIdFits, Idle
  <2> QED
    BY <2>1, <2>2 DEF RestInv, CallsFit, CallIdFits
<1> QED
  BY <1>3, <1>4, <1>5, <1>6, <1>7, <1>8, <1>9, HandlersRest DEF Next

LEMMA RestInit == Init => RestInv
<1>1. CallIdFits(Idle)
  BY DEF CallIdFits, Idle
<1> QED
  BY <1>1 DEF Init, RestInv, CallsFit

-----------------------------------------------------------------------------
(* The count, and the types.                                               *)

LEMMA AtMost ==
  ASSUME NEW S, NEW n \in Nat, NEW f \in [S -> 1 .. n],
         \A x, y \in S : f[x] = f[y] => x = y
  PROVE  IsFiniteSet(S) /\ Cardinality(S) \in Nat /\ Cardinality(S) <= n
<1>1. f \in Injection(S, 1 .. n)
  BY DEF Injection, IsInjective
<1>2. IsFiniteSet(1 .. n) /\ Cardinality(1 .. n) = n
  BY FS_Interval
<1> QED
  BY <1>1, <1>2, FS_Injection, FS_CardinalityType

LEMMA UnionAtMost ==
  ASSUME NEW S, NEW T, IsFiniteSet(S), IsFiniteSet(T)
  PROVE  /\ IsFiniteSet(S \cup T) /\ Cardinality(S \cup T) \in Nat
         /\ Cardinality(S \cup T) <= Cardinality(S) + Cardinality(T)
<1>1. /\ IsFiniteSet(S \cup T) /\ IsFiniteSet(S \cap T)
      /\ Cardinality(S \cup T) = Cardinality(S) + Cardinality(T) - Cardinality(S \cap T)
  BY FS_Union, FS_Intersection
<1>2. /\ Cardinality(S) \in Nat /\ Cardinality(T) \in Nat /\ Cardinality(S \cap T) \in Nat
      /\ Cardinality(S \cup T) \in Nat
  BY <1>1, FS_CardinalityType
<1> QED
  BY <1>1, <1>2

\* An entry has a copy by the live mirror, or, from tubafrenzy, was one.
Held == {i \in DOMAIN tuba : tuba[i].by = "live" \/ Given(i)}
Plains(G) == {i \in DOMAIN tuba : Plain(i, G)}

LEMMA HeldAreFew ==
  ASSUME MirrorInv
  PROVE  IsFiniteSet(Held) /\ Cardinality(Held) \in Nat /\ Cardinality(Held) <= Len(entry)
<1> DEFINE of(i) == IF tuba[i].by = "live" THEN tuba[i].of
                    ELSE CHOOSE e \in DOMAIN entry : entry[e].native /\ entry[e].legacy = i
           home == [i \in Held |-> of(i)]
<1>1. Len(entry) \in Nat /\ DOMAIN entry = 1 .. Len(entry) /\ Shape
  BY DEF MirrorInv, TiesInv, Shape
<1>2. ASSUME NEW i \in Held
      PROVE  /\ of(i) \in DOMAIN entry
             /\ tuba[i].by = "live" => of(i) = tuba[i].of /\ ~entry[of(i)].native
             /\ tuba[i].by # "live" => entry[of(i)].native /\ entry[of(i)].legacy = i
  <2>1. CASE tuba[i].by = "live"
    BY <2>1 DEF Held, MirrorInv, TiesInv, CopiesTied, CopyTied, Local
  <2>2. CASE tuba[i].by # "live"
    <3>1. \E e \in DOMAIN entry : entry[e].native /\ entry[e].legacy = i
      BY <2>2 DEF Held, Given
    <3> QED
      BY <2>2, <3>1
  <2> QED
    BY <2>1, <2>2
<1>3. home \in [Held -> 1 .. Len(entry)]
  BY <1>1, <1>2
<1> HIDE DEF of
<1>4. ASSUME NEW i \in Held, NEW j \in Held, of(i) = of(j) PROVE i = j
  <2>1. tuba[i].by = "live" <=> tuba[j].by = "live"
    BY <1>2, <1>4
  <2>2. CASE tuba[i].by = "live" /\ tuba[j].by = "live"
    <3>1. tuba[i].of = tuba[j].of
      BY <1>2, <1>4, <2>2
    <3> QED
      BY <2>2, <3>1 DEF Held, MirrorInv, OnceInv, LiveOnce
  <2>3. CASE tuba[i].by # "live" /\ tuba[j].by # "live"
    BY <1>2, <1>4, <2>3
  <2> QED
    BY <2>1, <2>2, <2>3
<1>5. \A i, j \in Held : home[i] = home[j] => i = j
  BY <1>4
<1> HIDE DEF home
<1> QED
  BY <1>1, <1>3, <1>5, AtMost

LEMMA PlainsAreFew ==
  ASSUME MirrorInv, NEW G, Counts(G)
  PROVE  /\ IsFiniteSet(Plains(G)) /\ Cardinality(Plains(G)) \in Nat
         /\ Cardinality(Plains(G)) <= Len(entry)
<1> DEFINE home == [i \in Plains(G) |-> tuba[i].of]
<1>1. Len(entry) \in Nat /\ DOMAIN entry = 1 .. Len(entry) /\ TiesInv
  BY DEF MirrorInv, TiesInv, Shape
<1>2. home \in [Plains(G) -> 1 .. Len(entry)]
  BY <1>1, PlainOf DEF Plains
<1>3. \A i, j \in Plains(G) : home[i] = home[j] => i = j
  BY DEF Plains, Counts, PlainOnce
<1> HIDE DEF home
<1> QED
  BY <1>1, <1>2, <1>3, AtMost

LEMMA CopiesAreFew ==
  ASSUME MirrorInv, CountInv
  PROVE  Len(tuba) \in Nat /\ Len(tuba) <= MaxCopies
<1>1. PICK G \in SUBSET DOMAIN tuba : Counts(G)
  BY DEF CountInv
<1>2. /\ Len(tuba) \in Nat /\ DOMAIN tuba = 1 .. Len(tuba) /\ Len(entry) \in Nat
      /\ Len(entry) <= MaxEntries /\ tuba \in Seq(SentRows)
  BY DEF MirrorInv, TiesInv, Shape
<1>3. IsFiniteSet(1 .. Len(tuba)) /\ Cardinality(1 .. Len(tuba)) = Len(tuba)
  <2>1. PICK n \in Nat : n = Len(tuba)
    BY <1>2
  <2>2. IsFiniteSet(1 .. n) /\ Cardinality(1 .. n) = n
    BY FS_Interval
  <2> QED
    BY <2>1, <2>2
<1>4. /\ IsFiniteSet(G) /\ Cardinality(G) \in Nat /\ Cardinality(G) <= MaxLost
  BY <1>1, <1>2, <1>3, FS_Subset, FS_CardinalityType DEF Counts, Astray
<1> DEFINE both == Held \cup Plains(G)
<1>5. /\ IsFiniteSet(both) /\ Cardinality(both) \in Nat
      /\ Cardinality(both) <= Len(entry) + Len(entry)
  <2>1. /\ IsFiniteSet(Held) /\ Cardinality(Held) \in Nat /\ Cardinality(Held) <= Len(entry)
        /\ IsFiniteSet(Plains(G)) /\ Cardinality(Plains(G)) \in Nat
        /\ Cardinality(Plains(G)) <= Len(entry)
    BY <1>1, HeldAreFew, PlainsAreFew
  <2> QED
    BY <1>2, <2>1, UnionAtMost
<1> HIDE DEF both
<1>6. /\ IsFiniteSet(both \cup G) /\ Cardinality(both \cup G) \in Nat
      /\ Cardinality(both \cup G) <= Cardinality(both) + Cardinality(G)
  BY <1>4, <1>5, UnionAtMost
<1>7. 1 .. Len(tuba) \in SUBSET (both \cup G)
  <2> SUFFICES ASSUME NEW i \in DOMAIN tuba, i \notin G PROVE i \in both
    BY <1>2
  <2>1. tuba[i].by \in {"live", "job", "tubafrenzy"}
    <3>1. tuba[i] \in SentRows
      BY <1>2
    <3> QED
      BY <3>1 DEF SentRows
  <2> QED
    BY <2>1 DEF both, Held, Plains, Plain, CountInv, OwnGiven
<1>8. Len(tuba) <= Cardinality(both \cup G)
  BY <1>3, <1>6, <1>7, FS_Subset
<1> QED
  BY <1>2, <1>4, <1>5, <1>6, <1>8, MirrorAssumption DEF MaxCopies

LEMMA SeqOf ==
  ASSUME NEW T, NEW S, NEW s \in Seq(T), \A k \in 1 .. Len(s) : s[k] \in S
  PROVE  s \in Seq(S)
OBVIOUS

LEMMA MirrorTyped == MirrorInv /\ CountInv /\ RestInv => TypeOK
<1> SUFFICES ASSUME MirrorInv, CountInv, RestInv PROVE TypeOK
  OBVIOUS
<1>1. /\ Shape /\ EntriesTied /\ CopiesTied /\ CacheTied /\ CallsTied /\ JobTied
      /\ \A k \in DOMAIN job.todo : ListedTied(job.todo[k])
  BY DEF MirrorInv, TiesInv, JobInv
<1>2. /\ DOMAIN tuba = 1 .. Len(tuba) /\ Len(tuba) \in Nat /\ Len(tuba) <= MaxCopies
      /\ DOMAIN entry = 1 .. Len(entry) /\ Len(entry) \in Nat /\ Len(entry) <= MaxEntries
      /\ MaxCopies \in Nat
  BY <1>1, CopiesAreFew, MirrorAssumption DEF Shape, MaxCopies
<1>3. DOMAIN tuba \subseteq CopyIds /\ DOMAIN entry \subseteq EntryIds
  BY <1>2, MirrorAssumption DEF CopyIds, EntryIds
<1>4. entry \in Seq(Entries)
  <2>1. ASSUME NEW e \in 1 .. Len(entry) PROVE entry[e] \in Entries
    <3>1. entry[e] \in LogRows /\ entry[e].legacy \in CopyIds \cup {0}
      BY <1>1, <1>2, <1>3 DEF Shape, EntriesTied, EntryTied
    <3> QED
      BY <3>1 DEF LogRows, Entries
  <2> QED
    BY <1>1, <1>2, <2>1, SeqOf DEF Shape
<1>5. tuba \in Seq(Copies)
  <2>1. ASSUME NEW i \in 1 .. Len(tuba) PROVE tuba[i] \in Copies
    <3>1. tuba[i] \in SentRows /\ tuba[i].of \in EntryIds \cup {0}
      BY <1>1, <1>2, <1>3 DEF Shape, CopiesTied, CopyTied, Local
    <3> QED
      BY <3>1 DEF SentRows, Copies
  <2> QED
    BY <1>1, <1>2, <2>1, SeqOf DEF Shape
<1>6. cache \in [EntryIds -> DOMAIN tuba \cup {0}]
  BY <1>1 DEF Shape, CacheTied, CopyOf
<1>7. call \in [Handlers -> Calls]
  <2>1. ASSUME NEW h \in Handlers PROVE call[h] \in Calls
    <3>1. call[h] \in CallRecs /\ CallTied(call[h]) /\ CallIdFits(call[h])
      BY <1>1 DEF Shape, CallsTied, RestInv, CallsFit
    <3>2. MaxEntries # 0 => 1 \in CopyIds
      BY <1>2, MirrorAssumption DEF CopyIds, MaxCopies
    <3>3. call[h].id \in CopyIds \cup {0}
      BY <1>3, <3>1, <3>2 DEF CallTied, CallIdFits, CopyOf
    <3> QED
      BY <3>1, <3>3 DEF CallRecs, Calls, Steps
  <2> QED
    BY <1>1, <2>1 DEF Shape
<1>8. job \in Jobs
  <2>1. job \in JobRecs /\ job.id \in CopyIds \cup {0}
    BY <1>1, <1>3 DEF Shape, JobTied, CopyOf
  <2>2. ASSUME NEW k \in 1 .. Len(job.todo) PROVE job.todo[k] \in EntryIds
    <3>1. k \in DOMAIN job.todo
      BY <2>1 DEF JobRecs
    <3> QED
      BY <1>1, <1>3, <3>1 DEF ListedTied, Local
  <2>3. job.todo \in Seq(EntryIds)
    BY <2>1, <2>2, SeqOf DEF JobRecs
  <2> QED
    BY <2>1, <2>3 DEF JobRecs, Jobs
<1> QED
  BY <1>1, <1>2, <1>4, <1>5, <1>6, <1>7, <1>8 DEF TypeOK, Shape, ShowRecs, RestInv

\* The type invariant.  It bounds the copies in tubafrenzy, as no type of the
\* parts does: each entry is sent or taken up once, and sent by the job once
\* more, and only a number that is lost on its way makes room for another POST.
THEOREM MirrorTypeCorrect == Spec => []TypeOK
<1>1. MirrorInv /\ CountInv /\ RestInv /\ [Next]_vars => (CountInv /\ RestInv)'
  BY CountStep, RestStep
<1>2. Init => CountInv /\ RestInv
  BY CountInit, RestInit
<1> QED
  BY <1>1, <1>2, MirrorHolds, MirrorTyped, PTL DEF Spec
=============================================================================
