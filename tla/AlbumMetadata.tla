----------------------------- MODULE AlbumMetadata -----------------------------
(***************************************************************************)
(* The album_metadata row of one album and everybody who writes a lookup's  *)
(* answer into it: handlers of the enrichment worker (a play of the album), *)
(* the worker's hourly streaming re-ask sweep, and rows of the hourly       *)
(* flowsheet-metadata-backfill job.  Whoever asks reads the row first, is   *)
(* away in LML for seconds, and writes one upsert at the end.               *)
(*                                                                          *)
(* An upsert takes NOW() when it begins and lands later; two of them        *)
(* overlap when they wait for the same row, and the WHERE clause            *)
(* updated_at < NOW() then drops the one that began first.                  *)
(***************************************************************************)
EXTENDS Naturals, Sequences, FiniteSets, SequencesExt

CONSTANTS
    Handlers, Sweeps, JobRows,   \* those who ask, by kind
    Services,                    \* the streaming services with a status column
    Fallbacks,                   \* ... that show a search URL when nothing is verified
    Guarded,                     \* ... whose links are checked for their host
    Coerced,                     \* ... whose silence counts as unresolved (ENRICHMENT_BANDCAMP_REASK)
    Links,                       \* direct URLs
    Cap                          \* STREAMING_REASK_ATTEMPT_CAP

Askers == Handlers \cup Sweeps \cup JobRows

ASSUME AlbumAssumption ==
    /\ IsFiniteSet(Askers)
    /\ Handlers \cap Sweeps = {} /\ (Handlers \cup Sweeps) \cap JobRows = {}
    /\ Fallbacks \subseteq Services
    /\ Guarded \subseteq Services
    /\ Coerced \subseteq Fallbacks
    /\ "none" \notin Links /\ "search" \notin Links
    /\ Cap \in Nat \ {0}

VARIABLES
    exists,     \* the album has a row
    matched,    \* artwork_url or discogs_url is set
    status,     \* the verdict per service
    url,        \* the URL per service
    attempts,   \* streaming_reask_attempts
    pc,         \* where each asker is
    begun,      \* writes under way, in the order of their NOW()
    late        \* ... those whose NOW() is before updated_at

row  == <<exists, matched, status, url, attempts>>
vars == <<row, pc, begun, late>>

Verdicts == {"null", "verified", "absent", "unresolved"}
Urls     == Links \cup {"none", "search"}

TypeOK ==
    /\ exists \in BOOLEAN
    /\ matched \in BOOLEAN
    /\ status \in [Services -> Verdicts]
    /\ url \in [Services -> Urls]
    /\ \A s \in Services : url[s] = "search" => s \in Fallbacks
    /\ attempts \in Nat
    /\ pc \in [Askers -> {"idle", "asked", "writing"}]
    /\ begun \in Seq(Askers)
    /\ late \subseteq Askers

Init ==
    /\ exists = FALSE
    /\ matched = FALSE
    /\ status = [s \in Services |-> "null"]
    /\ url = [s \in Services |-> "none"]
    /\ attempts = 0
    /\ pc = [a \in Askers |-> "idle"]
    /\ begun = <<>>
    /\ late = {}

--------------------------------------------------------------------------------
(***************************************************************************)
(* What LML says of a service, and what the worker makes of it.             *)
(***************************************************************************)

\* What LML says of one service: an explicit verdict or nothing, and a link.  A
\* link that is not the service's own is already gone (sanitizeLookupStreamingUrls
\* takes the link and leaves the verdict).
Said(s) ==
    [verdict : {"null", "verified"}, link : Links]
        \cup [verdict : {"null", "absent", "unresolved"}, link : {"none"}]
        \cup IF s \in Guarded THEN [verdict : {"verified"}, link : {"none"}] ELSE {}

\* inferIncomingStreamingStatus, and the Bandcamp coercion after it.
Incoming(s, said) ==
    IF said.verdict # "null" THEN said.verdict
    ELSE IF said.link # "none" THEN "verified"
    ELSE IF s \in Coerced THEN "unresolved"
    ELSE "null"

Field(v, u) == [status |-> v, url |-> u]

Fallback(s) == IF s \in Fallbacks THEN "search" ELSE "none"

\* mergeStreamingField, the rules in plain JS; "null" is no verdict this time.
Merged(current, incoming, link) ==
    IF current.status = "verified" \/ incoming = "null" THEN current
    ELSE IF incoming = "verified" THEN Field("verified", link)
    ELSE IF current.status = "absent" THEN current
    ELSE IF incoming = "absent" THEN Field("absent", "none")
    ELSE Field("unresolved", current.url)

\* Mutant: what is not verified is stored as it is.
DisplayedBare(s, field) == field

\* What the insert makes of it: the search URL unless it is verified.
Displayed(s, field) ==
    IF s \in Fallbacks /\ field.status # "verified"
    THEN Field(field.status, "search")
    ELSE field

\* Mutant: an unresolved verdict takes the place of a verified one.
ConflictForgetsVerified(s, live, incoming, link) ==
    IF incoming = "null" THEN Displayed(s, live)
    ELSE IF incoming = "verified" THEN Field("verified", IF live.status = "verified" THEN live.url ELSE link)
    ELSE IF incoming = "absent" THEN IF live.status = "verified" THEN live ELSE Field("absent", Fallback(s))
    ELSE IF live.status = "absent" THEN Displayed(s, live)
         ELSE Displayed(s, Field("unresolved", live.url))

\* Mutant: an unresolved verdict takes the place of a terminal absent one.
ConflictForgetsAbsent(s, live, incoming, link) ==
    IF incoming = "null" THEN Displayed(s, live)
    ELSE IF incoming = "verified" THEN Field("verified", IF live.status = "verified" THEN live.url ELSE link)
    ELSE IF incoming = "absent" THEN IF live.status = "verified" THEN live ELSE Field("absent", Fallback(s))
    ELSE IF live.status = "verified" THEN live
         ELSE Displayed(s, Field("unresolved", live.url))

\* Mutant: a silent answer gives every service a search URL.
ConflictSearchesAll(s, live, incoming, link) ==
    IF incoming = "null" THEN IF live.status = "verified" THEN live ELSE Field(live.status, "search")
    ELSE IF incoming = "verified" THEN Field("verified", IF live.status = "verified" THEN live.url ELSE link)
    ELSE IF incoming = "absent" THEN IF live.status = "verified" THEN live ELSE Field("absent", Fallback(s))
    ELSE IF live.status \in {"verified", "absent"} THEN Displayed(s, live)
         ELSE Displayed(s, Field("unresolved", live.url))

\* buildStreamingFieldConflictSet: the same merge as CASE expressions, which
\* Postgres evaluates against the live row.
Conflict(s, live, incoming, link) ==
    IF incoming = "null" THEN Displayed(s, live)
    ELSE IF incoming = "verified" THEN Field("verified", IF live.status = "verified" THEN live.url ELSE link)
    ELSE IF incoming = "absent" THEN IF live.status = "verified" THEN live ELSE Field("absent", Fallback(s))
    ELSE IF live.status \in {"verified", "absent"} THEN Displayed(s, live)
         ELSE Displayed(s, Field("unresolved", live.url))

Live(s) == Field(status[s], url[s])

SetFields(f) ==
    /\ status' = [s \in Services |-> f[s].status]
    /\ url' = [s \in Services |-> f[s].url]

--------------------------------------------------------------------------------
(***************************************************************************)
(* Asking.                                                                  *)
(***************************************************************************)
Unsettled(s) ==
    \/ status[s] = "unresolved"
    \/ s \in Coerced /\ status[s] = "null" /\ url[s] = "search"

\* Mutant: the attempts are not looked at.
NeedsReaskForever == \E s \in Services : Unsettled(s)

NeedsReask == attempts < Cap /\ \E s \in Services : Unsettled(s)

Asks(a) ==
    /\ pc[a] = "idle"
    /\ pc' = [pc EXCEPT ![a] = "asked"]
    /\ UNCHANGED <<row, begun, late>>

\* A play: the precheck lets it ask LML unless the album is done.
HandlerAsks(a) == ~(exists /\ matched /\ ~NeedsReask) /\ Asks(a)

\* The hourly sweep asks for what is matched and unsettled.
SweepAsks(a) == exists /\ matched /\ NeedsReask /\ Asks(a)

\* The job looks every row of its list up.
JobAsks(a) == Asks(a)

\* The lookup throws or is shed: nothing is spent.
LookupFails(a) ==
    /\ pc[a] = "asked"
    /\ pc' = [pc EXCEPT ![a] = "idle"]
    /\ UNCHANGED <<row, begun, late>>

\* The answer is there; the upsert takes its NOW().
BeginWrite(a) ==
    /\ pc[a] = "asked"
    /\ pc' = [pc EXCEPT ![a] = "writing"]
    /\ begun' = Append(begun, a)
    /\ UNCHANGED <<row, late>>

--------------------------------------------------------------------------------
(***************************************************************************)
(* Writing.  Of the upserts that overlap one that has landed, those that    *)
(* began before it are dropped when their turn comes.                       *)
(***************************************************************************)
\* The write of a lands: its NOW() is the row's updated_at from here on.
Lands(a) ==
    /\ pc[a] = "writing"
    /\ \E i \in 1 .. Len(begun) :
          /\ begun[i] = a
          /\ begun' = RemoveAt(begun, i)
          /\ late' = {begun[j] : j \in 1 .. i - 1}
    /\ pc' = [pc EXCEPT ![a] = "idle"]

\* An upsert finds a row that a later one has touched: its WHERE does not hold.
Dropped(a) ==
    /\ pc[a] = "writing"
    /\ a \in late
    /\ \E i \in 1 .. Len(begun) : begun[i] = a /\ begun' = RemoveAt(begun, i)
    /\ late' = late \ {a}
    /\ pc' = [pc EXCEPT ![a] = "idle"]
    /\ UNCHANGED row

\* upsertMatchedAlbumMetadata: the worker's upsert of a match.  The attempt is
\* spent when the row was matched before.
UpsertMatch(a) ==
    /\ a \notin late
    /\ \E said \in [Services -> UNION {Said(s) : s \in Services}] :
          /\ \A s \in Services : said[s] \in Said(s)
          /\ SetFields([s \in Services |->
                LET in == Incoming(s, said[s])
                IN  IF exists
                    THEN Conflict(s, Live(s), in, said[s].link)
                    ELSE Displayed(s, Merged(Field("null", "none"), in, said[s].link))])
    /\ exists' = TRUE
    /\ matched' = TRUE
    /\ attempts' = IF matched THEN attempts + 1 ELSE attempts
    /\ Lands(a)

\* finalizeRow, no match: only the search URLs, and never over a verified one.
HandlerNoMatch(a) ==
    /\ a \notin late
    /\ SetFields([s \in Services |-> IF s \in Fallbacks THEN Displayed(s, Live(s)) ELSE Live(s)])
    /\ exists' = TRUE
    /\ UNCHANGED <<matched, attempts>>
    /\ Lands(a)

\* Mutant: an answer without artwork costs nothing.
SweepNoMatchFree(a) ==
    /\ UNCHANGED row
    /\ Lands(a)

\* bumpStreamingReaskAttempts: a plain UPDATE, without the WHERE on updated_at.
SweepNoMatch(a) ==
    /\ attempts' = attempts + 1
    /\ UNCHANGED <<exists, matched, status, url>>
    /\ Lands(a)

\* applyEnrichment, a match: whatever LML linked, or the search URL; the status
\* columns are not written.  A cached answer carries no links (LookupCache).
JobMatch(a) ==
    /\ a \notin late
    /\ \/ \E link \in [Services -> Links \cup {"none"}] :
             url' = [s \in Services |-> IF link[s] # "none" THEN link[s] ELSE Fallback(s)]
       \/ UNCHANGED url
    /\ exists' = TRUE
    /\ matched' = TRUE
    /\ UNCHANGED <<status, attempts>>
    /\ Lands(a)

\* applyEnrichment, no match: search URLs where there is nothing.
JobNoMatch(a) ==
    /\ a \notin late
    /\ url' = [s \in Services |-> IF url[s] = "none" THEN Fallback(s) ELSE url[s]]
    /\ exists' = TRUE
    /\ UNCHANGED <<matched, status, attempts>>
    /\ Lands(a)

--------------------------------------------------------------------------------
HandlerWrites(a) == UpsertMatch(a) \/ HandlerNoMatch(a) \/ Dropped(a)
SweepWrites(a)   == UpsertMatch(a) \/ SweepNoMatch(a) \/ Dropped(a)
JobWrites(a)     == JobMatch(a) \/ JobNoMatch(a) \/ Dropped(a)

WorkerNext ==
    \/ \E a \in Handlers : HandlerAsks(a) \/ HandlerWrites(a)
    \/ \E a \in Sweeps : SweepAsks(a) \/ SweepWrites(a)
    \/ \E a \in Handlers \cup Sweeps : LookupFails(a) \/ BeginWrite(a)

JobNext == \E a \in JobRows : JobAsks(a) \/ LookupFails(a) \/ BeginWrite(a) \/ JobWrites(a)

Next == WorkerNext \/ JobNext

Spec       == Init /\ [][Next]_vars
WorkerSpec == Init /\ [][WorkerNext]_vars

--------------------------------------------------------------------------------
(***************************************************************************)
(* Properties.                                                              *)
(***************************************************************************)

\* A verified URL is never overwritten, whoever asks again and whatever LML
\* says then, also when the asker had read the row before it was verified
\* (mergeStreamingField, rule 1; the TOCTOU window that the CASEs close).
VerifiedIsKept ==
    [][\A s \in Services :
          status[s] = "verified" => status'[s] = "verified" /\ url'[s] = url[s]]_vars

\* A negative verdict stays, except for a genuine find: nothing makes the
\* service a reason to ask again.
AbsentIsTerminal ==
    [][\A s \in Services :
          status[s] = "absent" => status'[s] \in {"absent", "verified"}]_vars

\* A service without a fallback shows a URL only when it is verified: no URL is
\* "no verified match" to the app.
BareMeansUnverified ==
    \A s \in Services \ Fallbacks : url[s] # "none" => status[s] = "verified"

\* The CASE expressions compute what the documented rules say, for every row
\* that can be there and every answer that can come.
MergeAgrees ==
    exists =>
        \A s \in Services : \A said \in Said(s) :
            LET in == Incoming(s, said)
            IN  Conflict(s, Live(s), in, said.link) =
                    Displayed(s, Merged(Live(s), in, said.link))

\* A service that has a fallback and is not verified shows its search URL,
\* whichever of the upserts wrote the row last.
SearchIsOffered ==
    exists => \A s \in Fallbacks : status[s] # "verified" => url[s] = "search"

\* Several askers that found the album under the cap at the same time may
\* overspend it, by one each and no more.
AttemptsBounded ==
    attempts <= Cap - 1 + Cardinality(Handlers \cup Sweeps)

--------------------------------------------------------------------------------
(***************************************************************************)
(* Liveness.  The sweep comes round every hour, and LML answers in the end. *)
(***************************************************************************)
Fairness ==
    \A a \in Sweeps : /\ WF_vars(SweepAsks(a))
                      /\ SF_vars(BeginWrite(a))
                      /\ WF_vars(SweepWrites(a))

LiveSpec == WorkerSpec /\ Fairness

Played == \E a \in Handlers : HandlerAsks(a)

\* When the album is not played any more, the sweep gets its services verified
\* or absent, or gives up on them: it does not ask for ever.
SweepSettles ==
    <>[][~Played]_vars => <>[](exists /\ matched => ~NeedsReask)

================================================================================
