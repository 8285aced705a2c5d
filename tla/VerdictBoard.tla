----------------------------- MODULE VerdictBoard -----------------------------
(***************************************************************************)
(* What the enrichment machinery promises to a reader of the flowsheet, in  *)
(* the fewest words: a track row waits for a verdict about its metadata,    *)
(* gets one, and keeps it.  Only a "no match" may be reconsidered, and only *)
(* in favour of an answer.  A verdict about a row that is linked to an      *)
(* album is given only once that album has an album_metadata row to read.   *)
(*                                                                          *)
(* EnrichmentLifecycle (workers, sweep, backfill job) implements this.      *)
(***************************************************************************)

CONSTANTS
    Rows,      \* flowsheet rows
    Albums,    \* library albums
    NoAlbum,   \* flowsheet.album_id IS NULL
    AlbumOf    \* [Rows -> Albums \cup {NoAlbum}]

VARIABLES
    verdict,   \* what the row shows
    known      \* does the album have an album_metadata row?

boardVars == <<verdict, known>>

Verdicts == {"match", "no_match", "failed"}
Shown    == {"absent", "waiting", "deleted"} \cup Verdicts

(***************************************************************************)
(* A row can be answered from album_metadata when it is linked to an album  *)
(* that has one; an unlinked row carries its own columns.                   *)
(***************************************************************************)
Readable(r) == AlbumOf[r] # NoAlbum => known[AlbumOf[r]]

BoardInit ==
    /\ verdict = [r \in Rows |-> "absent"]
    /\ known \in [Albums -> BOOLEAN]

Enter(r) ==
    /\ verdict[r] = "absent"
    /\ verdict' = [verdict EXCEPT ![r] = "waiting"]
    /\ UNCHANGED known

Learn(a) ==
    /\ ~known[a]
    /\ known' = [known EXCEPT ![a] = TRUE]
    /\ UNCHANGED verdict

Decide(r, v) ==
    /\ verdict[r] = "waiting"
    /\ v = "failed" \/ Readable(r)
    /\ verdict' = [verdict EXCEPT ![r] = v]
    /\ UNCHANGED known

Reconsider(r, v) ==
    /\ verdict[r] = "no_match"
    /\ v \in {"match", "failed"}
    /\ verdict' = [verdict EXCEPT ![r] = v]
    /\ UNCHANGED known

Remove(r) ==
    /\ verdict[r] \notin {"absent", "deleted"}
    /\ verdict' = [verdict EXCEPT ![r] = "deleted"]
    /\ UNCHANGED known

BoardNext ==
    \/ \E r \in Rows : Enter(r) \/ Remove(r)
    \/ \E r \in Rows, v \in Verdicts : Decide(r, v) \/ Reconsider(r, v)
    \/ \E a \in Albums : Learn(a)

BoardSpec == BoardInit /\ [][BoardNext]_boardVars

===============================================================================
