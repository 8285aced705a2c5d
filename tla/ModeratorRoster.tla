--------------------------- MODULE ModeratorRoster ---------------------------
(***************************************************************************)
(* The roster of Slack moderators: a picker reads it, and its PUT replaces *)
(* the whole of it in a transaction, if it is still what the picker read.  *)
(* Transactions are READ COMMITTED: each statement sees what is committed  *)
(* when it begins and waits for rows that another transaction has in hand. *)
(***************************************************************************)
EXTENDS FiniteSets

CONSTANTS
  Members,  \* those who may be moderators
  Edits,    \* the saves of a picker
  Nobody    \* no edit

ASSUME RosterAssumption == Nobody \notin Edits

VARIABLES
  roster,   \* the committed rows: who is in, and the edit that added them
  locker,   \* the edit that has the advisory lock
  edit      \* per edit: its phase, what it read and wants, what it has in hand

rosterVars == <<roster, locker, edit>>

Phases == {"idle", "sent", "locked", "compared", "deleted", "inserted",
           "accepted", "refused", "failed"}

RosterTypeOK ==
  /\ roster \in UNION {[S -> Edits \cup {Nobody}] : S \in SUBSET Members}
  /\ locker \in Edits \cup {Nobody}
  /\ edit \in [Edits -> [phase : Phases, expected : SUBSET Members, desired : SUBSET Members,
                         deletes : SUBSET Members, inserts : SUBSET Members]]

RosterInit ==
  /\ \E S \in SUBSET Members : roster = [m \in S |-> Nobody]
  /\ locker = Nobody
  /\ edit = [e \in Edits |-> [phase |-> "idle", expected |-> {}, desired |-> {},
                              deletes |-> {}, inserts |-> {}]]

Current == DOMAIN roster

\* The rows that other open transactions have deleted or inserted.
InHand(e) ==
  UNION {edit[x].deletes \cup edit[x].inserts :
           x \in {y \in Edits \ {e} : edit[y].phase \in {"deleted", "inserted"}}}

\* GET, and the choice of the moderator: the picker keeps what it has read.
OpensPicker(e) ==
  /\ edit[e].phase = "idle"
  /\ \E S \in SUBSET Members :
       edit' = [edit EXCEPT ![e].phase = "sent", ![e].expected = Current, ![e].desired = S]
  /\ UNCHANGED <<roster, locker>>

\* Mutant: no advisory lock.
LockIsAlwaysFree == TRUE
LockIsFree == locker = Nobody

Locks(e) ==
  /\ edit[e].phase = "sent" /\ LockIsFree
  /\ locker' = e
  /\ edit' = [edit EXCEPT ![e].phase = "locked"]
  /\ UNCHANGED roster

Matches(e) == Current = edit[e].expected

Compares(e) ==
  /\ edit[e].phase = "locked" /\ Matches(e)
  /\ edit' = [edit EXCEPT ![e].phase = "compared"]
  /\ UNCHANGED <<roster, locker>>

\* 409: the roster has changed since the picker read it.
Refuses(e) ==
  /\ edit[e].phase = "locked" /\ ~Matches(e)
  /\ edit' = [edit EXCEPT ![e].phase = "refused"]
  /\ locker' = Nobody
  /\ UNCHANGED roster

\* The DELETE takes the rows that are not wanted, ...
Deletes(e) ==
  /\ edit[e].phase = "compared"
  /\ LET out == Current \ edit[e].desired
     IN  /\ out \cap InHand(e) = {}
         /\ edit' = [edit EXCEPT ![e].phase = "deleted", ![e].deletes = out]
  /\ UNCHANGED <<roster, locker>>

\* ... and the INSERT leaves those alone that are there: ON CONFLICT DO
\* NOTHING.
Missing(e) == edit[e].desired \ (Current \ edit[e].deletes)

Inserts(e) ==
  /\ edit[e].phase = "deleted"
  /\ edit[e].desired \cap InHand(e) = {}
  /\ edit' = [edit EXCEPT ![e].phase = "inserted", ![e].inserts = Missing(e)]
  /\ UNCHANGED <<roster, locker>>

Commits(e) ==
  /\ edit[e].phase = "inserted"
  /\ roster' = [m \in (Current \ edit[e].deletes) \cup edit[e].inserts |->
                  IF m \in edit[e].inserts THEN e ELSE roster[m]]
  /\ edit' = [edit EXCEPT ![e].phase = "accepted"]
  /\ locker' = Nobody

\* A statement fails and the transaction rolls back: 500.
RollsBack(e) ==
  /\ edit[e].phase \in {"locked", "compared", "deleted", "inserted"}
  /\ edit' = [edit EXCEPT ![e].phase = "failed"]
  /\ locker' = Nobody
  /\ UNCHANGED roster

RosterNext ==
  \E e \in Edits : \/ OpensPicker(e) \/ Locks(e) \/ Compares(e) \/ Refuses(e)
                   \/ Deletes(e) \/ Inserts(e) \/ Commits(e) \/ RollsBack(e)

RosterSpec == RosterInit /\ [][RosterNext]_rosterVars

-----------------------------------------------------------------------------

\* Action property: an edit that is accepted replaces the very roster that its
\* picker showed by the one that was picked, and those who stay keep the
\* record of who added them.
EditReplacesWhatItSaw ==
  [][\A e \in Edits : edit[e].phase = "inserted" /\ edit'[e].phase = "accepted" =>
       /\ Current = edit[e].expected
       /\ Current' = edit[e].desired
       /\ \A m \in Current \cap Current' : roster'[m] = roster[m]]_rosterVars
=============================================================================
