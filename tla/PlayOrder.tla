------------------------------ MODULE PlayOrder ------------------------------
(***************************************************************************)
(* flowsheet.play_order within one show, in one process of the backend: a  *)
(* new row asks for the next number and is inserted by a second statement, *)
(* a DJ moves rows, one move at a time (orderMutex), in a transaction of   *)
(* three statements, rows are deleted meanwhile, and the webhook brings    *)
(* rows with the numbers of tubafrenzy.                                    *)
(***************************************************************************)
EXTENDS Naturals, FiniteSets, FiniteSetsExt, Functions

CONSTANTS RowIds,    \* names of rows
          Reorders,  \* requests that move a row
          MaxPlace   \* bound: the numbers given and named

ASSUME OrderAssumption ==
  /\ IsFiniteSet(RowIds)
  /\ MaxPlace \in Nat

VARIABLES
  place,   \* play_order of the rows there are, as committed
  asked,   \* the number that nextPlayOrder gave to a row not yet inserted
  move,    \* each reorder's transaction
  raced    \* history: an add overlapped a move or an add, or the webhook added

orderVars == <<place, asked, move, raced>>

NoMove == [at |-> "idle"]
\* held: the rows its UPDATE has locked, with their new numbers.
Moves(held) == [at : {"shift", "place"}, row : RowIds, from : Nat, to : Nat, held : {held}]

OrderInit ==
  /\ place = << >> /\ asked = << >>
  /\ move = [r \in Reorders |-> NoMove]
  /\ raced = FALSE

Present == DOMAIN place
UnderWay == {r \in Reorders : move[r] # NoMove}
Held(e) == \E r \in UnderWay : e \in DOMAIN move[r].held

\* coalesce(max(play_order), 0) + 1
NextPlayOrder == IF Present = {} THEN 1 ELSE Max(Range(place)) + 1

Races(asks, moves) ==
  \/ Cardinality(DOMAIN asks) > 1
  \/ asks # << >> /\ \E r \in Reorders : moves[r] # NoMove

-----------------------------------------------------------------------------

\* The name of a deleted row is used again, once nothing refers to it.
IsFree(e) == e \notin Present \cup DOMAIN asked \cup {move[r].row : r \in UnderWay}

AskPlace(e) ==
  /\ IsFree(e) /\ NextPlayOrder <= MaxPlace
  /\ asked' = [x \in DOMAIN asked \cup {e} |-> IF x = e THEN NextPlayOrder ELSE asked[x]]
  /\ raced' = (raced \/ Races(asked', move))
  /\ UNCHANGED <<place, move>>

InsertRow(e) ==
  /\ e \in DOMAIN asked
  /\ place' = [x \in Present \cup {e} |-> IF x = e THEN asked[e] ELSE place[x]]
  /\ asked' = Restrict(asked, DOMAIN asked \ {e})
  /\ UNCHANGED <<move, raced>>

InsertFails(e) ==
  /\ e \in DOMAIN asked
  /\ asked' = Restrict(asked, DOMAIN asked \ {e})
  /\ UNCHANGED <<place, move, raced>>

\* sequenceWithinShow ?? 0
WebhookInserts(e, n) ==
  /\ IsFree(e)
  /\ place' = [x \in Present \cup {e} |-> IF x = e THEN n ELSE place[x]]
  /\ raced' = TRUE
  /\ UNCHANGED <<asked, move>>

\* By a DJ or by the webhook.  A row that a move has locked waits for its commit.
RemoveRow(e) ==
  /\ e \in Present /\ ~Held(e)
  /\ place' = Restrict(place, Present \ {e})
  /\ UNCHANGED <<asked, move, raced>>

-----------------------------------------------------------------------------
(* changeOrder                                                             *)

\* Mutant: the reorders of the process do not wait for each other.
MutexIsOpen(r) == r \notin UnderWay

MutexIsFree(r) == UnderWay = {}

\* The mutex is acquired, and the transaction reads the row; with no such row the
\* request ends here.
SelectRow(r, e, to) ==
  /\ MutexIsFree(r)
  /\ e \in Present
  /\ move' = [move EXCEPT ![r] =
       [at |-> "shift", row |-> e, from |-> place[e], to |-> to, held |-> << >>]]
  /\ raced' = (raced \/ Races(asked, move'))
  /\ UNCHANGED <<place, asked>>

\* The rows between the two numbers make room, those inserted meanwhile too.
Between(from, to) ==
  {e \in Present : \/ to <= place[e] /\ place[e] < from
                   \/ from < place[e] /\ place[e] <= to}

ShiftRows(r) ==
  /\ move[r] # NoMove /\ move[r].at = "shift"
  /\ LET from == move[r].from
         to == move[r].to
     IN  /\ \A e \in Between(from, to) : ~Held(e)
         /\ move' = [move EXCEPT ![r].at = "place",
              ![r].held = [e \in Between(from, to) |->
                             IF to < from THEN place[e] + 1 ELSE place[e] - 1]]
  /\ UNCHANGED <<place, asked, raced>>

\* The row itself, if it is still there, COMMIT and release.
PlaceRow(r) ==
  /\ move[r] # NoMove /\ move[r].at = "place"
  /\ place' = [e \in Present |->
       IF e = move[r].row THEN move[r].to
       ELSE IF e \in DOMAIN move[r].held THEN move[r].held[e] ELSE place[e]]
  /\ move' = [move EXCEPT ![r] = NoMove]
  /\ UNCHANGED <<asked, raced>>

\* A statement fails: the transaction is rolled back and the mutex released.
MoveFails(r) ==
  /\ move[r] # NoMove
  /\ move' = [move EXCEPT ![r] = NoMove]
  /\ UNCHANGED <<place, asked, raced>>

OrderNext ==
  \/ \E e \in RowIds :
       \/ AskPlace(e) \/ InsertRow(e) \/ InsertFails(e) \/ RemoveRow(e)
       \/ \E n \in 0 .. MaxPlace : WebhookInserts(e, n)
  \/ \E r \in Reorders :
       \/ \E e \in RowIds, to \in 1 .. MaxPlace : SelectRow(r, e, to)
       \/ ShiftRows(r) \/ PlaceRow(r) \/ MoveFails(r)

OrderSpec == OrderInit /\ [][OrderNext]_orderVars

-----------------------------------------------------------------------------
(* Properties                                                              *)

\* The type invariant.
OrderTypeOK ==
  /\ Present \subseteq RowIds /\ DOMAIN asked \subseteq RowIds \ Present
  /\ \A e \in Present : place[e] \in Nat
  /\ \A e \in DOMAIN asked : asked[e] \in Nat \ {0}
  /\ \A r \in UnderWay : move[r] \in Moves(move[r].held)
  /\ raced \in BOOLEAN

\* Rows that are added one at a time, with no move under way, have a number each
\* and keep it to themselves, however rows are moved, also past the end of the
\* show, and deleted between the statements of a move; and a move changes the
\* order of no two rows but of the one it moves.
OrderIsKept ==
  /\ [](~raced => IsInjective(place))
  /\ [][~raced' => \A e, f \in Present \cap Present' :
          \/ place[e] < place[f] <=> place'[e] < place'[f]
          \/ \E r \in UnderWay : move[r].row \in {e, f} /\ move'[r] = NoMove]_orderVars

=============================================================================
