--------------------------- MODULE MCShowSession ---------------------------
(***************************************************************************)
(* Small instances of ShowSession and of PlayOrder, each on its own: part  *)
(* is picked at the start, and the other one stands still.  The DJs are    *)
(* interchangeable, and so are the requests, and the names of the rows.  A *)
(* history counts the calls that began, and CallsBounded keeps TLC to the  *)
(* first MaxCalls of them, however they overlap.                           *)
(***************************************************************************)
EXTENDS ShowSession, PlayOrder, TLC

CONSTANT MaxCalls   \* bound: calls from the start

VARIABLES part, begun

MCInit ==
  /\ part \in {"show", "order"}
  /\ Init /\ OrderInit
  /\ begun = 0

\* A delete of the webhook is over in one step.
Begins ==
  \/ \E r \in Requests : call[r] = Idle /\ call'[r] # Idle
  \/ call' = call

ShowGoesOn ==
  /\ part = "show" /\ Next
  /\ begun' = IF Begins THEN begun + 1 ELSE begun
  /\ UNCHANGED <<part, orderVars>>

OrderGoesOn == part = "order" /\ OrderNext /\ UNCHANGED <<part, begun, vars>>

MCNext == ShowGoesOn \/ OrderGoesOn

MCSpec == MCInit /\ [][MCNext]_<<vars, orderVars, part, begun>>

CallsBounded == begun <= MaxCalls

Symmetry ==
  Permutations(DJs) \cup Permutations(Requests)
  \cup Permutations(RowIds) \cup Permutations(Reorders)

\* The type invariants of the two.
PartsTypeOK == TypeOK /\ OrderTypeOK

=============================================================================
