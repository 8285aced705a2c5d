-------------------------------- MODULE Places --------------------------------
(***************************************************************************)
(* What a filter leaves of a sequence, by the places it keeps.             *)
(***************************************************************************)
EXTENDS Naturals, Sequences, FiniteSets

\* The place i comes k-th among the places.
Rank(places, i) == Cardinality({j \in places : j <= i})

\* The elements of s at the places, in their order.
AtPlaces(s, places) ==
  [k \in 1 .. Cardinality(places) |-> s[CHOOSE i \in places : Rank(places, i) = k]]
=============================================================================
