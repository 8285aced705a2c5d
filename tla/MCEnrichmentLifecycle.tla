------------------------- MODULE MCEnrichmentLifecycle -------------------------
(***************************************************************************)
(* A small instance of EnrichmentLifecycle.                                 *)
(***************************************************************************)
EXTENDS EnrichmentLifecycle

CONSTANTS r1, a1

\* One linked rotation row.
OneLinked == [r \in {r1} |-> a1]
================================================================================
