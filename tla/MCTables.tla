------------------------------- MODULE MCTables -------------------------------
(***************************************************************************)
(* Three protocols about one table each, each on its own, in one run:      *)
(* conditional GETs (Watermark), the edits of the moderator roster         *)
(* (ModeratorRoster), and an album row with a row of the backfill job      *)
(* among its askers (AlbumMetadata).  "part" is picked at the start, and   *)
(* the other parts stand still.                                            *)
(***************************************************************************)
EXTENDS AlbumMetadata, Watermark, ModeratorRoster

VARIABLE part

allVars == <<part, vars, watermarkVars, rosterVars>>

\* The parts that stand still have one initial state.
MCInit ==
  /\ part \in {"album", "watermark", "roster"}
  /\ Init /\ WatermarkInit /\ RosterInit
  /\ part # "watermark" => table = "library"
  /\ part # "roster" => Current = {}

AlbumGoesOn == part = "album" /\ Next /\ UNCHANGED <<part, watermarkVars, rosterVars>>
WatermarkGoesOn == part = "watermark" /\ WatermarkNext /\ UNCHANGED <<part, vars, rosterVars>>
RosterGoesOn == part = "roster" /\ RosterNext /\ UNCHANGED <<part, vars, watermarkVars>>

MCNext == AlbumGoesOn \/ WatermarkGoesOn \/ RosterGoesOn
MCSpec == MCInit /\ [][MCNext]_allVars

\* All that is checked here is safety.
Interchangeable == Permutations(Clients) \cup Permutations(Writers)

\* The type invariants of the three parts.
PartsTypeOK == TypeOK /\ WatermarkTypeOK /\ RosterTypeOK
=============================================================================
