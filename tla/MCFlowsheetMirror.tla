-------------------------- MODULE MCFlowsheetMirror --------------------------
(***************************************************************************)
(* FlowsheetMirror with small constants.                                   *)
(***************************************************************************)
EXTENDS FlowsheetMirror, TLC

CONSTANTS h1, h2

HandlerSymmetry == Permutations(Handlers)

=============================================================================
