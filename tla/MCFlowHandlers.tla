--------------------------- MODULE MCFlowHandlers ---------------------------
(***************************************************************************)
(* FlowHandlers for TLC.                                                   *)
(***************************************************************************)
EXTENDS FlowHandlers
=============================================================================
