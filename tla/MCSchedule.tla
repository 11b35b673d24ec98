----------------------------- MODULE MCSchedule -----------------------------
(***************************************************************************)
(* Schedule for TLC.  Loops are interchangeable.                           *)
(***************************************************************************)
EXTENDS Schedule, TLC

LoopSymmetry == Permutations(Loops)
=============================================================================
