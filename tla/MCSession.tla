----------------------------- MODULE MCSession -----------------------------
(***************************************************************************)
(* Session for TLC.  Runners are interchangeable.                          *)
(***************************************************************************)
EXTENDS Session, TLC

RunnerSymmetry == Permutations(Runners)
=============================================================================
