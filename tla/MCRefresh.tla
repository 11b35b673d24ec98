----------------------------- MODULE MCRefresh -----------------------------
(***************************************************************************)
(* Refresh for TLC.  Callers are interchangeable.                          *)
(***************************************************************************)
EXTENDS Refresh, TLC

CallerSymmetry == Permutations(Callers)
=============================================================================
