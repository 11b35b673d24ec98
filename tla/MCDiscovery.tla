---------------------------- MODULE MCDiscovery ----------------------------
(***************************************************************************)
(* Discovery for TLC.  Calls are interchangeable until they begin.         *)
(***************************************************************************)
EXTENDS Discovery, TLC

InitSymmetry == Permutations(Inits)
=============================================================================
