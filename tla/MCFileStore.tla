---------------------------- MODULE MCFileStore ----------------------------
(***************************************************************************)
(* FileStore for TLC.  Neither processes nor values have an order.         *)
(***************************************************************************)
EXTENDS FileStore, TLC

FileSymmetry == Permutations(Processes) \cup Permutations(Values)
=============================================================================
