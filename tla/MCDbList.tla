----------------------------- MODULE MCDbList -----------------------------
(***************************************************************************)
(* Small instances of DbList for TLC.                                      *)
(***************************************************************************)
EXTENDS DbList, TLC

Symmetry == Permutations(Procs) \cup Permutations(Blocks) \cup Permutations(Values)
=============================================================================
