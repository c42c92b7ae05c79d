---------------------------- MODULE MCNodeReset ----------------------------
(***************************************************************************)
(* Small instances of NodeReset for TLC.                                   *)
(***************************************************************************)
EXTENDS NodeReset, TLC

Symmetry == Permutations(Procs)
=============================================================================
