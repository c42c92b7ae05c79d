------------------------------ MODULE MCDbMap ------------------------------
(***************************************************************************)
(* Small instances of DbMap for TLC.                                       *)
(***************************************************************************)
EXTENDS DbMap, TLC

SharedSymmetry ==
  Permutations(Blocks) \cup Permutations(Maps) \cup Permutations(Handles)
    \cup Permutations(Values)

Symmetry == Permutations(Blocks) \cup Permutations(Values)

\* What the steps depend on: did only records the last one.
View == <<disk, header, handle>>
=============================================================================
