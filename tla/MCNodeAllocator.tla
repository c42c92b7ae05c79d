-------------------------- MODULE MCNodeAllocator --------------------------
(***************************************************************************)
(* Small instances of NodeAllocator for TLC.                               *)
(***************************************************************************)
EXTENDS NodeAllocator, TLC

Symmetry == Permutations(Procs)

\* Locations are quantified over in the abstract specification.
MCPool == INSTANCE BlockPool WITH
  Blocks <- BoundedLocation,
  live <- live \cup Granted \cup Returned,
  pool <- Free

MCPoolSpec == MCPool!Spec
=============================================================================
