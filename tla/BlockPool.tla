----------------------------- MODULE BlockPool -----------------------------
(***************************************************************************)
(* What the storage layer promises to the layers above it: the database is *)
(* a pool of blocks; a block that is asked for was not in use, and a block *)
(* that is given back can be asked for again.  The files only grow when no *)
(* returned block is left to hand out.                                     *)
(***************************************************************************)
CONSTANT Blocks       \* every location a block can have

VARIABLES live,       \* blocks in use by the layers above
          pool        \* blocks given back and not yet handed out again

vars == <<live, pool>>

TypeOK ==
  /\ live \in SUBSET Blocks
  /\ pool \in SUBSET Blocks

Init ==
  /\ live = {}
  /\ pool = {}

Alloc ==
  \E b \in Blocks \ live :
    /\ pool # {} => b \in pool
    /\ live' = live \cup {b}
    /\ pool' = pool \ {b}

Free ==
  \E b \in live :
    /\ live' = live \ {b}
    /\ pool' = pool \cup {b}

Next == Alloc \/ Free

Spec == Init /\ [][Next]_vars
=============================================================================
