------------------------------ MODULE Catalog ------------------------------
(***************************************************************************)
(* What the registry promises: a name stands for one map or list, and each *)
(* call changes only the one it names.  A process killed in the middle of  *)
(* a call leaves at most that one damaged, under its name; or, if it was   *)
(* writing to the root map of one kind, leaves nothing known about the     *)
(* names of that kind and everything about those of the other.             *)
(***************************************************************************)
EXTENDS Naturals

CONSTANTS Kinds,
          Ids,          \* pairs of a kind and a name
          Damaged       \* what is left of a map or list half written

VARIABLES contents,     \* the ids that exist: id -> number of its entries
          lost          \* the kinds whose ids are no longer known

Existing == DOMAIN contents

Init == contents = <<>> /\ lost = {}

Create(id) ==
  /\ id \notin Existing
  /\ id[1] \notin lost
  /\ contents' = [i \in Existing \cup {id} |-> IF i = id THEN 0 ELSE contents[i]]
  /\ UNCHANGED lost

Put(id) ==
  /\ contents[id] # Damaged
  /\ contents' = [contents EXCEPT ![id] = @ + 1]
  /\ UNCHANGED lost

Delete(id) ==
  /\ contents[id] # Damaged
  /\ contents' = [i \in Existing \ {id} |-> contents[i]]
  /\ UNCHANGED lost

Damage(id) ==
  /\ contents' = [contents EXCEPT ![id] = Damaged]
  /\ UNCHANGED lost

Lose(kind) ==
  /\ contents' = [i \in {id \in Existing : id[1] # kind} |-> contents[i]]
  /\ lost' = lost \cup {kind}

Reset == contents' = <<>> /\ lost' = {}

Next ==
  \/ \E id \in Ids : Create(id)
  \/ \E id \in Existing : Put(id) \/ Delete(id) \/ Damage(id)
  \/ \E kind \in Kinds : Lose(kind)
  \/ Reset

Spec == Init /\ [][Next]_<<contents, lost>>
=============================================================================
