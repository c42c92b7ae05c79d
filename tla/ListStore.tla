----------------------------- MODULE ListStore -----------------------------
(***************************************************************************)
(* What db_list promises: a list is a sequence of values that grows and    *)
(* shrinks at both ends and can be overwritten in place.  A call takes     *)
(* effect once, at one moment between its start and its return, and on its *)
(* own list only.  A process that dies may take the list it was shrinking  *)
(* with it, and nothing else.                                              *)
(***************************************************************************)
EXTENDS Integers, Sequences, SequencesExt

CONSTANTS Procs,      \* processes linked with the library
          Lists,      \* names a list can have
          Values      \* what an element can hold

VARIABLES contents,   \* the lists that exist: name -> sequence of values
          asked,      \* the call each process is in
          done        \* whether it has taken effect

vars == <<contents, asked, done>>

\* index and val are those of update and of the pushes; others ignore them.
Request == [op : {"none", "create", "push_tail", "push_head", "pop_tail", "pop_head",
                  "update", "release"},
            list : Lists, index : Nat, val : Values]

Init ==
  /\ contents = <<>>
  /\ \A p \in Procs : asked[p].op = "none"
  /\ done = [p \in Procs |-> FALSE]

Others(p) ==
  \A q \in Procs \ {p} : asked'[q] = asked[q] /\ done'[q] = done[q]

Ask(p) ==
  /\ asked[p].op = "none"
  /\ asked'[p] \in Request
  /\ asked'[p].op = "create" \/ asked'[p].list \in DOMAIN contents
  /\ ~done'[p]
  /\ Others(p)
  /\ UNCHANGED contents

(***************************************************************************)
(* The effects.                                                            *)
(***************************************************************************)
Become(l, s) == contents' = [contents EXCEPT ![l] = s]

Erase(l) == contents' = [m \in DOMAIN contents \ {l} |-> contents[m]]

Effect(r) ==
  LET s == contents[r.list]
  IN \/ /\ r.op = "create"
        /\ r.list \notin DOMAIN contents
        /\ contents' = [m \in DOMAIN contents \cup {r.list} |->
                          IF m = r.list THEN <<>> ELSE contents[m]]
     \/ r.op = "push_tail" /\ Become(r.list, Append(s, r.val))
     \/ r.op = "push_head" /\ Become(r.list, Cons(r.val, s))
     \/ r.op = "pop_tail" /\ s # <<>> /\ Become(r.list, Front(s))
     \/ r.op = "pop_head" /\ s # <<>> /\ Become(r.list, Tail(s))
     \/ /\ r.op = "update"
        /\ r.index < Len(s)
        /\ Become(r.list, [s EXCEPT ![r.index + 1] = r.val])
     \/ r.op = "release" /\ Erase(r.list)

Act(p) ==
  /\ ~done[p]
  /\ Effect(asked[p])
  /\ \/ asked'[p] = asked[p] /\ done'[p]             \* it returns later
     \/ asked'[p].op = "none" /\ ~done'[p]           \* it returns at once
  /\ Others(p)

Return(p) ==
  /\ done[p]
  /\ asked'[p].op = "none"
  /\ ~done'[p]
  /\ Others(p)
  /\ UNCHANGED contents

Die(p) ==
  /\ asked[p].op # "none"
  /\ asked'[p].op = "none"
  /\ ~done'[p]
  /\ Others(p)
  /\ \/ UNCHANGED contents
     \/ done[p] /\ asked[p].op \in {"pop_tail", "pop_head"} /\ Erase(asked[p].list)

Next == \E p \in Procs : Ask(p) \/ Act(p) \/ Return(p) \/ Die(p)

Spec == Init /\ [][Next]_vars
=============================================================================
