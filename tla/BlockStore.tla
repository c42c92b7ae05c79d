----------------------------- MODULE BlockStore -----------------------------
(***************************************************************************)
(* What file_operation.h promises: files of blocks that are read and       *)
(* written whole.  A read of a file or a line that is not there leaves the *)
(* caller's buffer alone.                                                  *)
(***************************************************************************)
EXTENDS Integers

CONSTANTS Procs, Files, LineNums, Values,
          Zero       \* a block nobody wrote, below one that was

VARIABLES there,     \* the files that exist
          length,    \* lines in each file
          block,     \* what each line holds
          answer     \* the last answer each process got

vars == <<there, length, block, answer>>

None == <<>>

Init ==
  /\ there = {}
  /\ length = [f \in Files |-> 0]
  /\ block = [f \in Files |-> [l \in LineNums |-> Zero]]
  /\ answer = [p \in Procs |-> None]

Tell(p, a) == answer' = [answer EXCEPT ![p] = a]

Create(f) == there' = there \cup {f} /\ UNCHANGED <<length, block, answer>>

Write(f, l, v) ==
  /\ f \in there
  /\ block' = [block EXCEPT ![f][l] = v]
  /\ length' = [length EXCEPT ![f] = IF l < @ THEN @ ELSE l + 1]
  /\ UNCHANGED <<there, answer>>

Read(p, f, l) ==
  /\ Tell(p, IF l < length[f] THEN <<block[f][l]>> ELSE None)
  /\ UNCHANGED <<there, length, block>>

Lines(p, f) ==
  /\ Tell(p, <<IF f \in there THEN length[f] ELSE -1>>)
  /\ UNCHANGED <<there, length, block>>

\* The next call forgets the last one's answer.
Forget(p) == Tell(p, None) /\ UNCHANGED <<there, length, block>>

Next ==
  \E f \in Files :
    \/ Create(f)
    \/ \E l \in LineNums, v \in Values : Write(f, l, v)
    \/ \E p \in Procs :
         \/ \E l \in LineNums : Read(p, f, l)
         \/ Lines(p, f)
         \/ Forget(p)

Spec == Init /\ [][Next]_vars
=============================================================================
