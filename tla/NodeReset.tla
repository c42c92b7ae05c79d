----------------------------- MODULE NodeReset -----------------------------
(***************************************************************************)
(* clear_all_nodes of memory_operation.h, which the reset command of the   *)
(* server calls, next to the allocator calls of other processes.  It opens *)
(* node_pointer.dat for writing, which empties the file at once, takes a   *)
(* lock with flock (which fcntl locks do not notice), writes twelve zeros, *)
(* which reach the file when it is closed, and then empties                *)
(* node_trash.dat.                                                         *)
(***************************************************************************)
EXTENDS NodeAllocator

CONSTANT MaxRead      \* model bound: what an uninitialised buffer can hold

ASSUME ResetAssumption == MaxRead \in Nat

VARIABLE erased       \* node_pointer.dat is empty

resetVars == <<vars, erased>>

ResetInit == Init /\ erased = FALSE

Resetting == \E p \in Procs : pc[p] \in {"reset_write", "reset_trash"}

\* A read of the empty file leaves the caller's buffer as it was.
Garbage == [filenum : 0 .. MaxRead, linenum : 0 .. MaxRead, trash_size : 0 .. MaxRead]

(***************************************************************************)
(* Fault: see NodeAllocator.  ResetWrite, clearing only the frontier.      *)
(***************************************************************************)
KeepCount(p) ==
  /\ Goto(p, "reset_write", "reset_trash")
  /\ ptr' = [EmptyPointer EXCEPT !.trash_size = ptr.trash_size]
  /\ erased' = FALSE
  /\ torn' = FALSE
  /\ UNCHANGED <<trash, ptrLock, trashLock, buf, loc, live>>

(***************************************************************************)
(* clear_all_nodes.  From its first step on no block is in use any more,   *)
(* and until its second the files cannot be trusted (torn); whatever       *)
(* crashes did to them before, they can be from then on.  The properties   *)
(* of NodeAllocator under ~torn are what a reset has to bring about.       *)
(***************************************************************************)
ResetTruncate(p) ==
  /\ Goto(p, "idle", "reset_write")
  /\ erased' = TRUE
  /\ torn' = TRUE
  /\ live' = {}
  /\ UNCHANGED <<files, ptrLock, trashLock, buf, loc>>

ResetWrite(p) ==
  /\ Goto(p, "reset_write", "reset_trash")
  /\ ptr' = EmptyPointer
  /\ erased' = FALSE
  /\ torn' = FALSE
  /\ UNCHANGED <<trash, ptrLock, trashLock, buf, loc, live>>

ResetTrash(p) ==
  /\ Goto(p, "reset_trash", "idle")
  /\ trash' = <<>>
  /\ UNCHANGED <<ptr, ptrLock, trashLock, buf, loc, live, torn, erased>>

Reset(p) == ResetTruncate(p) \/ ResetWrite(p) \/ ResetTrash(p)

\* The process is killed during the reset; what it wrote with fprintf may not
\* have reached the file.
KillReset(p) ==
  /\ pc[p] \in {"reset_write", "reset_trash"}
  /\ pc' = [pc EXCEPT ![p] = "idle"]
  /\ UNCHANGED <<files, ptrLock, trashLock, buf, loc, live, torn, erased>>

(***************************************************************************)
(* The calls of NodeAllocator, on a file that may be empty.                *)
(***************************************************************************)
Reads == {"new_read", "del_read", "used_read"}
Writes == {"new_grow", "new_shrink", "del_count"}

\* NewRead, DelRead and UsedRead, when there is nothing to read.
ReadNothing(p) ==
  /\ erased
  /\ pc[p] \in Reads
  /\ \E f \in Garbage :
       /\ buf' = [buf EXCEPT ![p] = f]
       /\ pc' = [pc EXCEPT ![p] =
                   CASE @ = "del_read" -> "del_count"
                     [] @ = "used_read" -> "used_close"
                     [] @ = "new_read" /\ f.trash_size = 0 -> "new_grow"
                     [] @ = "new_read" /\ f.trash_size > 0 -> "new_reuse"]
  /\ UNCHANGED <<files, ptrLock, trashLock, loc, live, torn, erased>>

\* Every other step; a write of the twelve bytes makes the file whole again.
Proceed(p) ==
  /\ erased => pc[p] \notin Reads
  /\ Step(p)
  /\ erased' = (erased /\ pc[p] \notin Writes)

Start(p) == Call(p) /\ UNCHANGED erased

(***************************************************************************)
(* Specifications                                                          *)
(***************************************************************************)
\* Assumed of the callers: a reset runs while nobody else is in a call.  The
\* code does not see to it (flock does not exclude the fcntl locks).
Quiet == \A p \in Procs : pc[p] = "idle"

Run(p) ==
  \/ ~Resetting /\ (Start(p) \/ Proceed(p) \/ ReadNothing(p))
  \/ (Quiet \/ pc[p] # "idle") /\ Reset(p)

Die(p) == KillReset(p) \/ (Crash(p) /\ UNCHANGED erased)

ResetCrashSpec == ResetInit /\ [][\E p \in Procs : Run(p) \/ Die(p)]_resetVars

=============================================================================
