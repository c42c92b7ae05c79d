--------------------------- MODULE NodeAllocator ---------------------------
(***************************************************************************)
(* The node block allocator of memory_operation.h.  Several processes that *)
(* link the library share two files: node_pointer.dat holds the frontier   *)
(* (the first location never handed out) and the number of free blocks,    *)
(* node_trash.dat holds the free locations as a stack.  Every call takes a *)
(* write lock on all of node_pointer.dat first (fcntl, F_SETLKW), and the  *)
(* lock of node_trash.dat inside it.                                       *)
(*                                                                         *)
(* One action per lock, read, write and unlock of the code: a process may  *)
(* be interrupted, or killed, between any two of them.                     *)
(***************************************************************************)
EXTENDS Integers, Sequences, FiniteSets

CONSTANTS Procs,               \* processes linked with the library
          MaxNodeBlockNumber,  \* blocks per .ndb file (global.conf)
          FileLimit,           \* model bound: .ndb files that can be filled
          NoProc               \* "nobody holds this lock"

ASSUME ConstAssumption ==
  /\ MaxNodeBlockNumber \in Nat \ {0}
  /\ FileLimit \in Nat \ {0}
  /\ NoProc \notin Procs

VARIABLES ptr,        \* node_pointer.dat
          trash,      \* node_trash.dat: the stack, stale entries above its top
          ptrLock,    \* the process holding node_pointer.dat
          trashLock,  \* the process holding node_trash.dat
          pc,         \* where each process is in its call
          buf,        \* the 12 bytes each process last read from ptr
          loc,        \* the location each process is handing out or freeing
          live,       \* locations in use by the layers above
          torn        \* history: a delete_node died between its two writes

files == <<ptr, trash>>
vars == <<ptr, trash, ptrLock, trashLock, pc, buf, loc, live, torn>>

Location == Nat \X Nat                                   \* filenum, linenum
BoundedLocation == (0 .. FileLimit - 1) \X (0 .. MaxNodeBlockNumber - 1)
Pointer == [filenum : Nat, linenum : 0 .. MaxNodeBlockNumber - 1,
            trash_size : Nat]

NewPcs == {"new_read", "new_grow", "new_reuse", "new_pop", "new_shrink",
           "new_close"}
DelPcs == {"del_read", "del_count", "del_lock", "del_push", "del_close"}
UsedPcs == {"used_read", "used_close"}
InCall == NewPcs \cup DelPcs \cup UsedPcs

(***************************************************************************)
(* Faults: slips that would be easy to make in the code below.  No         *)
(* specification uses them; each is put in place of the definition its     *)
(* comment names to see that a property notices.                           *)
(***************************************************************************)
\* Advance, with > for >= in the test for the last line of a file.
SkipLastLine(f) ==
  IF f.linenum + 1 > MaxNodeBlockNumber
  THEN [f EXCEPT !.filenum = @ + 1, !.linenum = 0]
  ELSE [f EXCEPT !.linenum = @ + 1]

\* UsedMemory, counting the free blocks as used.
IgnoreTrash(f) == MaxNodeBlockNumber * f.filenum + f.linenum

\* LockPointer, with F_SETLKW left out.
BargeIn(p) == ptrLock' = p

(***************************************************************************)
(* The arithmetic of the pointer file.                                     *)
(***************************************************************************)
EmptyPointer == [filenum |-> 0, linenum |-> 0, trash_size |-> 0]

Frontier(f) == <<f.filenum, f.linenum>>

Advance(f) ==
  IF f.linenum + 1 >= MaxNodeBlockNumber
  THEN [filenum |-> f.filenum + 1, linenum |-> 0, trash_size |-> f.trash_size]
  ELSE [f EXCEPT !.linenum = @ + 1]

UsedMemory(f) == MaxNodeBlockNumber * f.filenum + f.linenum - f.trash_size

\* A write past the end of the trash file leaves a hole that reads as zeros.
WriteEntry(file, k, l) ==
  [i \in 1 .. (IF k > Len(file) THEN k ELSE Len(file)) |->
     IF i = k THEN l ELSE IF i <= Len(file) THEN file[i] ELSE <<0, 0>>]

\* A read past the end leaves the caller's buffer as it was: anything.
ReadEntry(file, k) ==
  IF k \in 1 .. Len(file) THEN {file[k]} ELSE BoundedLocation

(***************************************************************************)
(* Initial state: what clear_all_nodes leaves behind.                      *)
(***************************************************************************)
Init ==
  /\ ptr = EmptyPointer
  /\ trash = <<>>
  /\ ptrLock = NoProc
  /\ trashLock = NoProc
  /\ pc = [p \in Procs |-> "idle"]
  /\ buf = [p \in Procs |-> EmptyPointer]
  /\ loc = [p \in Procs |-> <<0, 0>>]
  /\ live = {}
  /\ torn = FALSE

\* The call is over: its local variables are gone and its lock is dropped.
Return(p, from) ==
  /\ pc[p] = from
  /\ pc' = [pc EXCEPT ![p] = "idle"]
  /\ ptrLock' = NoProc
  /\ buf' = [buf EXCEPT ![p] = EmptyPointer]
  /\ loc' = [loc EXCEPT ![p] = <<0, 0>>]

Goto(p, from, to) ==
  /\ pc[p] = from
  /\ pc' = [pc EXCEPT ![p] = to]

\* A process never waits for its own lock (fcntl locks belong to processes).
LockPointer(p) ==
  /\ ptrLock \in {NoProc, p}
  /\ ptrLock' = p

LockTrash(p) ==
  /\ trashLock \in {NoProc, p}
  /\ trashLock' = p

(***************************************************************************)
(* Faults of the actions.                                                  *)
(***************************************************************************)
\* NewRead, ignoring the free blocks while there is room for new ones.
PreferGrowth(p) ==
  /\ Goto(p, "new_read",
          IF ptr.filenum < FileLimit THEN "new_grow" ELSE "new_reuse")
  /\ buf' = [buf EXCEPT ![p] = ptr]
  /\ UNCHANGED <<files, ptrLock, trashLock, loc, live, torn>>

\* NewClose, without the close: the "unlock" before it leaves a read lock.
LeaveOpen(p) ==
  /\ Goto(p, "new_close", "idle")
  /\ live' = live \cup {loc[p]}
  /\ buf' = [buf EXCEPT ![p] = EmptyPointer]
  /\ loc' = [loc EXCEPT ![p] = <<0, 0>>]
  /\ UNCHANGED <<files, ptrLock, trashLock, torn>>

\* NewShrink, without writing the smaller trash_size back.
ForgetShrink(p) ==
  /\ Goto(p, "new_shrink", "new_close")
  /\ UNCHANGED <<files, ptrLock, trashLock, buf, loc, live, torn>>

(***************************************************************************)
(* new_node_position                                                       *)
(***************************************************************************)
NewLock(p) ==
  /\ ptr.trash_size > 0 \/ ptr.filenum < FileLimit        \* model bound
  /\ Goto(p, "idle", "new_read")
  /\ LockPointer(p)
  /\ UNCHANGED <<files, trashLock, buf, loc, live, torn>>

NewRead(p) ==
  /\ Goto(p, "new_read", IF ptr.trash_size = 0 THEN "new_grow" ELSE "new_reuse")
  /\ buf' = [buf EXCEPT ![p] = ptr]
  /\ UNCHANGED <<files, ptrLock, trashLock, loc, live, torn>>

NewGrow(p) ==
  /\ Goto(p, "new_grow", "new_close")
  /\ loc' = [loc EXCEPT ![p] = Frontier(buf[p])]
  /\ ptr' = Advance(buf[p])
  /\ UNCHANGED <<trash, ptrLock, trashLock, buf, live, torn>>

NewReuse(p) ==
  /\ Goto(p, "new_reuse", "new_pop")
  /\ LockTrash(p)
  /\ UNCHANGED <<files, ptrLock, buf, loc, live, torn>>

NewPop(p) ==
  /\ Goto(p, "new_pop", "new_shrink")
  /\ \E l \in ReadEntry(trash, buf[p].trash_size) : loc' = [loc EXCEPT ![p] = l]
  /\ trashLock' = NoProc
  /\ UNCHANGED <<files, ptrLock, buf, live, torn>>

NewShrink(p) ==
  /\ Goto(p, "new_shrink", "new_close")
  /\ ptr' = [buf[p] EXCEPT !.trash_size = @ - 1]
  /\ UNCHANGED <<trash, ptrLock, trashLock, buf, loc, live, torn>>

\* After a grow the code "unlocks" with F_ULOCK, which is F_RDLCK here: the
\* lock is only given up by the close that follows.  A reuse unlocks, then
\* closes.  Either way no other writer gets in before this step.
NewClose(p) ==
  /\ Return(p, "new_close")
  /\ live' = live \cup {loc[p]}
  /\ UNCHANGED <<files, trashLock, torn>>

(***************************************************************************)
(* delete_node.  The layers above free a block that is in use, once.       *)
(***************************************************************************)
DelLock(p, b) ==
  /\ Goto(p, "idle", "del_read")
  /\ LockPointer(p)
  /\ loc' = [loc EXCEPT ![p] = b]
  /\ live' = live \ {b}
  /\ UNCHANGED <<files, trashLock, buf, torn>>

DelRead(p) ==
  /\ Goto(p, "del_read", "del_count")
  /\ buf' = [buf EXCEPT ![p] = ptr]
  /\ UNCHANGED <<files, ptrLock, trashLock, loc, live, torn>>

DelCount(p) ==
  /\ Goto(p, "del_count", "del_lock")
  /\ ptr' = [buf[p] EXCEPT !.trash_size = @ + 1]
  /\ UNCHANGED <<trash, ptrLock, trashLock, buf, loc, live, torn>>

DelLockTrash(p) ==
  /\ Goto(p, "del_lock", "del_push")
  /\ LockTrash(p)
  /\ UNCHANGED <<files, ptrLock, buf, loc, live, torn>>

DelPush(p) ==
  /\ Goto(p, "del_push", "del_close")
  /\ trash' = WriteEntry(trash, buf[p].trash_size + 1, loc[p])
  /\ trashLock' = NoProc
  /\ UNCHANGED <<ptr, ptrLock, buf, loc, live, torn>>

DelClose(p) ==
  /\ Return(p, "del_close")
  /\ UNCHANGED <<files, trashLock, live, torn>>

(***************************************************************************)
(* used_memory                                                             *)
(***************************************************************************)
UsedLock(p) ==
  /\ Goto(p, "idle", "used_read")
  /\ LockPointer(p)
  /\ UNCHANGED <<files, trashLock, buf, loc, live, torn>>

UsedRead(p) ==
  /\ Goto(p, "used_read", "used_close")
  /\ buf' = [buf EXCEPT ![p] = ptr]
  /\ UNCHANGED <<files, ptrLock, trashLock, loc, live, torn>>

UsedClose(p) ==
  /\ Return(p, "used_close")
  /\ UNCHANGED <<files, trashLock, live, torn>>

(***************************************************************************)
(* A process dies in the middle of a call: the kernel drops its locks, the *)
(* files stay as they are, and the location it was handling is forgotten.  *)
(* A process started in its place is idle.                                 *)
(***************************************************************************)
Unpushed == {"del_lock", "del_push"}      \* counted, not yet on the stack

Crash(p) ==
  /\ pc[p] \in InCall
  /\ Return(p, pc[p])
  /\ trashLock' = IF trashLock = p THEN NoProc ELSE trashLock
  /\ torn' = (torn \/ pc[p] \in Unpushed)
  /\ UNCHANGED <<files, live>>

(***************************************************************************)
(* Specifications                                                          *)
(***************************************************************************)
Call(p) ==
  \/ NewLock(p)
  \/ \E b \in live : DelLock(p, b)
  \/ UsedLock(p)

Step(p) ==
  \/ NewRead(p) \/ NewGrow(p) \/ NewReuse(p) \/ NewPop(p) \/ NewShrink(p)
  \/ NewClose(p)
  \/ DelRead(p) \/ DelCount(p) \/ DelLockTrash(p) \/ DelPush(p) \/ DelClose(p)
  \/ UsedRead(p) \/ UsedClose(p)

Next == \E p \in Procs : Call(p) \/ Step(p)

Spec == Init /\ [][Next]_vars

\* A process inside a call keeps running it; nobody has to start another call.
FairSpec == Spec /\ \A p \in Procs : WF_vars(Step(p))

CrashNext == Next \/ \E p \in Procs : Crash(p)

CrashSpec == Init /\ [][CrashNext]_vars

(***************************************************************************)
(* Properties                                                              *)
(***************************************************************************)
TypeOK ==
  /\ ptr \in Pointer
  /\ trash \in Seq(Location)
  /\ ptrLock \in Procs \cup {NoProc}
  /\ trashLock \in Procs \cup {NoProc}
  /\ pc \in [Procs -> InCall \cup {"idle"}]
  /\ buf \in [Procs -> Pointer]
  /\ loc \in [Procs -> Location]
  /\ live \in SUBSET Location
  /\ torn \in BOOLEAN

Before(l, m) == l[1] < m[1] \/ (l[1] = m[1] /\ l[2] < m[2])

\* The number of stack entries that count.  While a delete_node is between
\* its two writes the pointer file is one ahead of the stack.
FreeCount ==
  IF \E p \in Procs : pc[p] \in Unpushed
  THEN ptr.trash_size - 1
  ELSE ptr.trash_size

Free == {trash[i] : i \in 1 .. FreeCount}

\* Locations between the layers above and the free stack.
Granted == {loc[p] : p \in {q \in Procs : pc[q] = "new_close"}}
Returned == {loc[p] : p \in {q \in Procs :
                                pc[q] \in {"del_read", "del_count"} \cup Unpushed}}

\* A block is handed out to one owner only: whatever the processes do to each
\* other, and wherever they are killed, new_node_position never returns a
\* block that is in use or still free, unless some delete_node died between
\* counting a block as free and pushing it.
GrantIsExclusive ==
  ~torn => Granted \cap (live \cup Free \cup Returned) = {}

\* The free stack can be trusted: its entries are there, different, behind
\* the frontier and not in use, unless a delete_node died half way.  It is
\* what makes the next grants exclusive.
FreeStackSound ==
  ~torn =>
    /\ FreeCount \in 0 .. Len(trash)
    /\ \A i, j \in 1 .. FreeCount : i # j => trash[i] # trash[j]
    /\ Free \cap (live \cup Returned) = {}
    /\ \A l \in Free \cup live \cup Granted \cup Returned :
         Before(l, Frontier(ptr))

\* used_memory never reports fewer blocks than are in use: a killed process
\* can leak blocks, it cannot make the count too small.
UsedMemoryCoversLive ==
  ~torn => \A p \in Procs :
    pc[p] = "used_close" => UsedMemory(buf[p]) >= Cardinality(live)

\* Without crashes used_memory is exact, whoever else is in the middle of
\* a call: it reports the number of blocks in use.
UsedMemoryExact ==
  \A p \in Procs :
    pc[p] = "used_close" => UsedMemory(buf[p]) = Cardinality(live)

\* Without crashes the two files and the calls in progress implement a pool
\* of blocks.  A grant takes effect with the write of the pointer file, a
\* release with the push on the stack.
Pool == INSTANCE BlockPool WITH
  Blocks <- Location,
  live <- live \cup Granted \cup Returned,
  pool <- Free

PoolSpec == Pool!Spec

\* The two locks never wait for each other: whoever holds node_pointer.dat
\* gives it back.
LockIsReleased == \A p \in Procs : ptrLock = p ~> ptrLock # p
=============================================================================
