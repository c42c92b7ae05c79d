------------------------ MODULE NodeAllocatorProofs ------------------------
(***************************************************************************)
(* Proofs about NodeAllocator, and at the end about NodeReset, for any set *)
(* of processes, any number of blocks per file and any bound on the files. *)
(*                                                                         *)
(* The control part (CtlInv) says that a process in a call holds the lock  *)
(* of node_pointer.dat, hence that everybody else is idle, and that what   *)
(* it read is still what the file holds.  The data part (Sound) is then    *)
(* about one process at a time: the free stack, the blocks in use and the  *)
(* location in flight never overlap.  The count of used_memory then comes   *)
(* from a balance: every location behind the frontier is free, in use, in  *)
(* flight, or was lost with a process that died.                           *)
(***************************************************************************)
EXTENDS NodeReset, SequenceTheorems, FiniteSetTheorems, TLAPS

Fresh == {"new_grow", "new_reuse", "new_pop", "new_shrink", "del_count",
          "used_close"}

\* The locks are exclusive and a call never works on an outdated pointer.
CtlInv ==
  /\ TypeOK
  /\ \A p \in Procs : pc[p] \in InCall <=> ptrLock = p
  /\ \A p \in Procs : pc[p] \in {"new_pop", "del_push"} <=> trashLock = p
  /\ \A p \in Procs :
       /\ pc[p] \in Fresh => buf[p] = ptr
       /\ pc[p] = "new_grow" => ptr.trash_size = 0
       /\ pc[p] \in {"new_reuse", "new_pop", "new_shrink"} => ptr.trash_size > 0
       /\ pc[p] \in Unpushed => ptr.trash_size = buf[p].trash_size + 1

Pending == {"new_close", "del_read", "del_count", "del_lock", "del_push"}

\* The stack entries that count, the blocks in use and the location a call is
\* handing out or taking back are different blocks behind the frontier.
Sound ==
  /\ FreeCount \in 0 .. Len(trash)
  /\ \A i, j \in 1 .. FreeCount : i # j => trash[i] # trash[j]
  /\ \A i \in 1 .. FreeCount :
       trash[i] \notin live /\ Before(trash[i], Frontier(ptr))
  /\ \A l \in live : Before(l, Frontier(ptr))
  /\ \A p \in Procs : pc[p] \in Pending =>
       /\ loc[p] \notin live
       /\ Before(loc[p], Frontier(ptr))
       /\ \A i \in 1 .. FreeCount : trash[i] # loc[p]
  /\ \A p \in Procs : pc[p] = "new_shrink" => loc[p] = trash[ptr.trash_size]

\* The inductive invariant.
IInv == CtlInv /\ (~torn => Sound)

-----------------------------------------------------------------------------
(***************************************************************************)
(* The file operations.                                                    *)
(***************************************************************************)
LEMMA AdvanceProperties ==
  ASSUME NEW f \in Pointer
  PROVE  /\ Advance(f) \in Pointer
         /\ Advance(f).trash_size = f.trash_size
         /\ Before(Frontier(f), Frontier(Advance(f)))
         /\ \A l \in Location :
              Before(l, Frontier(f)) => Before(l, Frontier(Advance(f)))
         /\ ~ Before(Frontier(f), Frontier(f))
         /\ Frontier(f) \in Location
<1> USE ConstAssumption DEF Pointer
<1>1. Frontier(f) \in Location /\ ~ Before(Frontier(f), Frontier(f))
  BY DEF Frontier, Location, Before
<1>2. CASE f.linenum + 1 >= MaxNodeBlockNumber
  <2>1. Advance(f) = [filenum |-> f.filenum + 1, linenum |-> 0,
                      trash_size |-> f.trash_size]
    BY <1>2 DEF Advance
  <2>2. /\ Advance(f) \in Pointer
        /\ Advance(f).filenum = f.filenum + 1
        /\ Advance(f).trash_size = f.trash_size
    BY <2>1
  <2> QED
    BY <1>1, <2>2 DEF Before, Frontier, Location
<1>3. CASE ~ (f.linenum + 1 >= MaxNodeBlockNumber)
  <2>1. Advance(f) = [f EXCEPT !.linenum = @ + 1]
    BY <1>3 DEF Advance
  <2> QED
    BY <1>1, <1>3, <2>1 DEF Before, Frontier, Location
<1> QED
  BY <1>2, <1>3

LEMMA SetTrashSize ==
  ASSUME NEW f \in Pointer, NEW n \in Nat
  PROVE  /\ [f EXCEPT !.trash_size = n] \in Pointer
         /\ [f EXCEPT !.trash_size = n].trash_size = n
         /\ Frontier([f EXCEPT !.trash_size = n]) = Frontier(f)
  BY DEF Pointer, Frontier

LEMMA WriteEntryProperties ==
  ASSUME NEW file \in Seq(Location), NEW k \in Nat \ {0}, NEW l \in Location
  PROVE  /\ WriteEntry(file, k, l) \in Seq(Location)
         /\ Len(WriteEntry(file, k, l)) >= k
         /\ Len(WriteEntry(file, k, l)) >= Len(file)
         /\ WriteEntry(file, k, l)[k] = l
         /\ \A i \in 1 .. Len(file) : i # k => WriteEntry(file, k, l)[i] = file[i]
<1> DEFINE n == IF k > Len(file) THEN k ELSE Len(file)
           w == WriteEntry(file, k, l)
<1>1. Len(file) \in Nat /\ n \in Nat
  OBVIOUS
<1>2. \A i \in 1 .. n : (IF i = k THEN l ELSE IF i <= Len(file) THEN file[i] ELSE <<0, 0>>) \in Location
  BY DEF Location
<1>3. w \in [1 .. n -> Location]
  BY <1>2 DEF WriteEntry
<1>4. w \in Seq(Location)
  BY <1>1, <1>3, SeqDef
<1>5. Len(w) = n
  BY <1>1, <1>3, <1>4, LenProperties
<1> QED
  BY <1>1, <1>4, <1>5 DEF WriteEntry

LEMMA ReadEntryProperties ==
  ASSUME NEW file \in Seq(Location), NEW k \in Nat
  PROVE  /\ ReadEntry(file, k) \subseteq Location
         /\ k \in 1 .. Len(file) => ReadEntry(file, k) = {file[k]}
  BY ConstAssumption DEF ReadEntry, Location, BoundedLocation

-----------------------------------------------------------------------------
(***************************************************************************)
(* Control.                                                                *)
(***************************************************************************)
LEMMA CtlInit == Init => CtlInv
<1> SUFFICES ASSUME Init PROVE CtlInv
  OBVIOUS
<1>1. EmptyPointer \in Pointer /\ <<0, 0>> \in Location /\ <<>> \in Seq(Location)
  BY ConstAssumption DEF Pointer, EmptyPointer, Location
<1>2. TypeOK
  BY <1>1 DEF Init, TypeOK
<1> QED
  BY <1>2, ConstAssumption DEF Init, CtlInv, InCall, NewPcs, DelPcs, UsedPcs,
     Fresh, Unpushed

LEMMA CtlStep == CtlInv /\ [CrashNext]_vars => CtlInv'
<1> SUFFICES ASSUME CtlInv, [CrashNext]_vars PROVE CtlInv'
  OBVIOUS
<1> USE ConstAssumption DEF CtlInv, TypeOK, Goto, files, InCall, NewPcs, DelPcs,
        UsedPcs, Fresh, Unpushed
<1>1. ASSUME NEW p \in Procs, NewLock(p) PROVE CtlInv'
  BY <1>1 DEF NewLock, LockPointer
<1>2. ASSUME NEW p \in Procs, NEW b \in live, DelLock(p, b) PROVE CtlInv'
  BY <1>2 DEF DelLock, LockPointer
<1>3. ASSUME NEW p \in Procs, UsedLock(p) PROVE CtlInv'
  BY <1>3 DEF UsedLock, LockPointer
<1>4. ASSUME NEW p \in Procs, NewRead(p) PROVE CtlInv'
  BY <1>4 DEF NewRead, Pointer
<1>5. ASSUME NEW p \in Procs, NewGrow(p) PROVE CtlInv'
  <2>1. Advance(buf[p]) \in Pointer /\ Frontier(buf[p]) \in Location
    BY AdvanceProperties
  <2> QED
    BY <1>5, <2>1 DEF NewGrow
<1>6. ASSUME NEW p \in Procs, NewReuse(p) PROVE CtlInv'
  BY <1>6 DEF NewReuse, LockTrash
<1>7. ASSUME NEW p \in Procs, NewPop(p) PROVE CtlInv'
  <2>1. ReadEntry(trash, buf[p].trash_size) \subseteq Location
    BY ReadEntryProperties DEF Pointer
  <2> QED
    BY <1>7, <2>1 DEF NewPop
<1>8. ASSUME NEW p \in Procs, NewShrink(p) PROVE CtlInv'
  <2>1. buf[p] \in Pointer /\ buf[p].trash_size - 1 \in Nat
    BY <1>8 DEF NewShrink, Pointer
  <2>2. ptr' = [buf[p] EXCEPT !.trash_size = buf[p].trash_size - 1]
    BY <1>8 DEF NewShrink
  <2>3. ptr' \in Pointer
    BY <2>1, <2>2, SetTrashSize
  <2> QED
    BY <1>8, <2>3 DEF NewShrink
<1>9. ASSUME NEW p \in Procs, NewClose(p) PROVE CtlInv'
  BY <1>9, SMTT(30) DEF NewClose, Return, Pointer, EmptyPointer, Location
<1>10. ASSUME NEW p \in Procs, DelRead(p) PROVE CtlInv'
  BY <1>10 DEF DelRead
<1>11. ASSUME NEW p \in Procs, DelCount(p) PROVE CtlInv'
  <2>1. buf[p] \in Pointer /\ buf[p].trash_size + 1 \in Nat
    BY DEF Pointer
  <2>2. ptr' = [buf[p] EXCEPT !.trash_size = buf[p].trash_size + 1]
    BY <1>11 DEF DelCount
  <2>3. ptr' \in Pointer /\ ptr'.trash_size = buf[p].trash_size + 1
    BY <2>1, <2>2, SetTrashSize
  <2> QED
    BY <1>11, <2>3 DEF DelCount
<1>12. ASSUME NEW p \in Procs, DelLockTrash(p) PROVE CtlInv'
  BY <1>12 DEF DelLockTrash, LockTrash
<1>13. ASSUME NEW p \in Procs, DelPush(p) PROVE CtlInv'
  <2>1. WriteEntry(trash, buf[p].trash_size + 1, loc[p]) \in Seq(Location)
    <3>1. trash \in Seq(Location) /\ loc[p] \in Location
      OBVIOUS
    <3>2. buf[p].trash_size + 1 \in Nat \ {0}
      BY DEF Pointer
    <3> HIDE DEF CtlInv
    <3> QED
      BY <3>1, <3>2, WriteEntryProperties, Zenon
  <2> QED
    BY <1>13, <2>1 DEF DelPush
<1>14. ASSUME NEW p \in Procs, DelClose(p) PROVE CtlInv'
  BY <1>14, SMTT(30) DEF DelClose, Return, Pointer, EmptyPointer, Location
<1>15. ASSUME NEW p \in Procs, UsedRead(p) PROVE CtlInv'
  BY <1>15 DEF UsedRead
<1>16. ASSUME NEW p \in Procs, UsedClose(p) PROVE CtlInv'
  BY <1>16 DEF UsedClose, Return, Pointer, EmptyPointer, Location
<1>17. ASSUME NEW p \in Procs, Crash(p) PROVE CtlInv'
  <2>1. EmptyPointer \in Pointer /\ <<0, 0>> \in Location
    BY SMTT(30) DEF Pointer, EmptyPointer, Location
  <2>2. TypeOK'
    BY <1>17, <2>1 DEF Crash, Return
  <2> QED
    BY <1>17, <2>2 DEF Crash, Return
<1>18. CASE UNCHANGED vars
  BY <1>18 DEF vars
<1> QED
  BY <1>1, <1>2, <1>3, <1>4, <1>5, <1>6, <1>7, <1>8, <1>9, <1>10, <1>11, <1>12,
     <1>13, <1>14, <1>15, <1>16, <1>17, <1>18 DEF CrashNext, Next, Call, Step

\* The locks of the two files are exclusive, and each call works on the
\* pointer it read, however the processes interleave and wherever they die.
THEOREM CtlCorrect == CrashSpec => []CtlInv
  BY CtlInit, CtlStep, PTL DEF CrashSpec

\* Every variable of the allocator keeps its type, crashes included.
THEOREM TypeCorrect == CrashSpec => []TypeOK
<1>1. CtlInv => TypeOK
  BY DEF CtlInv
<1> QED
  BY <1>1, CtlCorrect, PTL
-----------------------------------------------------------------------------
(***************************************************************************)
(* Data.                                                                   *)
(***************************************************************************)
\* While nobody holds node_pointer.dat, nobody is in a call.
NobodyInCall ==
  ptrLock = NoProc => /\ \A q \in Procs : pc[q] = "idle"
                      /\ FreeCount = ptr.trash_size

LEMMA AllIdle == CtlInv => NobodyInCall
  BY ConstAssumption DEF NobodyInCall, CtlInv, TypeOK, FreeCount, Unpushed, InCall, NewPcs,
     DelPcs, UsedPcs

\* Whoever is in a call is alone in one.
OthersIdle ==
  \A p \in Procs : pc[p] \in InCall =>
    /\ \A q \in Procs : q # p => pc[q] = "idle"
    /\ pc[p] \in Unpushed => FreeCount = ptr.trash_size - 1
    /\ pc[p] \notin Unpushed => FreeCount = ptr.trash_size

LEMMA Alone == CtlInv => OthersIdle
<1> SUFFICES ASSUME CtlInv, NEW p \in Procs, pc[p] \in InCall
             PROVE  /\ \A q \in Procs : q # p => pc[q] = "idle"
                    /\ pc[p] \in Unpushed => FreeCount = ptr.trash_size - 1
                    /\ pc[p] \notin Unpushed => FreeCount = ptr.trash_size
  BY DEF OthersIdle
<1>1. \A q \in Procs : q # p => pc[q] = "idle"
  BY DEF CtlInv, TypeOK
<1>2. \A q \in Procs : pc[q] \in Unpushed => q = p
  BY <1>1 DEF Unpushed
<1> QED
  BY <1>1, <1>2 DEF FreeCount

LEMMA SoundInit == Init => Sound
<1> SUFFICES ASSUME Init PROVE Sound
  OBVIOUS
<1>1. FreeCount = 0
  BY DEF Init, FreeCount, Unpushed, EmptyPointer
<1> QED
  BY <1>1 DEF Init, Sound, Pending

\* A step that touches neither the files nor the blocks in use and does not
\* change what is pending keeps the data sound.
LEMMA SoundStutter ==
  ASSUME Sound, UNCHANGED <<ptr, trash, live, loc>>, FreeCount' = FreeCount,
         \A q \in Procs : pc'[q] \in Pending => pc[q] \in Pending,
         \A q \in Procs : pc'[q] = "new_shrink" => pc[q] = "new_shrink"
  PROVE  Sound'
  BY DEF Sound

LEMMA SoundStep == CtlInv /\ CtlInv' /\ Sound /\ ~torn' /\ [CrashNext]_vars => Sound'
<1> SUFFICES ASSUME CtlInv, CtlInv', Sound, ~torn', [CrashNext]_vars PROVE Sound'
  OBVIOUS
<1> USE DEF Goto, files, InCall, NewPcs, DelPcs, UsedPcs, Unpushed, Pending
<1>a. /\ ptr \in Pointer /\ ptr.trash_size \in Nat /\ trash \in Seq(Location)
      /\ live \subseteq Location /\ Len(trash) \in Nat
      /\ pc \in [Procs -> InCall \cup {"idle"}] /\ loc \in [Procs -> Location]
  <2>1. /\ ptr \in Pointer /\ trash \in Seq(Location) /\ live \subseteq Location
        /\ pc \in [Procs -> InCall \cup {"idle"}] /\ loc \in [Procs -> Location]
    BY DEF CtlInv, TypeOK
  <2>2. ptr.trash_size \in Nat
    BY <2>1 DEF Pointer
  <2> QED
    BY <2>1, <2>2, LenProperties
<1>b. ptrLock' = NoProc => /\ \A q \in Procs : pc'[q] = "idle"
                           /\ FreeCount' = ptr'.trash_size
  <2>1. NobodyInCall'
    BY AllIdle, PTL
  <2> QED
    BY <2>1 DEF NobodyInCall
<1>c. \A p \in Procs : pc'[p] \in InCall =>
        /\ \A q \in Procs : q # p => pc'[q] = "idle"
        /\ pc'[p] \in Unpushed => FreeCount' = ptr'.trash_size - 1
        /\ pc'[p] \notin Unpushed => FreeCount' = ptr'.trash_size
  <2>1. OthersIdle'
    BY Alone, PTL
  <2> QED
    BY <2>1 DEF OthersIdle
<1>d. \A p \in Procs : pc[p] = "idle" /\ LockPointer(p) => ptrLock = NoProc
  BY DEF CtlInv, LockPointer
<1> USE DEF OthersIdle, NobodyInCall
<1>1. ASSUME NEW p \in Procs, NewLock(p) PROVE Sound'
  <2>1. FreeCount' = FreeCount
    BY <1>1, <1>a, <1>c, <1>d, AllIdle DEF NewLock, LockPointer
  <2> QED
    BY <1>1, <1>a, <1>c, <2>1, SoundStutter DEF NewLock
<1>2. ASSUME NEW p \in Procs, NEW b \in live, DelLock(p, b) PROVE Sound'
  <2>1. FreeCount' = FreeCount
    BY <1>2, <1>a, <1>c, <1>d, AllIdle DEF DelLock, LockPointer
  <2> QED
    BY <1>2, <1>a, <1>c, <2>1 DEF DelLock, Sound
<1>3. ASSUME NEW p \in Procs, UsedLock(p) PROVE Sound'
  <2>1. FreeCount' = FreeCount
    BY <1>3, <1>a, <1>c, <1>d, AllIdle DEF UsedLock, LockPointer
  <2> QED
    BY <1>3, <1>a, <1>c, <2>1, SoundStutter DEF UsedLock
<1>4. ASSUME NEW p \in Procs, NewRead(p) PROVE Sound'
  <2>1. FreeCount' = FreeCount
    BY <1>4, <1>a, <1>c, Alone DEF NewRead
  <2> QED
    BY <1>4, <1>a, <1>c, <2>1, SoundStutter DEF NewRead
<1>5. ASSUME NEW p \in Procs, NewGrow(p) PROVE Sound'
  <2>1. buf[p] = ptr /\ ptr.trash_size = 0
    BY <1>5 DEF NewGrow, CtlInv, Fresh
  <2>2. /\ ptr' = Advance(ptr) /\ loc'[p] = Frontier(ptr)
        /\ trash' = trash /\ live' = live
    BY <1>5, <1>a, <2>1 DEF NewGrow
  <2>3. pc'[p] = "new_close" /\ \A q \in Procs : q # p => pc'[q] = "idle"
    BY <1>5, <1>a, <1>c DEF NewGrow
  <2>4. FreeCount' = 0
    BY <1>c, <2>1, <2>2, <2>3, AdvanceProperties, <1>a
  <2>5. \A l \in live : Before(l, Frontier(ptr')) /\ l # Frontier(ptr)
    BY <1>a, <2>2, AdvanceProperties DEF Sound
  <2>6. Before(Frontier(ptr), Frontier(ptr'))
    BY <1>a, <2>2, AdvanceProperties
  <2> QED
    BY <1>a, <2>2, <2>3, <2>4, <2>5, <2>6, SMTT(30) DEF Sound
<1>6. ASSUME NEW p \in Procs, NewReuse(p) PROVE Sound'
  <2>1. FreeCount' = FreeCount
    BY <1>6, <1>a, <1>c, Alone DEF NewReuse, LockTrash
  <2> QED
    BY <1>6, <1>a, <1>c, <2>1, SoundStutter DEF NewReuse, LockTrash
<1>7. ASSUME NEW p \in Procs, NewPop(p) PROVE Sound'
  <2>1. buf[p] = ptr /\ ptr.trash_size > 0
    BY <1>7 DEF NewPop, CtlInv, Fresh
  <2>2. FreeCount = ptr.trash_size /\ FreeCount' = FreeCount
    BY <1>7, <1>a, <1>c, Alone DEF NewPop
  <2>3. ReadEntry(trash, ptr.trash_size) = {trash[ptr.trash_size]}
    BY <1>a, <2>1, <2>2, ReadEntryProperties DEF Sound
  <2>4. loc'[p] = trash[ptr.trash_size]
    BY <1>7, <1>a, <2>1, <2>3 DEF NewPop
  <2>5. pc'[p] = "new_shrink" /\ \A q \in Procs : q # p => pc'[q] = "idle"
    BY <1>7, <1>a, <1>c DEF NewPop
  <2> QED
    BY <1>7, <1>a, <2>2, <2>4, <2>5 DEF NewPop, Sound
<1>8. ASSUME NEW p \in Procs, NewShrink(p) PROVE Sound'
  <2>1. buf[p] = ptr /\ ptr.trash_size > 0 /\ ptr.trash_size - 1 \in Nat
    BY <1>8, <1>a DEF NewShrink, CtlInv, Fresh
  <2>2. ptr' = [ptr EXCEPT !.trash_size = ptr.trash_size - 1]
    BY <1>8, <2>1 DEF NewShrink
  <2>3. ptr'.trash_size = ptr.trash_size - 1 /\ Frontier(ptr') = Frontier(ptr)
    BY <1>a, <2>1, <2>2, SetTrashSize
  <2>4. FreeCount = ptr.trash_size
    BY <1>8, Alone DEF NewShrink
  <2>5. pc'[p] = "new_close" /\ \A q \in Procs : q # p => pc'[q] = "idle"
    BY <1>8, <1>a, <1>c DEF NewShrink
  <2>6. FreeCount' = ptr.trash_size - 1
    BY <1>c, <2>3, <2>5
  <2>7. trash' = trash /\ live' = live /\ loc' = loc
    BY <1>8 DEF NewShrink
  <2>8. loc[p] = trash[ptr.trash_size]
    BY <1>8 DEF NewShrink, Sound
  <2> QED
    BY <1>a, <2>1, <2>3, <2>4, <2>5, <2>6, <2>7, <2>8 DEF Sound
<1>9. ASSUME NEW p \in Procs, NewClose(p) PROVE Sound'
  <2>1. FreeCount' = FreeCount /\ \A q \in Procs : pc'[q] = "idle"
    BY <1>9, <1>a, <1>b, Alone DEF NewClose, Return
  <2>2. ptr' = ptr /\ trash' = trash /\ live' = live \cup {loc[p]}
        /\ pc[p] = "new_close"
    BY <1>9 DEF NewClose, Return
  <2> QED
    BY <2>1, <2>2 DEF Sound
<1>10. ASSUME NEW p \in Procs, DelRead(p) PROVE Sound'
  <2>1. FreeCount' = FreeCount
    BY <1>10, <1>a, <1>c, Alone DEF DelRead
  <2> QED
    BY <1>10, <1>a, <1>c, <2>1, SoundStutter DEF DelRead
<1>11. ASSUME NEW p \in Procs, DelCount(p) PROVE Sound'
  <2>1. buf[p] = ptr /\ ptr.trash_size + 1 \in Nat
    BY <1>11, <1>a DEF DelCount, CtlInv, Fresh
  <2>2. ptr' = [ptr EXCEPT !.trash_size = ptr.trash_size + 1]
    BY <1>11, <2>1 DEF DelCount
  <2>3. ptr'.trash_size = ptr.trash_size + 1 /\ Frontier(ptr') = Frontier(ptr)
    BY <1>a, <2>1, <2>2, SetTrashSize
  <2>4. FreeCount = ptr.trash_size
    BY <1>11, Alone DEF DelCount
  <2>5. pc'[p] = "del_lock" /\ \A q \in Procs : q # p => pc'[q] = "idle"
    BY <1>11, <1>a, <1>c DEF DelCount
  <2>6. FreeCount' = FreeCount
    BY <1>a, <1>c, <2>3, <2>4, <2>5
  <2> QED
    BY <1>11, <1>a, <2>3, <2>5, <2>6 DEF DelCount, Sound
<1>12. ASSUME NEW p \in Procs, DelLockTrash(p) PROVE Sound'
  <2>1. FreeCount' = FreeCount
    BY <1>12, <1>a, <1>c, Alone DEF DelLockTrash, LockTrash
  <2> QED
    BY <1>12, <1>a, <1>c, <2>1, SoundStutter DEF DelLockTrash, LockTrash
<1>13. ASSUME NEW p \in Procs, DelPush(p) PROVE Sound'
  <2>1. /\ ptr.trash_size = buf[p].trash_size + 1 /\ buf[p].trash_size \in Nat
        /\ buf[p].trash_size + 1 \in Nat \ {0}
    BY <1>13 DEF DelPush, CtlInv, TypeOK, Pointer
  <2>2. FreeCount = ptr.trash_size - 1
    BY <1>13, Alone DEF DelPush
  <2>3. trash' = WriteEntry(trash, ptr.trash_size, loc[p])
    BY <1>13, <2>1 DEF DelPush
  <2>4. /\ Len(trash') \in Nat /\ Len(trash') >= ptr.trash_size
        /\ trash'[ptr.trash_size] = loc[p]
        /\ \A i \in 1 .. FreeCount : trash'[i] = trash[i]
    <3>1. loc[p] \in Location /\ ptr.trash_size \in Nat \ {0}
      BY <1>a, <2>1
    <3>2. /\ trash' \in Seq(Location)
          /\ Len(trash') >= ptr.trash_size
          /\ trash'[ptr.trash_size] = loc[p]
          /\ \A i \in 1 .. Len(trash) : i # ptr.trash_size => trash'[i] = trash[i]
      <4>1. trash \in Seq(Location)
        BY <1>a
      <4>2. LET w == WriteEntry(trash, ptr.trash_size, loc[p])
            IN /\ w \in Seq(Location)
               /\ Len(w) >= ptr.trash_size
               /\ w[ptr.trash_size] = loc[p]
               /\ \A i \in 1 .. Len(trash) : i # ptr.trash_size => w[i] = trash[i]
        BY <3>1, <4>1, WriteEntryProperties, ZenonT(60)
      <4> QED
        BY <2>3, <4>2, Zenon
    <3>3. FreeCount \in 0 .. Len(trash)
      BY DEF Sound
    <3>4. \A i \in 1 .. FreeCount : i \in 1 .. Len(trash) /\ i # ptr.trash_size
      BY <1>a, <2>2, <3>3
    <3>5. Len(trash') \in Nat
      BY <3>2
    <3> QED
      BY <3>2, <3>4, <3>5
  <2>5. pc'[p] = "del_close" /\ \A q \in Procs : q # p => pc'[q] = "idle"
    BY <1>13, <1>a, <1>c DEF DelPush
  <2>6. ptr' = ptr /\ live' = live /\ loc' = loc /\ FreeCount' = ptr.trash_size
    BY <1>13, <1>c, <2>5 DEF DelPush
  <2>7. /\ loc[p] \notin live /\ Before(loc[p], Frontier(ptr))
        /\ \A i \in 1 .. FreeCount : trash[i] # loc[p]
    BY <1>13 DEF DelPush, Sound
  <2>8. \A i \in 1 .. FreeCount' : i \in 1 .. FreeCount \/ i = ptr.trash_size
    BY <1>a, <2>2, <2>6
  <2>9. \A i, j \in 1 .. FreeCount' : i # j => trash'[i] # trash'[j]
    BY <2>4, <2>7, <2>8 DEF Sound
  <2>10. \A i \in 1 .. FreeCount' :
           trash'[i] \notin live' /\ Before(trash'[i], Frontier(ptr'))
    BY <2>4, <2>6, <2>7, <2>8 DEF Sound
  <2> QED
    BY <1>a, <2>4, <2>5, <2>6, <2>9, <2>10 DEF Sound
<1>14. ASSUME NEW p \in Procs, DelClose(p) PROVE Sound'
  <2>1. FreeCount' = FreeCount /\ \A q \in Procs : pc'[q] = "idle"
    BY <1>14, <1>a, <1>b, Alone DEF DelClose, Return
  <2> QED
    BY <1>14, <2>1 DEF DelClose, Sound
<1>15. ASSUME NEW p \in Procs, UsedRead(p) PROVE Sound'
  <2>1. FreeCount' = FreeCount
    BY <1>15, <1>a, <1>c, Alone DEF UsedRead
  <2> QED
    BY <1>15, <1>a, <1>c, <2>1, SoundStutter DEF UsedRead
<1>16. ASSUME NEW p \in Procs, UsedClose(p) PROVE Sound'
  <2>1. FreeCount' = FreeCount /\ \A q \in Procs : pc'[q] = "idle"
    BY <1>16, <1>a, <1>b, Alone DEF UsedClose, Return
  <2> QED
    BY <1>16, <2>1 DEF UsedClose, Sound
<1>17. ASSUME NEW p \in Procs, Crash(p) PROVE Sound'
  <2>1. pc[p] \in InCall /\ pc[p] \notin Unpushed
    BY <1>17 DEF Crash
  <2>2. FreeCount' = FreeCount /\ \A q \in Procs : pc'[q] = "idle"
    BY <1>17, <1>a, <1>b, <2>1, Alone DEF Crash, Return
  <2> QED
    BY <1>17, <2>2 DEF Crash, Sound
<1>18. CASE UNCHANGED vars
  <2>1. FreeCount' = FreeCount
    BY <1>18 DEF vars, FreeCount
  <2> QED
    BY <1>18, <2>1, SoundStutter DEF vars
<1> QED
  BY <1>1, <1>2, <1>3, <1>4, <1>5, <1>6, <1>7, <1>8, <1>9, <1>10, <1>11, <1>12,
     <1>13, <1>14, <1>15, <1>16, <1>17, <1>18 DEF CrashNext, Next, Call, Step

LEMMA TornStays == [CrashNext]_vars /\ ~torn' => ~torn
  BY DEF CrashNext, Next, Call, Step, NewLock, NewRead, NewGrow, NewReuse, NewPop,
     NewShrink, NewClose, DelLock, DelRead, DelCount, DelLockTrash, DelPush,
     DelClose, UsedLock, UsedRead, UsedClose, Crash, vars

\* The inductive invariant holds in every reachable state, crashes included.
THEOREM Inductive == CrashSpec => []IInv
<1>1. Init => IInv
  BY CtlInit, SoundInit DEF IInv
<1>2. IInv /\ [CrashNext]_vars => IInv'
  BY CtlStep, SoundStep, TornStays DEF IInv
<1> QED
  BY <1>1, <1>2, PTL DEF CrashSpec

\* What the invariant means for grants and for the free stack.
LEMMA GrantFollows == IInv => GrantIsExclusive
<1> SUFFICES ASSUME IInv, ~torn,
                    NEW p \in Procs, pc[p] = "new_close"
             PROVE  loc[p] \notin live \cup Free \cup Returned
  BY DEF GrantIsExclusive, Granted
<1>1. \A q \in Procs : q # p => pc[q] = "idle"
  BY Alone DEF IInv, OthersIdle, InCall, NewPcs
<1>2. Returned = {}
  BY <1>1 DEF Returned, Unpushed
<1> QED
  BY <1>2 DEF IInv, Sound, Pending, Free

LEMMA FreeStackFollows == IInv => FreeStackSound
<1> SUFFICES ASSUME IInv, ~torn PROVE FreeStackSound
  BY DEF FreeStackSound
<1>1. \A l \in Granted \cup Returned : /\ l \notin Free
                                       /\ Before(l, Frontier(ptr))
  BY DEF IInv, Sound, Granted, Returned, Free, Pending, Unpushed
<1>2. \A l \in Free \cup live : Before(l, Frontier(ptr))
  BY DEF IInv, Sound, Free
<1>3. Free \cap live = {}
  BY DEF IInv, Sound, Free
<1>4. Free \cap (live \cup Returned) = {}
  BY <1>1, <1>3
<1>5. FreeCount \in 0 .. Len(trash)
      /\ \A i, j \in 1 .. FreeCount : i # j => trash[i] # trash[j]
  BY DEF IInv, Sound
<1> QED
  BY <1>1, <1>2, <1>4, <1>5 DEF FreeStackSound

\* No two owners of one block: a location that is being handed out is not in
\* use, not free, and not on its way back.
THEOREM GrantCorrect == CrashSpec => []GrantIsExclusive
  BY GrantFollows, Inductive, PTL

\* The stack of free blocks is sound whenever no delete_node died half way.
THEOREM FreeStackCorrect == CrashSpec => []FreeStackSound
  BY FreeStackFollows, Inductive, PTL

-----------------------------------------------------------------------------
(***************************************************************************)
(* Counting.                                                               *)
(***************************************************************************)
\* The number of locations behind the frontier.
HandedOut(f) == MaxNodeBlockNumber * f.filenum + f.linenum

\* A call may hold one location that is neither free nor in use.
Held == IF \E p \in Procs : pc[p] \in Pending THEN 1 ELSE 0

\* Locations no call will ever find again.
Lost == HandedOut(ptr) - (Cardinality(live) + FreeCount + Held)

Finite == IsFiniteSet(live) /\ Cardinality(live) \in Nat

LEMMA HandedOutProperties ==
  ASSUME NEW f \in Pointer
  PROVE  /\ HandedOut(f) \in Nat
         /\ HandedOut(Advance(f)) = HandedOut(f) + 1
         /\ UsedMemory(f) = HandedOut(f) - f.trash_size
         /\ \A g \in Pointer :
              Frontier(g) = Frontier(f) => HandedOut(g) = HandedOut(f)
<1> DEFINE M == MaxNodeBlockNumber
<1>1. /\ M \in Nat \ {0} /\ f.filenum \in Nat /\ f.linenum \in Nat
      /\ f.linenum < M /\ f.trash_size \in Nat
  BY ConstAssumption DEF Pointer
<1>2. M * f.filenum \in Nat /\ M * (f.filenum + 1) = M * f.filenum + M
  BY <1>1
<1>3. HandedOut(Advance(f)) = HandedOut(f) + 1
  <2>1. CASE f.linenum + 1 >= M
    <3>1. Advance(f).filenum = f.filenum + 1 /\ Advance(f).linenum = 0
      BY <2>1 DEF Advance
    <3>2. f.linenum + 1 = M
      BY <1>1, <2>1
    <3> HIDE DEF M
    <3> QED
      BY <1>1, <1>2, <3>1, <3>2 DEF HandedOut, M
  <2>2. CASE ~(f.linenum + 1 >= M)
    <3>1. Advance(f).filenum = f.filenum /\ Advance(f).linenum = f.linenum + 1
      BY <2>2 DEF Advance, Pointer
    <3> QED
      BY <1>1, <1>2, <3>1 DEF HandedOut
  <2> QED
    BY <2>1, <2>2
<1>4. HandedOut(f) \in Nat /\ UsedMemory(f) = HandedOut(f) - f.trash_size
  BY <1>1, <1>2 DEF HandedOut, UsedMemory
<1>5. \A g \in Pointer : Frontier(g) = Frontier(f) => HandedOut(g) = HandedOut(f)
  BY DEF Frontier, HandedOut
<1> QED
  BY <1>3, <1>4, <1>5

\* The call in progress, if there is one, decides what is held.
HeldByCall ==
  /\ ptrLock = NoProc => Held = 0
  /\ \A p \in Procs : pc[p] \in InCall =>
       Held = IF pc[p] \in Pending THEN 1 ELSE 0

LEMMA HeldIsKnown == CtlInv => HeldByCall
<1> SUFFICES ASSUME CtlInv PROVE HeldByCall
  OBVIOUS
<1> USE DEF InCall, NewPcs, DelPcs, UsedPcs, Pending
<1>1. ptrLock = NoProc => Held = 0
  BY AllIdle DEF NobodyInCall, Held
<1>2. ASSUME NEW p \in Procs, pc[p] \in InCall
      PROVE  Held = IF pc[p] \in Pending THEN 1 ELSE 0
  <2>1. \A q \in Procs : q # p => pc[q] = "idle"
    BY <1>2, Alone DEF OthersIdle
  <2> QED
    BY <2>1 DEF Held
<1> QED
  BY <1>1, <1>2 DEF HeldByCall

\* What a step may assume of the counts before and after it.
LEMMA CountFacts ==
  ASSUME CtlInv, CtlInv', NEW p \in Procs
  PROVE  /\ ptr \in Pointer /\ HandedOut(ptr) \in Nat /\ ptr.trash_size \in Nat
         /\ pc[p] = "idle" /\ LockPointer(p) =>
              FreeCount = ptr.trash_size /\ Held = 0
         /\ pc[p] \in InCall =>
              /\ FreeCount = IF pc[p] \in Unpushed THEN ptr.trash_size - 1
                             ELSE ptr.trash_size
              /\ Held = IF pc[p] \in Pending THEN 1 ELSE 0
         /\ ptrLock' = NoProc => FreeCount' = ptr'.trash_size /\ Held' = 0
         /\ pc'[p] \in InCall =>
              /\ FreeCount' = IF pc'[p] \in Unpushed THEN ptr'.trash_size - 1
                              ELSE ptr'.trash_size
              /\ Held' = IF pc'[p] \in Pending THEN 1 ELSE 0
<1>1. ptr \in Pointer /\ HandedOut(ptr) \in Nat /\ ptr.trash_size \in Nat
  <2>1. ptr \in Pointer
    BY DEF CtlInv, TypeOK
  <2> QED
    BY <2>1, HandedOutProperties DEF Pointer
<1>2. NobodyInCall /\ OthersIdle /\ HeldByCall
  BY AllIdle, Alone, HeldIsKnown
<1>3. NobodyInCall' /\ OthersIdle' /\ HeldByCall'
  BY AllIdle, Alone, HeldIsKnown, PTL
<1>4. pc[p] = "idle" /\ LockPointer(p) => ptrLock = NoProc
  BY DEF CtlInv, LockPointer, InCall, NewPcs, DelPcs, UsedPcs
<1> QED
  BY <1>1, <1>2, <1>3, <1>4 DEF NobodyInCall, OthersIdle, HeldByCall

\* No step of a call loses a location.
LEMMA CountStep ==
  ASSUME CtlInv, CtlInv', Sound, Finite, Next
  PROVE  Lost' = Lost /\ Finite'
<1> USE DEF Goto, files, InCall, NewPcs, DelPcs, UsedPcs, Unpushed, Pending
<1>1. /\ Cardinality(live) \in Nat /\ IsFiniteSet(live)
      /\ pc \in [Procs -> InCall \cup {"idle"}] /\ buf \in [Procs -> Pointer]
      /\ HandedOut(ptr) \in Nat /\ FreeCount \in Int /\ Held \in {0, 1}
  <2>1. FreeCount \in Int
    BY DEF Sound
  <2>2. Held \in {0, 1}
    BY DEF Held
  <2>3. HandedOut(ptr) \in Nat
    BY HandedOutProperties DEF CtlInv, TypeOK
  <2> QED
    BY <2>1, <2>2, <2>3 DEF Finite, CtlInv, TypeOK
<1>2. ASSUME UNCHANGED <<ptr, live>>, FreeCount' = FreeCount, Held' = Held
      PROVE  Lost' = Lost /\ Finite'
  BY <1>2 DEF Lost, Finite, HandedOut
<1> PICK p \in Procs : Call(p) \/ Step(p)
  BY DEF Next
<1> DEFINE Here == pc[p]  There == pc'[p]
<1>3. CASE NewLock(p) \/ UsedLock(p)
  <2>1. /\ Here = "idle" /\ LockPointer(p) /\ There \in {"new_read", "used_read"}
        /\ UNCHANGED <<ptr, live>>
    BY <1>1, <1>3 DEF NewLock, UsedLock
  <2> QED
    BY <1>2, <2>1, CountFacts
<1>4. ASSUME NEW b \in live, DelLock(p, b)
      PROVE  Lost' = Lost /\ Finite'
  <2>1. /\ Here = "idle" /\ LockPointer(p) /\ There = "del_read" /\ ptr' = ptr
        /\ live' = live \ {b}
    BY <1>1, <1>4 DEF DelLock
  <2>2. FreeCount' = FreeCount /\ Held = 0 /\ Held' = 1
    BY <2>1, CountFacts
  <2>3. IsFiniteSet(live') /\ Cardinality(live') = Cardinality(live) - 1
    BY <1>1, <1>4, <2>1, FS_RemoveElement
  <2>4. Cardinality(live') \in Nat
    BY <2>3, FS_CardinalityType
  <2>5. HandedOut(ptr)' = HandedOut(ptr)
    BY <2>1 DEF HandedOut
  <2> QED
    BY <1>1, <2>2, <2>3, <2>4, <2>5 DEF Lost, Finite
<1>5. CASE NewGrow(p)
  <2>1. buf[p] = ptr
    BY <1>5 DEF NewGrow, CtlInv, Fresh
  <2>2. /\ Here = "new_grow" /\ There = "new_close" /\ ptr' = Advance(ptr)
        /\ live' = live
    BY <1>1, <1>5, <2>1 DEF NewGrow
  <2>3. ptr \in Pointer
    BY CountFacts
  <2>4. /\ HandedOut(Advance(ptr)) = HandedOut(ptr) + 1
        /\ Advance(ptr).trash_size = ptr.trash_size
    BY <2>3, HandedOutProperties, AdvanceProperties
  <2>5. FreeCount' = FreeCount /\ Held = 0 /\ Held' = 1
    BY <2>2, <2>4, CountFacts
  <2>6. HandedOut(ptr)' = HandedOut(ptr) + 1
    BY <2>2, <2>4 DEF HandedOut
  <2> QED
    BY <1>1, <2>2, <2>5, <2>6 DEF Lost, Finite
<1>6. CASE NewShrink(p)
  <2>1. buf[p] = ptr /\ ptr.trash_size > 0
    BY <1>6 DEF NewShrink, CtlInv, Fresh
  <2>2. /\ Here = "new_shrink" /\ There = "new_close"
        /\ ptr' = [ptr EXCEPT !.trash_size = ptr.trash_size - 1] /\ live' = live
    BY <1>1, <1>6, <2>1 DEF NewShrink
  <2>3. ptr \in Pointer /\ ptr.trash_size - 1 \in Nat
    BY <2>1, CountFacts
  <2>4. /\ ptr'.trash_size = ptr.trash_size - 1 /\ ptr'.filenum = ptr.filenum
        /\ ptr'.linenum = ptr.linenum
    BY <2>2, <2>3 DEF Pointer
  <2>5. FreeCount' = FreeCount - 1 /\ Held = 0 /\ Held' = 1
    BY <2>2, <2>4, CountFacts
  <2>6. HandedOut(ptr)' = HandedOut(ptr)
    BY <2>4 DEF HandedOut
  <2> QED
    BY <1>1, <2>2, <2>5, <2>6 DEF Lost, Finite
<1>7. CASE NewClose(p)
  <2>1. /\ Here = "new_close" /\ ptrLock' = NoProc /\ ptr' = ptr
        /\ live' = live \cup {loc[p]}
    BY <1>7 DEF NewClose, Return
  <2>2. FreeCount' = FreeCount /\ Held = 1 /\ Held' = 0
    BY <2>1, CountFacts
  <2>3. loc[p] \notin live
    BY <2>1 DEF Sound
  <2>4. IsFiniteSet(live') /\ Cardinality(live') = Cardinality(live) + 1
    BY <1>1, <2>1, <2>3, FS_AddElement
  <2>5. HandedOut(ptr)' = HandedOut(ptr)
    BY <2>1 DEF HandedOut
  <2> QED
    BY <1>1, <2>2, <2>4, <2>5 DEF Lost, Finite
<1>8. CASE DelCount(p)
  <2>1. buf[p] = ptr
    BY <1>8 DEF DelCount, CtlInv, Fresh
  <2>2. /\ Here = "del_count" /\ There = "del_lock"
        /\ ptr' = [ptr EXCEPT !.trash_size = ptr.trash_size + 1] /\ live' = live
    BY <1>1, <1>8, <2>1 DEF DelCount
  <2>3. ptr \in Pointer /\ ptr.trash_size \in Nat
    BY CountFacts
  <2>4. /\ ptr'.trash_size = ptr.trash_size + 1 /\ ptr'.filenum = ptr.filenum
        /\ ptr'.linenum = ptr.linenum
    BY <2>2, <2>3 DEF Pointer
  <2>5. FreeCount' = FreeCount /\ Held = 1 /\ Held' = 1
    BY <2>2, <2>3, <2>4, CountFacts
  <2>6. HandedOut(ptr)' = HandedOut(ptr)
    BY <2>4 DEF HandedOut
  <2> QED
    BY <1>1, <2>2, <2>5, <2>6 DEF Lost, Finite
<1>9. CASE DelPush(p)
  <2>1. Here = "del_push" /\ There = "del_close" /\ UNCHANGED <<ptr, live>>
    BY <1>1, <1>9 DEF DelPush
  <2>2. FreeCount' = FreeCount + 1 /\ Held = 1 /\ Held' = 0
    BY <2>1, CountFacts
  <2>3. HandedOut(ptr)' = HandedOut(ptr)
    BY <2>1 DEF HandedOut
  <2> QED
    BY <1>1, <2>1, <2>2, <2>3 DEF Lost, Finite
<1>10. CASE DelClose(p) \/ UsedClose(p)
  <2>1. /\ Here \in {"del_close", "used_close"} /\ ptrLock' = NoProc
        /\ UNCHANGED <<ptr, live>>
    BY <1>10 DEF DelClose, UsedClose, Return
  <2>2. FreeCount' = FreeCount /\ Held = 0 /\ Held' = 0
    BY <2>1, CountFacts
  <2> QED
    BY <1>2, <2>1, <2>2
<1>11. CASE \/ NewRead(p) \/ NewReuse(p) \/ NewPop(p)
            \/ DelRead(p) \/ DelLockTrash(p) \/ UsedRead(p)
  <2>1. /\ Here \in InCall /\ There \in InCall /\ UNCHANGED <<ptr, live>>
        /\ (Here \in Pending <=> There \in Pending)
        /\ (Here \in Unpushed <=> There \in Unpushed)
    BY <1>1, <1>11 DEF NewRead, NewReuse, NewPop, DelRead, DelLockTrash, UsedRead
  <2>2. FreeCount' = FreeCount /\ Held' = Held
    BY <2>1, CountFacts
  <2> QED
    BY <1>2, <2>1, <2>2
<1> QED
  BY <1>3, <1>4, <1>5, <1>6, <1>7, <1>8, <1>9, <1>10, <1>11 DEF Call, Step

\* A process that dies loses at most the location it held.
LEMMA CountCrash ==
  ASSUME CtlInv, CtlInv', Sound, Finite, ~torn', NEW p \in Procs, Crash(p)
  PROVE  Lost' >= Lost /\ Finite'
<1> USE DEF Unpushed, Pending
<1>1. /\ pc[p] \in InCall /\ pc[p] \notin Unpushed /\ ptrLock' = NoProc
      /\ UNCHANGED <<ptr, live>>
  BY DEF Crash, Return, files
<1>2. FreeCount' = FreeCount /\ Held \in {0, 1} /\ Held' = 0
  BY <1>1, CountFacts
<1>3. HandedOut(ptr)' = HandedOut(ptr) /\ HandedOut(ptr) \in Nat /\ FreeCount \in Int
  BY <1>1, CountFacts DEF HandedOut, Sound
<1> QED
  BY <1>1, <1>2, <1>3 DEF Lost, Finite

\* What used_memory returns.
LEMMA UsedIs ==
  ASSUME CtlInv, Sound, Finite, NEW p \in Procs, pc[p] = "used_close"
  PROVE  Lost = UsedMemory(buf[p]) - Cardinality(live)
<1>1. buf[p] = ptr /\ ptr \in Pointer
  BY DEF CtlInv, Fresh, TypeOK
<1>2. Held = 0 /\ FreeCount = ptr.trash_size
  BY HeldIsKnown, Alone DEF HeldByCall, OthersIdle, InCall, UsedPcs, Pending, Unpushed
<1>3. /\ UsedMemory(ptr) = HandedOut(ptr) - ptr.trash_size
      /\ HandedOut(ptr) \in Nat /\ ptr.trash_size \in Nat
  BY <1>1, HandedOutProperties DEF Pointer
<1> QED
  BY <1>1, <1>2, <1>3 DEF Lost, Finite

LEMMA CountInts == CtlInv /\ Sound /\ Finite => Lost \in Int
<1> SUFFICES ASSUME CtlInv, Sound, Finite PROVE Lost \in Int
  OBVIOUS
<1>1. HandedOut(ptr) \in Nat
  BY HandedOutProperties DEF CtlInv, TypeOK
<1> QED
  BY <1>1 DEF Lost, Finite, Sound, Held

LEMMA CountInit == Init => Finite /\ Lost = 0
<1> SUFFICES ASSUME Init PROVE Finite /\ Lost = 0
  OBVIOUS
<1>1. FreeCount = 0 /\ Held = 0
  BY DEF Init, FreeCount, Held, Unpushed, Pending, EmptyPointer
<1>2. IsFiniteSet(live) /\ Cardinality(live) = 0
  BY FS_EmptySet DEF Init
<1>3. HandedOut(ptr) = 0
  BY ConstAssumption DEF Init, EmptyPointer, HandedOut
<1> QED
  BY <1>1, <1>2, <1>3 DEF Lost, Finite

LEMMA CountStutter ==
  ASSUME Finite, UNCHANGED vars
  PROVE  Lost' = Lost /\ Finite'
  BY DEF Finite, Lost, vars, HandedOut, FreeCount, Held

\* Nothing is counted as handed out that was not, as long as the files can be
\* trusted.
Balance == ~torn => Finite /\ Lost >= 0

LEMMA BalanceStep ==
  ASSUME IInv, IInv', Balance, [CrashNext]_vars
  PROVE  Balance'
<1> SUFFICES ASSUME ~torn' PROVE (Finite /\ Lost >= 0)'
  BY DEF Balance
<1>1. Finite /\ Lost >= 0 /\ CtlInv /\ CtlInv' /\ Sound
  BY TornStays DEF IInv, Balance
<1>2. Lost \in Int
  BY <1>1, CountInts
<1>3. CASE Next
  BY <1>1, <1>2, <1>3, CountStep
<1>4. ASSUME NEW p \in Procs, Crash(p) PROVE (Finite /\ Lost >= 0)'
  <2>1. Lost' >= Lost /\ Finite'
    BY <1>1, <1>4, CountCrash
  <2>2. (Lost \in Int)'
    BY <1>1, <2>1, CountInts, PTL DEF IInv
  <2> QED
    BY <1>1, <1>2, <2>1, <2>2
<1>5. CASE UNCHANGED vars
  BY <1>1, <1>2, <1>5, CountStutter
<1> QED
  BY <1>3, <1>4, <1>5 DEF CrashNext

LEMMA UsedMemoryFollows == IInv /\ Balance => UsedMemoryCoversLive
<1> SUFFICES ASSUME IInv, Balance, ~torn, NEW p \in Procs, pc[p] = "used_close"
             PROVE  UsedMemory(buf[p]) >= Cardinality(live)
  BY DEF UsedMemoryCoversLive
<1>1. Lost = UsedMemory(buf[p]) - Cardinality(live) /\ Lost >= 0 /\ Finite
  BY UsedIs DEF IInv, Balance
<1>2. UsedMemory(buf[p]) \in Int
  BY HandedOutProperties DEF IInv, CtlInv, TypeOK, Pointer
<1> QED
  BY <1>1, <1>2 DEF Finite

\* used_memory under crashes: it never reports fewer blocks than are in use,
\* because what a killed process loses still counts as handed out.
THEOREM UsedMemoryCovers == CrashSpec => []UsedMemoryCoversLive
<1>1. Init => Balance
  BY CountInit DEF Balance
<1>2. IInv /\ IInv' /\ Balance /\ [CrashNext]_vars => Balance'
  BY BalanceStep
<1> QED
  BY <1>1, <1>2, UsedMemoryFollows, Inductive, PTL DEF CrashSpec

\* used_memory without crashes is exact, whoever else is in the middle of a
\* call: no location is ever lost.
THEOREM UsedMemoryIsExact == Spec => []UsedMemoryExact
<1> DEFINE Exact == ~torn /\ Finite /\ Lost = 0
<1>1. Init => Exact
  BY CountInit DEF Init
<1>2. IInv /\ IInv' /\ Exact /\ [Next]_vars => Exact'
  <2> SUFFICES ASSUME IInv, IInv', Exact, [Next]_vars PROVE Exact'
    OBVIOUS
  <2>1. ~torn' /\ CtlInv /\ CtlInv' /\ Sound
    BY DEF IInv, Next, Call, Step, NewLock, NewRead, NewGrow, NewReuse, NewPop,
       NewShrink, NewClose, DelLock, DelRead, DelCount, DelLockTrash, DelPush,
       DelClose, UsedLock, UsedRead, UsedClose, vars
  <2> QED
    BY <2>1, CountStep, CountStutter
<1>3. IInv /\ Exact => UsedMemoryExact
  <2> SUFFICES ASSUME IInv, Exact, NEW p \in Procs, pc[p] = "used_close"
               PROVE  UsedMemory(buf[p]) = Cardinality(live)
    BY DEF UsedMemoryExact
  <2>1. Lost = UsedMemory(buf[p]) - Cardinality(live) /\ Lost = 0 /\ Finite
    BY UsedIs DEF IInv
  <2>2. UsedMemory(buf[p]) \in Int
    BY HandedOutProperties DEF IInv, CtlInv, TypeOK, Pointer
  <2> QED
    BY <2>1, <2>2 DEF Finite
<1>4. [Next]_vars => [CrashNext]_vars
  BY DEF CrashNext
<1>5. Spec => CrashSpec
  BY <1>4, PTL DEF Spec, CrashSpec
<1> QED
  BY <1>1, <1>2, <1>3, <1>5, Inductive, PTL DEF Spec

-----------------------------------------------------------------------------
(***************************************************************************)
(* Refinement: without kills the two files together with the calls in      *)
(* progress are a pool of blocks.  A grant takes effect with the write of  *)
(* node_pointer.dat (NewGrow, NewShrink), a release with the push on the   *)
(* stack (DelPush); every other step leaves the pool as it is.             *)
(***************************************************************************)
\* The blocks the abstract pool counts as in use.
Owned == live \cup Granted \cup Returned

Leaving == {"del_read", "del_count", "del_lock", "del_push"}

\* A location is on its way in or out only for the process that is in a call.
InFlight ==
  /\ \A p \in Procs : pc[p] \in InCall =>
       /\ Granted = IF pc[p] = "new_close" THEN {loc[p]} ELSE {}
       /\ Returned = IF pc[p] \in Leaving THEN {loc[p]} ELSE {}
  /\ ptrLock = NoProc => Granted = {} /\ Returned = {} /\ FreeCount = ptr.trash_size

LEMMA OneInFlight == CtlInv => InFlight
<1> SUFFICES ASSUME CtlInv PROVE InFlight
  OBVIOUS
<1> USE DEF InCall, NewPcs, DelPcs, UsedPcs, Unpushed, Leaving, Granted, Returned
<1>1. ASSUME NEW p \in Procs, pc[p] \in InCall
      PROVE  /\ Granted = IF pc[p] = "new_close" THEN {loc[p]} ELSE {}
             /\ Returned = IF pc[p] \in Leaving THEN {loc[p]} ELSE {}
  <2>1. \A q \in Procs : q # p => pc[q] = "idle"
    BY <1>1, Alone DEF OthersIdle
  <2> QED
    BY <1>1, <2>1
<1>2. ASSUME ptrLock = NoProc
      PROVE  Granted = {} /\ Returned = {} /\ FreeCount = ptr.trash_size
  BY <1>2, AllIdle DEF NobodyInCall
<1> QED
  BY <1>1, <1>2 DEF InFlight

\* The first step of a call finds the lock free; the last one frees it.
LEMMA LockWasFree ==
  ASSUME CtlInv, NEW p \in Procs, pc[p] = "idle", LockPointer(p)
  PROVE  ptrLock = NoProc
  BY DEF CtlInv, LockPointer, InCall, NewPcs, DelPcs, UsedPcs

\* Steps that leave the pool alone.
PoolUnchanged == Owned' = Owned /\ Free' = Free

LEMMA PoolStart == Init => Pool!Init
<1> SUFFICES ASSUME Init PROVE Pool!Init
  OBVIOUS
<1>1. FreeCount = 0 /\ Granted = {} /\ Returned = {} /\ live = {}
  BY DEF Init, FreeCount, Unpushed, EmptyPointer, Granted, Returned
<1> QED
  BY <1>1 DEF Pool!Init, Free

LEMMA PoolStep == IInv /\ IInv' /\ ~torn /\ ~torn' /\ [Next]_vars => [Pool!Next]_(Pool!vars)
<1> SUFFICES ASSUME IInv, IInv', ~torn, ~torn', [Next]_vars
             PROVE  PoolUnchanged \/ Pool!Alloc \/ Pool!Free
  BY DEF PoolUnchanged, Owned, Pool!Next, Pool!vars
<1> USE DEF Goto, files, InCall, NewPcs, DelPcs, UsedPcs, Unpushed, Leaving
<1>a. CtlInv /\ CtlInv' /\ Sound /\ Sound'
  BY DEF IInv
<1>b. InFlight /\ InFlight' /\ OthersIdle /\ OthersIdle'
  BY <1>a, OneInFlight, Alone, PTL
<1>c. /\ ptr \in Pointer /\ ptr.trash_size \in Nat /\ FreeCount \in Nat
      /\ live \subseteq Location
      /\ pc \in [Procs -> InCall \cup {"idle"}] /\ loc \in [Procs -> Location]
  <2>1. /\ ptr \in Pointer /\ trash \in Seq(Location) /\ live \subseteq Location
        /\ pc \in [Procs -> InCall \cup {"idle"}] /\ loc \in [Procs -> Location]
    BY <1>a DEF CtlInv, TypeOK
  <2>2. ptr.trash_size \in Nat
    BY <2>1 DEF Pointer
  <2>3. FreeCount \in Nat
    BY <1>a DEF Sound
  <2> QED
    BY <2>1, <2>2, <2>3
<1>d. \A p \in Procs : pc[p] = "idle" /\ LockPointer(p) => ptrLock = NoProc
  BY <1>a, LockWasFree
\* FreeCount and trash decide what is free.
<1>e. ASSUME FreeCount' = FreeCount, trash' = trash PROVE Free' = Free
  BY <1>e DEF Free
<1> USE DEF InFlight, OthersIdle, Owned, PoolUnchanged
<1>1. ASSUME NEW p \in Procs, NewLock(p) PROVE PoolUnchanged
  BY <1>1, <1>b, <1>c, <1>d, <1>e DEF NewLock, LockPointer
<1>2. ASSUME NEW p \in Procs, NEW b \in live, DelLock(p, b) PROVE PoolUnchanged
  BY <1>2, <1>b, <1>c, <1>d, <1>e DEF DelLock, LockPointer
<1>3. ASSUME NEW p \in Procs, UsedLock(p) PROVE PoolUnchanged
  BY <1>3, <1>b, <1>c, <1>d, <1>e DEF UsedLock, LockPointer
<1>4. ASSUME NEW p \in Procs, NewRead(p) PROVE PoolUnchanged
  BY <1>4, <1>b, <1>c, <1>e DEF NewRead
<1>5. ASSUME NEW p \in Procs, NewGrow(p) PROVE Pool!Alloc
  <2>1. buf[p] = ptr /\ ptr.trash_size = 0
    BY <1>5, <1>a DEF NewGrow, CtlInv, Fresh
  <2>2. ptr' = Advance(ptr) /\ loc'[p] = Frontier(ptr) /\ trash' = trash /\ live' = live
    BY <1>5, <1>c, <2>1 DEF NewGrow
  <2>3. pc[p] = "new_grow" /\ pc'[p] = "new_close"
    BY <1>5, <1>c DEF NewGrow
  <2>4. ptr'.trash_size = 0 /\ Frontier(ptr) \in Location
    BY <1>c, <2>1, <2>2, AdvanceProperties
  <2>5. FreeCount = 0 /\ FreeCount' = 0
    BY <1>b, <2>1, <2>3, <2>4
  <2>6. Frontier(ptr) \notin live
    BY <1>a, <1>c, AdvanceProperties DEF Sound
  <2>7. Owned = live /\ Owned' = live \cup {Frontier(ptr)}
    BY <1>b, <2>2, <2>3
  <2>8. Free = {} /\ Free' = {}
    BY <2>5 DEF Free
  <2> QED
    BY <2>4, <2>6, <2>7, <2>8 DEF Pool!Alloc
<1>6. ASSUME NEW p \in Procs, NewReuse(p) PROVE PoolUnchanged
  BY <1>6, <1>b, <1>c, <1>e DEF NewReuse, LockTrash
<1>7. ASSUME NEW p \in Procs, NewPop(p) PROVE PoolUnchanged
  BY <1>7, <1>b, <1>c, <1>e DEF NewPop
<1>8. ASSUME NEW p \in Procs, NewShrink(p) PROVE Pool!Alloc
  <2>1. buf[p] = ptr /\ ptr.trash_size > 0 /\ ptr.trash_size - 1 \in Nat
    BY <1>8, <1>a, <1>c DEF NewShrink, CtlInv, Fresh
  <2>2. ptr' = [ptr EXCEPT !.trash_size = ptr.trash_size - 1]
        /\ trash' = trash /\ live' = live /\ loc' = loc
    BY <1>8, <2>1 DEF NewShrink
  <2>3. ptr'.trash_size = ptr.trash_size - 1
    BY <1>c, <2>1, <2>2, SetTrashSize
  <2>4. pc[p] = "new_shrink" /\ pc'[p] = "new_close"
    BY <1>8, <1>c DEF NewShrink
  <2>5. FreeCount = ptr.trash_size /\ FreeCount' = ptr.trash_size - 1
    BY <1>b, <2>3, <2>4
  <2>6. loc[p] = trash[FreeCount] /\ FreeCount \in 1 .. FreeCount
    BY <1>a, <1>c, <2>1, <2>4, <2>5 DEF Sound
  <2>7. \A i \in 1 .. FreeCount : i \in 1 .. FreeCount' <=> i # FreeCount
    BY <1>c, <2>1, <2>5
  <2>8. \A i \in 1 .. FreeCount' : i \in 1 .. FreeCount
    BY <1>c, <2>1, <2>5
  <2>9. loc[p] \in Free /\ Free' = Free \ {loc[p]}
    BY <1>a, <2>2, <2>6, <2>7, <2>8 DEF Free, Sound
  <2>10. loc[p] \notin live /\ loc[p] \in Location
    BY <1>a, <1>c, <2>6 DEF Sound
  <2>11. Owned = live /\ Owned' = live \cup {loc[p]}
    BY <1>b, <2>2, <2>4
  <2> QED
    BY <2>9, <2>10, <2>11 DEF Pool!Alloc
<1>9. ASSUME NEW p \in Procs, NewClose(p) PROVE PoolUnchanged
  BY <1>9, <1>b, <1>c, <1>e DEF NewClose, Return
<1>10. ASSUME NEW p \in Procs, DelRead(p) PROVE PoolUnchanged
  BY <1>10, <1>b, <1>c, <1>e DEF DelRead
<1>11. ASSUME NEW p \in Procs, DelCount(p) PROVE PoolUnchanged
  <2>1. buf[p] = ptr /\ ptr.trash_size + 1 \in Nat
    BY <1>11, <1>a, <1>c DEF DelCount, CtlInv, Fresh
  <2>2. ptr' = [ptr EXCEPT !.trash_size = ptr.trash_size + 1]
    BY <1>11, <2>1 DEF DelCount
  <2>3. ptr'.trash_size = ptr.trash_size + 1
    BY <1>c, <2>1, <2>2, SetTrashSize
  <2>4. pc[p] = "del_count" /\ pc'[p] = "del_lock" /\ trash' = trash /\ live' = live /\ loc' = loc
    BY <1>11, <1>c DEF DelCount
  <2>5. FreeCount' = FreeCount
    BY <1>b, <1>c, <2>3, <2>4
  <2> QED
    BY <1>b, <1>e, <2>4, <2>5
<1>12. ASSUME NEW p \in Procs, DelLockTrash(p) PROVE PoolUnchanged
  BY <1>12, <1>b, <1>c, <1>e DEF DelLockTrash, LockTrash
<1>13. ASSUME NEW p \in Procs, DelPush(p) PROVE Pool!Free
  <2>1. ptr.trash_size = buf[p].trash_size + 1 /\ ptr.trash_size \in Nat \ {0}
    BY <1>13, <1>a DEF DelPush, CtlInv, TypeOK, Pointer
  <2>2. /\ pc[p] = "del_push" /\ pc'[p] = "del_close"
        /\ ptr' = ptr /\ live' = live /\ loc' = loc
        /\ trash' = WriteEntry(trash, ptr.trash_size, loc[p])
    BY <1>13, <1>c, <2>1 DEF DelPush
  <2>3. FreeCount = ptr.trash_size - 1 /\ FreeCount' = ptr.trash_size
    BY <1>b, <2>2
  <2>4. trash'[ptr.trash_size] = loc[p] /\ \A i \in 1 .. FreeCount : trash'[i] = trash[i]
    <3>1. trash \in Seq(Location) /\ loc[p] \in Location
      BY <1>a DEF CtlInv, TypeOK
    <3> DEFINE w == WriteEntry(trash, ptr.trash_size, loc[p])
    <3>2. /\ w[ptr.trash_size] = loc[p]
          /\ \A i \in 1 .. Len(trash) : i # ptr.trash_size => w[i] = trash[i]
      <4>1. ptr.trash_size \in Nat \ {0}
        BY <2>1
      <4> HIDE DEF Goto, files
      <4> QED
        BY <3>1, <4>1, WriteEntryProperties, ZenonT(60)
    <3>3. \A i \in 1 .. FreeCount : i \in 1 .. Len(trash) /\ i # ptr.trash_size
      <4>1. FreeCount \in 0 .. Len(trash) /\ Len(trash) \in Nat
        BY <1>a, <3>1 DEF Sound
      <4> QED
        BY <2>1, <2>3, <4>1
    <3> QED
      BY <2>2, <3>2, <3>3
  <2>5. /\ \A i \in 1 .. FreeCount' : i \in 1 .. FreeCount \/ i = ptr.trash_size
        /\ \A i \in 1 .. FreeCount : i \in 1 .. FreeCount'
        /\ ptr.trash_size \in 1 .. FreeCount'
    BY <2>1, <2>3
  <2>6. Free' = Free \cup {loc[p]}
    BY <2>4, <2>5 DEF Free
  <2>7. loc[p] \notin live
    BY <1>a, <2>2 DEF Sound, Pending
  <2>8. Owned = live \cup {loc[p]} /\ Owned' = live
    BY <1>b, <2>2
  <2> QED
    BY <2>6, <2>7, <2>8 DEF Pool!Free
<1>14. ASSUME NEW p \in Procs, DelClose(p) PROVE PoolUnchanged
  BY <1>14, <1>b, <1>c, <1>e DEF DelClose, Return
<1>15. ASSUME NEW p \in Procs, UsedRead(p) PROVE PoolUnchanged
  BY <1>15, <1>b, <1>c, <1>e DEF UsedRead
<1>16. ASSUME NEW p \in Procs, UsedClose(p) PROVE PoolUnchanged
  BY <1>16, <1>b, <1>c, <1>e DEF UsedClose, Return
<1>17. CASE UNCHANGED vars
  BY <1>17 DEF vars, Free, FreeCount, Granted, Returned
<1> QED
  BY <1>1, <1>2, <1>3, <1>4, <1>5, <1>6, <1>7, <1>8, <1>9, <1>10, <1>11, <1>12,
     <1>13, <1>14, <1>15, <1>16, <1>17 DEF Next, Call, Step

\* Nobody is killed in Spec.
LEMMA NeverTorn == Spec => []~torn
<1>1. Init => ~torn
  BY DEF Init
<1>2. ~torn /\ [Next]_vars => ~torn'
  BY DEF Next, Call, Step, NewLock, NewRead, NewGrow, NewReuse, NewPop, NewShrink,
     NewClose, DelLock, DelRead, DelCount, DelLockTrash, DelPush, DelClose,
     UsedLock, UsedRead, UsedClose, vars
<1> QED
  BY <1>1, <1>2, PTL DEF Spec

\* The allocator's files and the calls in progress behave like a pool of
\* blocks, whatever the number of processes: a block that is handed out was
\* not in use, a returned block is handed out before the files grow.
THEOREM AllocatorImplementsPool == Spec => PoolSpec
<1>1. [Next]_vars => [CrashNext]_vars
  BY DEF CrashNext
<1>2. Spec => CrashSpec
  BY <1>1, PTL DEF Spec, CrashSpec
<1> QED
  BY <1>2, Inductive, NeverTorn, PoolStart, PoolStep, PTL DEF Spec, PoolSpec, Pool!Spec

-----------------------------------------------------------------------------
(***************************************************************************)
(* Proofs about NodeReset: the properties of the allocator hold again      *)
(* after a reset, whatever the files had come to before, as long as no     *)
(* reset runs next to a call.                                              *)
(*                                                                         *)
(* While the files are torn, a call may work on anything: only the locks   *)
(* are in order (Locks), and what a call holds has the shape of a pointer  *)
(* and of a location (Loose).  That is all a reset needs.  Once it has     *)
(* written its zeros the invariant of NodeAllocator holds (Trusted).       *)
(***************************************************************************)

ResetPcs == {"reset_write", "reset_trash"}

\* What an uninitialised buffer or an outdated file may hold.
AnyPointer == [filenum : Nat, linenum : Nat, trash_size : Nat]

Locks ==
  /\ pc \in [Procs -> InCall \cup ResetPcs \cup {"idle"}]
  /\ ptrLock \in Procs \cup {NoProc} /\ trashLock \in Procs \cup {NoProc}
  /\ \A p \in Procs : pc[p] \in InCall <=> ptrLock = p
  /\ \A p \in Procs : pc[p] \in {"new_pop", "del_push"} <=> trashLock = p

Loose ==
  /\ ptr \in AnyPointer /\ trash \in Seq(Location)
  /\ buf \in [Procs -> AnyPointer] /\ loc \in [Procs -> Location]
  /\ live \in SUBSET Location /\ torn \in BOOLEAN /\ erased \in BOOLEAN
  /\ \A p \in Procs :
       /\ pc[p] \in {"new_reuse", "new_pop", "new_shrink"} => buf[p].trash_size > 0
       /\ pc[p] \notin InCall => buf[p] = EmptyPointer

\* A process in a reset is alone, and no block is in use.
Secluded ==
  /\ \A p \in Procs : pc[p] \in ResetPcs =>
       /\ \A q \in Procs : q # p => pc[q] = "idle"
       /\ live = {}
       /\ pc[p] = "reset_write" => torn
  /\ erased => torn

Trusted ==
  ~torn => IF Resetting THEN ptr = EmptyPointer
           ELSE IInv /\ Balance

ResetInv == Locks /\ Loose /\ Secluded /\ Trusted

-----------------------------------------------------------------------------
(***************************************************************************)
(* The calls of the allocator, on files that may hold anything.            *)
(***************************************************************************)
LEMMA AnyAdvance ==
  ASSUME NEW f \in AnyPointer
  PROVE  Advance(f) \in AnyPointer /\ Frontier(f) \in Location
<1>1. CASE f.linenum + 1 >= MaxNodeBlockNumber
  BY <1>1 DEF AnyPointer, Advance, Frontier, Location
<1>2. CASE ~(f.linenum + 1 >= MaxNodeBlockNumber)
  <2>1. Advance(f) = [f EXCEPT !.linenum = f.linenum + 1]
    BY <1>2 DEF Advance
  <2> QED
    BY <2>1 DEF AnyPointer, Frontier, Location
<1> QED
  BY <1>1, <1>2

LEMMA AnyTrashSize ==
  ASSUME NEW f \in AnyPointer, NEW n \in Nat
  PROVE  [f EXCEPT !.trash_size = n] \in AnyPointer
  BY DEF AnyPointer

LEMMA Shapes ==
  /\ EmptyPointer \in AnyPointer /\ EmptyPointer \in Pointer
  /\ <<0, 0>> \in Location /\ <<>> \in Seq(Location)
  /\ Pointer \subseteq AnyPointer /\ Garbage \subseteq AnyPointer
<1>1. EmptyPointer \in AnyPointer /\ EmptyPointer \in Pointer
  BY ConstAssumption DEF AnyPointer, Pointer, EmptyPointer
<1>2. <<0, 0>> \in Location /\ <<>> \in Seq(Location)
  BY DEF Location
<1>3. Pointer \subseteq AnyPointer
  BY ConstAssumption DEF AnyPointer, Pointer
<1>4. Garbage \subseteq AnyPointer
  BY ResetAssumption DEF AnyPointer, Garbage
<1> QED
  BY <1>1, <1>2, <1>3, <1>4

\* Where a read of nothing leads.
LEMMA AfterNothing ==
  ASSUME NEW p \in Procs, ReadNothing(p)
  PROVE  \E f \in Garbage, s \in {"del_count", "used_close", "new_grow", "new_reuse"} :
           /\ buf' = [buf EXCEPT ![p] = f]
           /\ pc' = [pc EXCEPT ![p] = s]
           /\ s = "new_reuse" => f.trash_size > 0
<1>1. PICK f \in Garbage :
        /\ buf' = [buf EXCEPT ![p] = f]
        /\ pc' = [pc EXCEPT ![p] =
                   CASE @ = "del_read" -> "del_count"
                     [] @ = "used_read" -> "used_close"
                     [] @ = "new_read" /\ f.trash_size = 0 -> "new_grow"
                     [] @ = "new_read" /\ f.trash_size > 0 -> "new_reuse"]
  BY DEF ReadNothing
<1>2. pc[p] \in Reads /\ f.trash_size \in Nat
  BY Shapes DEF ReadNothing, AnyPointer
<1> DEFINE s == CASE pc[p] = "del_read" -> "del_count"
                  [] pc[p] = "used_read" -> "used_close"
                  [] pc[p] = "new_read" /\ f.trash_size = 0 -> "new_grow"
                  [] pc[p] = "new_read" /\ f.trash_size > 0 -> "new_reuse"
<1>3. /\ s \in {"del_count", "used_close", "new_grow", "new_reuse"}
      /\ s = "new_reuse" => f.trash_size > 0
  <2>1. CASE pc[p] = "del_read"
    BY <2>1
  <2>2. CASE pc[p] = "used_read"
    BY <2>2
  <2>3. CASE pc[p] = "new_read" /\ f.trash_size = 0
    BY <2>3
  <2>4. CASE pc[p] = "new_read" /\ f.trash_size > 0
    BY <1>2, <2>4
  <2> QED
    BY <1>2, <2>1, <2>2, <2>3, <2>4 DEF Reads
<1>4. pc' = [pc EXCEPT ![p] = s]
  BY <1>1
<1> QED
  BY <1>1, <1>3, <1>4

LEMMA LockStep ==
  ASSUME Locks, NEW p \in Procs, Call(p) \/ Step(p) \/ Crash(p) \/ ReadNothing(p)
  PROVE  Locks'
<1> USE ConstAssumption DEF Locks, Goto, InCall, NewPcs, DelPcs, UsedPcs, ResetPcs
<1>1. CASE NewLock(p)
  BY <1>1 DEF NewLock, LockPointer
<1>2. ASSUME NEW b \in live, DelLock(p, b) PROVE Locks'
  BY <1>2 DEF DelLock, LockPointer
<1>3. CASE UsedLock(p)
  BY <1>3 DEF UsedLock, LockPointer
<1>4. CASE NewRead(p) \/ NewGrow(p) \/ NewShrink(p)
  BY <1>4 DEF NewRead, NewGrow, NewShrink
<1>5. CASE NewReuse(p) \/ NewPop(p)
  BY <1>5 DEF NewReuse, NewPop, LockTrash
<1>6. CASE NewClose(p) \/ DelClose(p) \/ UsedClose(p)
  BY <1>6 DEF NewClose, DelClose, UsedClose, Return
<1>7. CASE DelRead(p) \/ DelCount(p) \/ UsedRead(p)
  BY <1>7 DEF DelRead, DelCount, UsedRead
<1>8. CASE DelLockTrash(p) \/ DelPush(p)
  BY <1>8 DEF DelLockTrash, DelPush, LockTrash
<1>9. CASE Crash(p)
  BY <1>9 DEF Crash, Return
<1>10. CASE ReadNothing(p)
  <2>1. PICK s \in {"del_count", "used_close", "new_grow", "new_reuse"} :
          pc' = [pc EXCEPT ![p] = s]
    BY <1>10, AfterNothing
  <2>2. pc[p] \in Reads /\ UNCHANGED <<ptrLock, trashLock>>
    BY <1>10 DEF ReadNothing
  <2> QED
    BY <2>1, <2>2 DEF Reads
<1> QED
  BY <1>1, <1>2, <1>3, <1>4, <1>5, <1>6, <1>7, <1>8, <1>9, <1>10 DEF Call, Step

LEMMA LooseStep ==
  ASSUME Locks, Loose, erased' \in BOOLEAN, NEW p \in Procs, Call(p) \/ Step(p) \/ Crash(p)
  PROVE  Loose'
<1> USE DEF Locks, Loose, Goto, files, InCall, NewPcs, DelPcs, UsedPcs, ResetPcs
<1>1. CASE NewLock(p) \/ UsedLock(p)
  BY <1>1 DEF NewLock, UsedLock
<1>2. ASSUME NEW b \in live, DelLock(p, b) PROVE Loose'
  BY <1>2 DEF DelLock
<1>3. CASE NewRead(p) \/ DelRead(p) \/ UsedRead(p)
  <2>1. ptr.trash_size \in Nat
    BY DEF AnyPointer
  <2> QED
    BY <1>3, <2>1 DEF NewRead, DelRead, UsedRead
<1>4. CASE NewGrow(p)
  <2>1. Advance(buf[p]) \in AnyPointer /\ Frontier(buf[p]) \in Location
    BY AnyAdvance
  <2> QED
    BY <1>4, <2>1 DEF NewGrow
<1>5. CASE NewReuse(p) \/ DelLockTrash(p)
  BY <1>5 DEF NewReuse, DelLockTrash
<1>6. CASE NewPop(p)
  <2>1. ReadEntry(trash, buf[p].trash_size) \subseteq Location
    BY ReadEntryProperties DEF AnyPointer
  <2> QED
    BY <1>6, <2>1 DEF NewPop
<1>7. CASE NewShrink(p)
  <2>1. buf[p] \in AnyPointer /\ buf[p].trash_size - 1 \in Nat
    BY <1>7 DEF NewShrink, AnyPointer
  <2>2. ptr' = [buf[p] EXCEPT !.trash_size = buf[p].trash_size - 1]
    BY <1>7 DEF NewShrink
  <2>3. ptr' \in AnyPointer
    BY <2>1, <2>2, AnyTrashSize
  <2> QED
    BY <1>7, <2>3 DEF NewShrink
<1>8. CASE DelCount(p)
  <2>1. buf[p] \in AnyPointer /\ buf[p].trash_size + 1 \in Nat
    BY DEF AnyPointer
  <2>2. ptr' = [buf[p] EXCEPT !.trash_size = buf[p].trash_size + 1]
    BY <1>8 DEF DelCount
  <2>3. ptr' \in AnyPointer
    BY <2>1, <2>2, AnyTrashSize
  <2> QED
    BY <1>8, <2>3 DEF DelCount
<1>9. CASE DelPush(p)
  <2>1. WriteEntry(trash, buf[p].trash_size + 1, loc[p]) \in Seq(Location)
    <3>1. trash \in Seq(Location) /\ loc[p] \in Location
      OBVIOUS
    <3>2. buf[p].trash_size + 1 \in Nat \ {0}
      BY DEF AnyPointer
    <3> HIDE DEF Loose, Locks
    <3> QED
      BY <3>1, <3>2, WriteEntryProperties, Zenon
  <2> QED
    BY <1>9, <2>1 DEF DelPush
<1>10. CASE NewClose(p)
  <2>1. live' \in SUBSET Location
    BY <1>10 DEF NewClose
  <2> QED
    BY <1>10, <2>1, Shapes DEF NewClose, Return
<1>11. CASE DelClose(p) \/ UsedClose(p)
  BY <1>11, Shapes DEF DelClose, UsedClose, Return
<1>12. CASE Crash(p)
  <2>1. torn' \in BOOLEAN
    BY <1>12 DEF Crash
  <2> QED
    BY <1>12, <2>1, Shapes DEF Crash, Return
<1> QED
  BY <1>1, <1>2, <1>3, <1>4, <1>5, <1>6, <1>7, <1>8, <1>9, <1>10, <1>11, <1>12 DEF Call, Step

LEMMA ReadNothingLoose ==
  ASSUME Locks, Loose, NEW p \in Procs, ReadNothing(p)
  PROVE  Loose'
<1>1. PICK f \in Garbage, s \in {"del_count", "used_close", "new_grow", "new_reuse"} :
        /\ buf' = [buf EXCEPT ![p] = f]
        /\ pc' = [pc EXCEPT ![p] = s]
        /\ s = "new_reuse" => f.trash_size > 0
  BY AfterNothing
<1>2. /\ f \in AnyPointer
      /\ UNCHANGED <<ptr, trash, loc, live, torn, erased>>
  BY Shapes DEF ReadNothing, files
<1>3. /\ pc'[p] \in {"del_count", "used_close", "new_grow", "new_reuse"}
      /\ pc'[p] = "new_reuse" => f.trash_size > 0
  BY <1>1 DEF Locks
<1>4. \A q \in Procs : q # p => pc'[q] = pc[q] /\ buf'[q] = buf[q]
  BY <1>1 DEF Loose, Locks
<1>5. buf' \in [Procs -> AnyPointer] /\ buf'[p] = f
  BY <1>1, <1>2 DEF Loose
<1> QED
  BY <1>2, <1>3, <1>4, <1>5 DEF Loose, InCall, NewPcs, DelPcs, UsedPcs

\* Everything a step of a call does to the rest of ResetInv.
LEMMA CallKeeps ==
  ASSUME Locks, Secluded, ~Resetting, NEW p \in Procs,
         Start(p) \/ Proceed(p) \/ ReadNothing(p) \/ (Crash(p) /\ UNCHANGED erased)
  PROVE  /\ ~Resetting' /\ Secluded'
         /\ torn => torn'
         /\ erased' => erased
<1> USE DEF Goto, InCall, NewPcs, DelPcs, UsedPcs, ResetPcs
<1>1. pc'[p] \notin ResetPcs /\ \A q \in Procs : q # p => pc'[q] = pc[q]
  <2>1. CASE ReadNothing(p)
    <3>1. Locks'
      BY <2>1, LockStep
    <3>2. pc[p] \in InCall /\ UNCHANGED ptrLock /\ \A q \in Procs : q # p => pc'[q] = pc[q]
      BY <2>1 DEF ReadNothing, Reads, Locks
    <3> QED
      BY <3>1, <3>2 DEF Locks
  <2>2. CASE Start(p)
    BY <2>2 DEF Locks, Start, Call, NewLock, DelLock, UsedLock
  <2>3. CASE Proceed(p)
    BY <2>3 DEF Locks, Proceed, Step, NewRead, NewGrow, NewReuse, NewPop, NewShrink, NewClose,
       DelRead, DelCount, DelLockTrash, DelPush, DelClose, UsedRead, UsedClose, Return
  <2>4. CASE Crash(p)
    BY <2>4 DEF Locks, Crash, Return
  <2> QED
    BY <2>1, <2>2, <2>3, <2>4
<1>2. ~Resetting'
  BY <1>1 DEF Resetting
<1>3. (torn => torn') /\ (erased' => erased)
  <2>1. CASE Start(p)
    BY <2>1 DEF Start, Call, NewLock, DelLock, UsedLock
  <2>2. CASE Proceed(p)
    <3>1. erased' => erased
      BY <2>2, Zenon DEF Proceed
    <3>2. torn' = torn
      BY <2>2 DEF Proceed, Step, NewRead, NewGrow, NewReuse, NewPop, NewShrink, NewClose,
         DelRead, DelCount, DelLockTrash, DelPush, DelClose, UsedRead, UsedClose
    <3> QED
      BY <3>1, <3>2
  <2>3. CASE ReadNothing(p)
    BY <2>3 DEF ReadNothing
  <2>4. CASE Crash(p) /\ UNCHANGED erased
    <3>1. torn => torn'
      BY <2>4, Zenon DEF Crash
    <3> QED
      BY <2>4, <3>1
  <2> QED
    BY <2>1, <2>2, <2>3, <2>4
<1>4. Secluded'
  BY <1>2, <1>3 DEF Secluded, Resetting
<1> QED
  BY <1>2, <1>3, <1>4

\* Calls are those of NodeAllocator as long as the files can be trusted.
LEMMA TrustedStep ==
  ASSUME ResetInv, ~Resetting, ~Resetting', NEW p \in Procs,
         Start(p) \/ Proceed(p) \/ ReadNothing(p) \/ (Crash(p) /\ UNCHANGED erased),
         torn => torn'
  PROVE  Trusted'
<1> SUFFICES ASSUME ~torn' PROVE IInv' /\ Balance'
  BY DEF Trusted
<1>1. ~torn /\ ~erased /\ IInv /\ Balance
  BY DEF ResetInv, Trusted, Secluded
<1>2. CrashNext
  BY <1>1 DEF CrashNext, Next, Start, Proceed, ReadNothing
<1>3. CtlInv'
  BY <1>1, <1>2, CtlStep DEF IInv
<1>4. Sound'
  BY <1>1, <1>2, <1>3, SoundStep DEF IInv
<1>5. IInv'
  BY <1>3, <1>4 DEF IInv
<1>6. Balance'
  BY <1>1, <1>2, <1>5, BalanceStep
<1> QED
  BY <1>5, <1>6

-----------------------------------------------------------------------------
(***************************************************************************)
(* The reset.                                                              *)
(***************************************************************************)
\* Zeros in the pointer file and nobody in a call: all is well.
Clean == Locks /\ Loose /\ Quiet /\ ptr = EmptyPointer /\ live = {}

LEMMA CleanState == Clean => IInv /\ Balance
<1> SUFFICES ASSUME Clean PROVE IInv /\ Balance
  OBVIOUS
<1> USE DEF Clean, Quiet, InCall, NewPcs, DelPcs, UsedPcs, Unpushed, Pending
<1>1. FreeCount = 0 /\ Held = 0 /\ HandedOut(ptr) = 0
  BY ConstAssumption DEF FreeCount, Held, EmptyPointer, HandedOut
<1>2. CtlInv
  <2>1. TypeOK
    <3>1. \A q \in Procs : buf[q] = EmptyPointer
      BY DEF Loose
    <3>2. buf \in [Procs -> Pointer]
      BY <3>1, Shapes DEF Loose
    <3>3. pc \in [Procs -> InCall \cup {"idle"}]
      BY DEF Locks
    <3> QED
      BY <3>2, <3>3, Shapes DEF Loose, Locks, TypeOK
  <2> QED
    BY <2>1 DEF CtlInv, Locks, Fresh
<1>3. Sound
  <2>1. Len(trash) \in Nat
    BY LenProperties DEF Loose
  <2> QED
    BY <1>1, <2>1 DEF Sound
<1>4. Finite /\ Lost = 0
  <2>1. IsFiniteSet(live) /\ Cardinality(live) = 0
    BY FS_EmptySet
  <2> QED
    BY <1>1, <2>1 DEF Finite, Lost
<1> QED
  BY <1>2, <1>3, <1>4 DEF IInv, Balance

LEMMA ResetStart ==
  ResetInit => ResetInv
<1> SUFFICES ASSUME ResetInit PROVE ResetInv
  OBVIOUS
<1> USE DEF ResetInit, Init
<1>1. Locks
  BY ConstAssumption DEF Locks, InCall, NewPcs, DelPcs, UsedPcs, ResetPcs
<1>2. Loose
  BY Shapes DEF Loose
<1>3. ~Resetting /\ Secluded
  BY DEF Resetting, Secluded, ResetPcs
<1>4. Trusted
  BY <1>1, <1>2, <1>3, CleanState DEF Trusted, Clean, Quiet
<1> QED
  BY <1>1, <1>2, <1>3, <1>4 DEF ResetInv

LEMMA ResetStep ==
  ASSUME ResetInv, NEW p \in Procs, Quiet \/ pc[p] # "idle", Reset(p) \/ KillReset(p)
  PROVE  ResetInv'
<1> USE DEF Goto, files, ResetPcs
<1>1. pc \in [Procs -> InCall \cup ResetPcs \cup {"idle"}] /\ Locks /\ Loose
  BY DEF ResetInv, Locks
<1>2. \A q \in Procs : q # p => pc[q] = "idle" /\ pc'[q] = "idle"
  <2>1. CASE Quiet
    BY <1>1, <2>1 DEF Quiet, Reset, ResetTruncate, ResetWrite, ResetTrash, KillReset
  <2>2. CASE pc[p] \in ResetPcs
    BY <1>1, <2>2 DEF ResetInv, Secluded, Reset, ResetTruncate, ResetWrite, ResetTrash,
       KillReset
  <2> QED
    BY <2>1, <2>2 DEF Reset, ResetTruncate, ResetWrite, ResetTrash, KillReset
<1>3. /\ pc[p] \notin InCall /\ pc'[p] \notin InCall
      /\ pc' \in [Procs -> InCall \cup ResetPcs \cup {"idle"}]
      /\ UNCHANGED <<ptrLock, trashLock, buf, loc>>
  BY <1>1 DEF Reset, ResetTruncate, ResetWrite, ResetTrash, KillReset, InCall, NewPcs, DelPcs,
     UsedPcs
<1>4. Locks'
  BY <1>1, <1>2, <1>3 DEF Locks, InCall, NewPcs, DelPcs, UsedPcs
<1>5. Loose'
  <2>1. /\ ptr' \in AnyPointer /\ trash' \in Seq(Location) /\ live' \in SUBSET Location
        /\ torn' \in BOOLEAN /\ erased' \in BOOLEAN
    BY <1>1, Shapes DEF Loose, Reset, ResetTruncate, ResetWrite, ResetTrash, KillReset
  <2>2. \A q \in Procs : pc[q] \notin InCall
    BY <1>2, <1>3 DEF InCall, NewPcs, DelPcs, UsedPcs
  <2>3. \A q \in Procs : pc'[q] \notin {"new_reuse", "new_pop", "new_shrink"}
    BY <1>2, <1>3 DEF InCall, NewPcs
  <2> QED
    BY <1>1, <1>3, <2>1, <2>2, <2>3 DEF Loose
<1>6. CASE ResetTruncate(p)
  <2>1. torn' /\ live' = {}
    BY <1>6 DEF ResetTruncate
  <2>2. Secluded' /\ Trusted'
    BY <1>2, <2>1 DEF Secluded, Trusted
  <2> QED
    BY <1>4, <1>5, <2>2 DEF ResetInv
<1>7. CASE ResetWrite(p)
  <2>1. /\ ptr' = EmptyPointer /\ live' = {} /\ ~erased' /\ pc'[p] = "reset_trash"
    BY <1>1, <1>7 DEF ResetWrite, ResetInv, Secluded
  <2>2. Secluded' /\ Trusted'
    BY <1>2, <2>1 DEF Secluded, Trusted, Resetting
  <2> QED
    BY <1>4, <1>5, <2>2 DEF ResetInv
<1>8. CASE ResetTrash(p) \/ KillReset(p)
  <2>1. /\ pc[p] \in ResetPcs /\ pc'[p] = "idle"
        /\ UNCHANGED <<ptr, live, torn, erased>>
    BY <1>1, <1>8 DEF ResetTrash, KillReset
  <2>2. \A q \in Procs : pc'[q] = "idle"
    BY <1>2, <2>1
  <2>3. Secluded' /\ ~Resetting'
    BY <2>1, <2>2 DEF ResetInv, Secluded, Resetting
  <2>4. ~torn' => ptr' = EmptyPointer /\ live' = {}
    BY <2>1 DEF ResetInv, Trusted, Resetting, Secluded
  <2>5. ASSUME ~torn' PROVE IInv' /\ Balance'
    <3>1. Clean'
      BY <1>4, <1>5, <2>2, <2>4, <2>5 DEF Clean, Quiet
    <3> QED
      BY <3>1, CleanState, PTL
  <2> QED
    BY <1>4, <1>5, <2>3, <2>5 DEF ResetInv, Trusted
<1> QED
  BY <1>6, <1>7, <1>8 DEF Reset

LEMMA ResetInvStep == ResetInv /\ [\E p \in Procs : Run(p) \/ Die(p)]_resetVars => ResetInv'
<1> SUFFICES ASSUME ResetInv, [\E p \in Procs : Run(p) \/ Die(p)]_resetVars PROVE ResetInv'
  OBVIOUS
<1>1. ASSUME NEW p \in Procs, (Quiet \/ pc[p] # "idle") /\ (Reset(p) \/ KillReset(p))
      PROVE  ResetInv'
  BY <1>1, ResetStep
<1>2. ASSUME NEW p \in Procs, ~Resetting,
             Start(p) \/ Proceed(p) \/ ReadNothing(p) \/ (Crash(p) /\ UNCHANGED erased)
      PROVE  ResetInv'
  <2>1. Locks /\ Loose /\ Secluded
    BY DEF ResetInv
  <2>2. /\ ~Resetting' /\ Secluded'
        /\ torn => torn'
        /\ erased' => erased
    BY <1>2, <2>1, CallKeeps
  <2>3. Locks'
    BY <1>2, <2>1, LockStep DEF Start, Proceed
  <2>4. Loose'
    <3>1. CASE ReadNothing(p)
      BY <2>1, <3>1, ReadNothingLoose
    <3>2. CASE ~ReadNothing(p)
      <4>1. erased' \in BOOLEAN
        BY <1>2, <2>1, <3>2 DEF Loose, Start, Proceed
      <4> QED
        BY <1>2, <2>1, <3>2, <4>1, LooseStep DEF Start, Proceed
    <3> QED
      BY <3>1, <3>2
  <2>5. Trusted'
    BY <1>2, <2>2, TrustedStep
  <2> QED
    BY <2>2, <2>3, <2>4, <2>5 DEF ResetInv
<1>3. ASSUME NEW p \in Procs, Crash(p) PROVE ~Resetting
  <2>1. pc[p] \in InCall /\ pc[p] # "idle" /\ pc[p] \notin ResetPcs
    BY <1>3 DEF Crash, InCall, NewPcs, DelPcs, UsedPcs, ResetPcs
  <2> QED
    BY <2>1 DEF ResetInv, Secluded, Resetting, ResetPcs
<1>4. CASE UNCHANGED resetVars
  <2>1. UNCHANGED vars /\ UNCHANGED erased
    BY <1>4 DEF resetVars
  <2>2. /\ UNCHANGED <<ptr, trash, ptrLock, trashLock, pc, buf, loc, live, torn, erased>>
    BY <2>1 DEF vars
  <2>3. Locks' /\ Loose' /\ Secluded' /\ (Resetting' <=> Resetting)
    BY <2>2 DEF ResetInv, Locks, Loose, Secluded, Resetting
  <2>4. Trusted'
    <3>1. CASE Resetting
      BY <2>2, <2>3, <3>1 DEF ResetInv, Trusted
    <3>2. CASE ~Resetting
      <4>1. ~torn => IInv /\ Balance
        BY <3>2 DEF ResetInv, Trusted
      <4>2. ~torn => IInv'
        BY <2>1, <2>2, <4>1, CtlStep, SoundStep DEF IInv
      <4>3. ~torn => Balance'
        BY <2>1, <2>2, <4>1, <4>2, BalanceStep
      <4> QED
        BY <2>2, <2>3, <3>2, <4>2, <4>3 DEF Trusted
    <3> QED
      BY <3>1, <3>2
  <2> QED
    BY <2>3, <2>4 DEF ResetInv
<1>5. ASSUME NEW p \in Procs, KillReset(p) PROVE pc[p] # "idle"
  BY <1>5 DEF KillReset
<1> QED
  BY <1>1, <1>2, <1>3, <1>4, <1>5 DEF Run, Die

-----------------------------------------------------------------------------
(***************************************************************************)
(* The results.                                                            *)
(***************************************************************************)
LEMMA ResetInductive == ResetCrashSpec => []ResetInv
  BY ResetStart, ResetInvStep, PTL DEF ResetCrashSpec

\* Nobody is in a call during a reset, and after its zeros nothing is free.
LEMMA DuringReset ==
  ASSUME ResetInv, ~torn, Resetting
  PROVE  /\ \A q \in Procs : pc[q] \notin InCall
         /\ Granted = {} /\ Returned = {} /\ live = {} /\ Free = {} /\ FreeCount = 0
<1> USE DEF InCall, NewPcs, DelPcs, UsedPcs, ResetPcs, Unpushed
<1>1. PICK p \in Procs : pc[p] \in ResetPcs
  BY DEF Resetting
<1>2. \A q \in Procs : pc[q] \notin InCall
  BY <1>1 DEF ResetInv, Secluded
<1>3. live = {} /\ ptr = EmptyPointer
  BY <1>1 DEF ResetInv, Secluded, Trusted
<1>4. FreeCount = 0
  BY <1>2, <1>3 DEF FreeCount, EmptyPointer
<1> QED
  BY <1>2, <1>3, <1>4 DEF Granted, Returned, Free

\* new_node_position next to clear_all_nodes: no block gets two owners,
\* however often the database is reset in between and wherever a process is
\* killed, if no reset runs next to a call.
THEOREM GrantsStayExclusive == ResetCrashSpec => []GrantIsExclusive
<1>1. ResetInv => GrantIsExclusive
  <2>1. CASE torn
    BY <2>1 DEF GrantIsExclusive
  <2>2. CASE ~torn /\ Resetting /\ ResetInv
    BY <2>2, DuringReset DEF GrantIsExclusive
  <2>3. CASE ~torn /\ ~Resetting
    BY <2>3, GrantFollows DEF ResetInv, Trusted
  <2> QED
    BY <2>1, <2>2, <2>3
<1> QED
  BY <1>1, ResetInductive, PTL

\* clear_all_nodes: from the moment it has written its zeros the free stack
\* can be trusted again, whatever torn or garbled files it found, and it
\* stays so through the calls that follow.
THEOREM ResetsRestoreTheStack == ResetCrashSpec => []FreeStackSound
<1>1. ResetInv => FreeStackSound
  <2>1. CASE torn
    BY <2>1 DEF FreeStackSound
  <2>2. CASE ~torn /\ Resetting /\ ResetInv
    <3>1. Len(trash) \in Nat
      BY <2>2, LenProperties DEF ResetInv, Loose
    <3> QED
      BY <2>2, <3>1, DuringReset DEF FreeStackSound
  <2>3. CASE ~torn /\ ~Resetting
    BY <2>3, FreeStackFollows DEF ResetInv, Trusted
  <2> QED
    BY <2>1, <2>2, <2>3
<1> QED
  BY <1>1, ResetInductive, PTL

\* used_memory after any number of resets and kills is never below the number
\* of blocks in use.
THEOREM UsedMemoryStaysCovered == ResetCrashSpec => []UsedMemoryCoversLive
<1>1. ResetInv => UsedMemoryCoversLive
  <2>1. CASE torn
    BY <2>1 DEF UsedMemoryCoversLive
  <2>2. CASE ~torn /\ Resetting /\ ResetInv
    <3>1. \A q \in Procs : pc[q] # "used_close"
      BY <2>2, DuringReset DEF InCall, UsedPcs
    <3> QED
      BY <3>1 DEF UsedMemoryCoversLive
  <2>3. CASE ~torn /\ ~Resetting
    BY <2>3, UsedMemoryFollows DEF ResetInv, Trusted
  <2> QED
    BY <2>1, <2>2, <2>3
<1> QED
  BY <1>1, ResetInductive, PTL
=============================================================================
