----------------------------- MODULE BlockFile -----------------------------
(***************************************************************************)
(* The block files of file_operation.h: n.ndb holds node blocks, n.fdb     *)
(* record blocks.  A block is written and read under an fcntl lock on its  *)
(* own bytes, so processes work on different lines of one file at once;    *)
(* counting the lines locks the whole file.  The kernel keeps the bytes of *)
(* a write together for nobody: a block here has two halves, which are     *)
(* written, and read, one after the other.                                 *)
(***************************************************************************)
EXTENDS Integers, Sequences

CONSTANTS Procs,
          NodeFiles, RecordFiles,   \* the numbers of .ndb and .fdb files
          MaxLine,                  \* model bound: the last line used
          Values,                   \* contents of a block
          Zero                      \* a block nobody wrote

ASSUME BlockFileAssumption ==
  /\ MaxLine \in Nat
  /\ Zero \notin Values

Files == ({"ndb"} \X NodeFiles) \cup ({"fdb"} \X RecordFiles)
LineNums == 0 .. MaxLine

VARIABLES there,   \* files that exist
          size,    \* the size of each file, in halves of a block
          half,    \* the two halves of each line
          lock,    \* the fcntl lock each process holds
          pc,      \* where each process is in its call
          call,    \* the arguments of its call
          buf      \* the halves a read has brought in

disk == <<there, size, half>>
vars == <<disk, lock, pc, call, buf>>

NoLock == [mode |-> "none", file |-> <<>>, lines |-> {}]
NoCall == [op |-> "none", file |-> <<>>, line |-> 0, value |-> Zero]
Missing == -1

Init ==
  /\ there = {}
  /\ size = [f \in Files |-> 0]
  /\ half = [f \in Files |-> [l \in LineNums |-> <<Zero, Zero>>]]
  /\ lock = [p \in Procs |-> NoLock]
  /\ pc = [p \in Procs |-> "idle"]
  /\ call = [p \in Procs |-> NoCall]
  /\ buf = [p \in Procs |-> <<>>]

Goto(p, from, to) == pc[p] = from /\ pc' = [pc EXCEPT ![p] = to]
Doing(p, op) == call[p].op = op

Begin(p, op, f, l, v, to) ==
  /\ Goto(p, "idle", to)
  /\ call' = [call EXCEPT ![p] = [op |-> op, file |-> f, line |-> l, value |-> v]]
  /\ buf' = [buf EXCEPT ![p] = <<>>]
  /\ UNCHANGED <<disk, lock>>

\* A call that finds no file is over at once, with this answer.
Fail(p, f, answer) ==
  /\ pc[p] = "idle"
  /\ f \notin there
  /\ buf' = [buf EXCEPT ![p] = answer]
  /\ UNCHANGED <<disk, lock, pc, call>>

Write(p, f, l, v) ==
  Begin(p, "write", f, l, v, IF f \in there THEN "lock" ELSE "create")

\* A read of a missing file leaves the caller's buffer alone.
Read(p, f, l) ==
  \/ f \in there /\ Begin(p, "read", f, l, Zero, "lock")
  \/ Fail(p, f, <<>>)

Lines(p, f) ==
  \/ f \in there /\ Begin(p, "lines", f, 0, Zero, "lock")
  \/ Fail(p, f, <<Missing>>)

WriteNodeBlock(p, n, l, v) == Write(p, <<"ndb", n>>, l, v)
ReadNodeBlock(p, n, l) == Read(p, <<"ndb", n>>, l)
NodeLinesNum(p, n) == Lines(p, <<"ndb", n>>)
WriteFileBlock(p, n, l, v) == Write(p, <<"fdb", n>>, l, v)
ReadFileBlock(p, n, l) == Read(p, <<"fdb", n>>, l)
FileLinesNum(p, n) == Lines(p, <<"fdb", n>>)

\* Create, emptying a file that somebody else has created in the meantime.
Truncate(p) ==
  LET f == call[p].file IN
  /\ Goto(p, "create", "lock")
  /\ there' = there \cup {f}
  /\ size' = [size EXCEPT ![f] = 0]
  /\ half' = [half EXCEPT ![f] = [l \in LineNums |-> <<Zero, Zero>>]]
  /\ UNCHANGED <<lock, call, buf>>

\* O_CREAT without O_EXCL and O_TRUNC.
Create(p) ==
  /\ Goto(p, "create", "lock")
  /\ there' = there \cup {call[p].file}
  /\ UNCHANGED <<size, half, lock, call, buf>>

(***************************************************************************)
(* fcntl with F_SETLKW waits while somebody else's lock conflicts.  A lock *)
(* covers the block, or to the end of the file and beyond for a count.     *)
(***************************************************************************)
Mode(p) == IF Doing(p, "write") THEN "write" ELSE "read"
Range(p) == IF Doing(p, "lines") THEN LineNums ELSE {call[p].line}

Wanted(p) == [mode |-> Mode(p), file |-> call[p].file, lines |-> Range(p)]

Conflict(a, b) ==
  /\ a.file = b.file
  /\ a.lines \cap b.lines # {}
  /\ a.mode = "write" \/ b.mode = "write"

\* Lock, without the lock when the whole file is only counted or read.
LockWritesOnly(p) ==
  /\ Goto(p, "lock", "first")
  /\ IF Mode(p) = "write"
     THEN /\ \A q \in Procs \ {p} : ~Conflict(Wanted(p), lock[q])
          /\ lock' = [lock EXCEPT ![p] = Wanted(p)]
     ELSE UNCHANGED lock
  /\ UNCHANGED <<disk, call, buf>>

Lock(p) ==
  /\ Goto(p, "lock", "first")
  /\ \A q \in Procs \ {p} : ~Conflict(Wanted(p), lock[q])
  /\ lock' = [lock EXCEPT ![p] = Wanted(p)]
  /\ UNCHANGED <<disk, call, buf>>

(***************************************************************************)
(* write, read and lseek, a half at a time.                                *)
(***************************************************************************)
\* PutHalf, with the seek one block too far.
PutBeyond(p, h) ==
  LET f == call[p].file
      end == 2 * call[p].line + 2 + h
  IN /\ half' = [half EXCEPT ![f][call[p].line][h] = call[p].value]
     /\ size' = [size EXCEPT ![f] = IF end <= @ THEN @ ELSE end]
     /\ UNCHANGED <<there, lock, call, buf>>

PutHalf(p, h) ==
  LET f == call[p].file
      end == 2 * call[p].line + h
  IN /\ half' = [half EXCEPT ![f][call[p].line][h] = call[p].value]
     /\ size' = [size EXCEPT ![f] = IF end <= @ THEN @ ELSE end]
     /\ UNCHANGED <<there, lock, call, buf>>

WriteFirst(p) == Doing(p, "write") /\ Goto(p, "first", "second") /\ PutHalf(p, 1)
WriteSecond(p) == Doing(p, "write") /\ Goto(p, "second", "unlock") /\ PutHalf(p, 2)

\* A read at or past the end of the file brings in nothing.
ReadFirst(p) ==
  LET f == call[p].file
      l == call[p].line
  IN /\ Doing(p, "read")
     /\ IF 2 * l < size[f]
        THEN /\ Goto(p, "first", "second")
             /\ buf' = [buf EXCEPT ![p] = <<half[f][l][1]>>]
        ELSE Goto(p, "first", "unlock") /\ UNCHANGED buf
     /\ UNCHANGED <<disk, lock, call>>

ReadSecond(p) ==
  /\ Doing(p, "read")
  /\ Goto(p, "second", "unlock")
  /\ buf' = [buf EXCEPT ![p] = <<buf[p][1], half[call[p].file][call[p].line][2]>>]
  /\ UNCHANGED <<disk, lock, call>>

CountLines(p) ==
  /\ Doing(p, "lines")
  /\ Goto(p, "first", "unlock")
  /\ buf' = [buf EXCEPT ![p] = <<size[call[p].file] \div 2>>]
  /\ UNCHANGED <<disk, lock, call>>

\* Unlock, neither unlocking nor closing.
LeaveLocked(p) ==
  /\ Goto(p, "unlock", "idle")
  /\ call' = [call EXCEPT ![p] = NoCall]
  /\ UNCHANGED <<disk, lock, buf>>

\* F_UNLCK and close.
Unlock(p) ==
  /\ Goto(p, "unlock", "idle")
  /\ lock' = [lock EXCEPT ![p] = NoLock]
  /\ call' = [call EXCEPT ![p] = NoCall]
  /\ UNCHANGED <<disk, buf>>

\* A process is killed between two system calls; the kernel drops its lock.
Kill(p) ==
  /\ pc[p] \in {"create", "lock", "first", "unlock"}
  /\ pc' = [pc EXCEPT ![p] = "idle"]
  /\ lock' = [lock EXCEPT ![p] = NoLock]
  /\ call' = [call EXCEPT ![p] = NoCall]
  /\ buf' = [buf EXCEPT ![p] = <<>>]
  /\ UNCHANGED disk

Call(p) ==
  \/ \E n \in NodeFiles :
       \/ \E l \in LineNums :
            \/ \E v \in Values : WriteNodeBlock(p, n, l, v)
            \/ ReadNodeBlock(p, n, l)
       \/ NodeLinesNum(p, n)
  \/ \E n \in RecordFiles :
       \/ \E l \in LineNums :
            \/ \E v \in Values : WriteFileBlock(p, n, l, v)
            \/ ReadFileBlock(p, n, l)
       \/ FileLinesNum(p, n)

Step(p) ==
  \/ Create(p) \/ Lock(p)
  \/ WriteFirst(p) \/ WriteSecond(p)
  \/ ReadFirst(p) \/ ReadSecond(p)
  \/ CountLines(p)
  \/ Unlock(p)

Next == \E p \in Procs : Call(p) \/ Step(p) \/ Kill(p)

Spec == Init /\ [][Next]_vars

\* A process inside a call keeps going, unless it waits for a lock.
FairSpec == Spec /\ \A p \in Procs : WF_vars(Step(p))

(***************************************************************************)
(* Properties                                                              *)
(***************************************************************************)
Halves == Values \cup {Zero}
Locks == [mode : {"none", "read", "write"}, file : Files \cup {<<>>},
          lines : SUBSET LineNums]
Calls == [op : {"none", "write", "read", "lines"}, file : Files \cup {<<>>},
          line : LineNums, value : Halves]

TypeOK ==
  /\ there \in SUBSET Files
  /\ size \in [Files -> 0 .. 2 * (MaxLine + 1)]
  /\ half \in [Files -> [LineNums -> Halves \X Halves]]
  /\ lock \in [Procs -> Locks]
  /\ pc \in [Procs -> {"idle", "create", "lock", "first", "second", "unlock"}]
  /\ call \in [Procs -> Calls]
  /\ buf \in [Procs -> Seq(Halves \cup Int)]

\* A block that was read is one that was written: its halves agree, whoever
\* wrote this line or another meanwhile.
ReadIsWhole ==
  \A p \in Procs : Len(buf[p]) = 2 => buf[p][1] = buf[p][2]

\* The files are blocks that are read, written and counted in one step.  A
\* write takes effect with its first half: nobody sees the block before the
\* second.
Whole(b) == IF Len(b) = 2 /\ b[1] = b[2] THEN <<b[1]>> ELSE b

Store == INSTANCE BlockStore WITH
  length <- [f \in Files |-> (size[f] + 1) \div 2],
  block <- [f \in Files |-> [l \in LineNums |-> half[f][l][1]]],
  answer <- [p \in Procs |-> IF pc[p] \in {"idle", "unlock"} THEN Whole(buf[p])
                             ELSE <<>>]

StoreSpec == Store!Spec

\* Every lock is given back, so nobody waits for one that is never free.
LockIsReleased ==
  \A p \in Procs : lock[p].mode # "none" ~> lock[p].mode = "none"
=============================================================================
