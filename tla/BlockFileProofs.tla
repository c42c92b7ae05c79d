-------------------------- MODULE BlockFileProofs --------------------------
(***************************************************************************)
(* Proofs about BlockFile, for any processes, files, lines and contents.   *)
(*                                                                         *)
(* A process at work on a file holds the lock it asked for (Holding), two  *)
(* locks that are held at once do not conflict (Exclusive), so a block     *)
(* whose halves differ, and an odd file size, are the business of the      *)
(* process that is writing them (Even), and what a reader has of a block   *)
(* is still its first half (Fresh).                                        *)
(*                                                                         *)
(* The second part is the refinement: BlockFile implements BlockStore.  A  *)
(* write takes effect with its first half, a read and a count answer with  *)
(* the step that completes them.                                           *)
(***************************************************************************)
EXTENDS BlockFile, TLAPS

AtWork == {"first", "second", "unlock"}

Holding ==
  \A p \in Procs :
    /\ pc[p] # "idle" => /\ call[p].file \in Files
                         /\ call[p].op \in {"write", "read", "lines"}
                         /\ call[p].op = "write" => call[p].value \in Values
    /\ pc[p] \in AtWork => lock[p] = Wanted(p)
    /\ pc[p] \in AtWork \cup {"lock"} => call[p].file \in there
    /\ pc[p] \notin AtWork => lock[p] = NoLock
    /\ pc[p] = "create" => Doing(p, "write")
    /\ pc[p] = "second" => ~Doing(p, "lines")
    /\ pc[p] = "second" /\ Doing(p, "read") => Len(buf[p]) = 1

Exclusive ==
  \A p, q \in Procs : p # q => ~Conflict(lock[p], lock[q])

Writing(p, f, l) ==
  /\ pc[p] = "second" /\ Doing(p, "write")
  /\ call[p].file = f /\ call[p].line = l

\* Halves differ, and a size is odd, only under a writer.
Even ==
  \A f \in Files :
    /\ \A l \in LineNums :
         half[f][l][1] # half[f][l][2] => \E p \in Procs : Writing(p, f, l)
    /\ size[f] % 2 = 0
         \/ \E p \in Procs, l \in LineNums : Writing(p, f, l) /\ size[f] = 2 * l + 1
    /\ \A p \in Procs, l \in LineNums :
         Writing(p, f, l) => 2 * l < size[f] /\ half[f][l][1] = call[p].value

\* What a call has read so far.
Fresh ==
  \A p \in Procs :
    /\ pc[p] \in {"create", "lock", "first"} => buf[p] = <<>>
    /\ pc[p] = "second" /\ Doing(p, "write") => buf[p] = <<>>
    /\ pc[p] = "second" /\ Doing(p, "read") =>
         /\ buf[p] = <<half[call[p].file][call[p].line][1]>>
         /\ 2 * call[p].line < size[call[p].file]

\* The inductive invariant, in two parts: who holds what, and what is on disk.
Control == TypeOK /\ Holding /\ Exclusive
Contents == Even /\ Fresh /\ ReadIsWhole
IInv == Control /\ Contents

-----------------------------------------------------------------------------
(***************************************************************************)
(* Control: locks.                                                         *)
(***************************************************************************)
LEMMA ControlInit == Init => Control
  BY BlockFileAssumption DEF Init, Control, TypeOK, Holding, Exclusive, AtWork,
     Conflict, NoLock, NoCall, Locks, Calls, Halves, LineNums, Doing

\* Who writes a line is alone on it, and nobody counts the file meanwhile.
LEMMA Apart ==
  ASSUME Control, NEW p \in Procs, NEW q \in Procs, p # q,
         pc[p] \in AtWork, pc[q] \in AtWork, Doing(p, "write"),
         call[p].file = call[q].file
  PROVE  ~Doing(q, "lines") /\ call[q].line # call[p].line
<1>1. lock[p] = Wanted(p) /\ lock[q] = Wanted(q) /\ ~Conflict(lock[p], lock[q])
  BY DEF Control, Holding, Exclusive
<1>2. call[p].line \in LineNums /\ call[q].line \in LineNums
  BY DEF Control, TypeOK, Calls
<1>3. Range(p) = {call[p].line}
  BY DEF Doing, Range
<1>4. Range(p) \cap Range(q) = {}
  BY <1>1 DEF Wanted, Conflict, Mode
<1> QED
  BY <1>2, <1>3, <1>4 DEF Range

\* A call starts: it names a file, and holds no lock yet.
LEMMA CallStep ==
  ASSUME Control, NEW p \in Procs, Call(p)
  PROVE  /\ UNCHANGED <<disk, lock>>
         /\ \E op \in {"write", "read", "lines"}, f \in Files, l \in LineNums,
               v \in Halves :
              \/ /\ Begin(p, op, f, l, v,
                       IF f \in there THEN "lock" ELSE "create")
                 /\ op # "write" => f \in there
                 /\ op = "write" => v \in Values
              \/ /\ op \in {"read", "lines"}
                 /\ Fail(p, f, IF op = "lines" THEN <<Missing>> ELSE <<>>)
<1> USE BlockFileAssumption DEF LineNums, Halves, Files
<1>0. 0 \in LineNums
  OBVIOUS
<1>1. ASSUME NEW f \in Files, NEW l \in LineNums, NEW v \in Values,
             Write(p, f, l, v)
      PROVE  Begin(p, "write", f, l, v, IF f \in there THEN "lock" ELSE "create")
  BY <1>1 DEF Write
<1>2. ASSUME NEW f \in Files, NEW l \in LineNums, Read(p, f, l)
      PROVE  \/ /\ f \in there
                /\ Begin(p, "read", f, l, Zero, IF f \in there THEN "lock" ELSE "create")
             \/ Fail(p, f, <<>>)
  BY <1>2 DEF Read
<1>3. ASSUME NEW f \in Files, Lines(p, f)
      PROVE  \/ /\ f \in there
                /\ Begin(p, "lines", f, 0, Zero, IF f \in there THEN "lock" ELSE "create")
             \/ Fail(p, f, <<Missing>>)
  BY <1>3 DEF Lines
<1>4. \E f \in Files :
        \/ \E l \in LineNums :
             \/ \E v \in Values : Write(p, f, l, v)
             \/ Read(p, f, l)
        \/ Lines(p, f)
  BY DEF Call, WriteNodeBlock, ReadNodeBlock, NodeLinesNum, WriteFileBlock,
     ReadFileBlock, FileLinesNum
<1>5. PICK f \in Files :
        \/ \E l \in LineNums :
             \/ \E v \in Values : Write(p, f, l, v)
             \/ Read(p, f, l)
        \/ Lines(p, f)
  BY <1>4
<1>6. CASE \E l \in LineNums, v \in Values : Write(p, f, l, v)
  BY <1>1, <1>6 DEF Begin
<1>7. CASE \E l \in LineNums : Read(p, f, l)
  BY <1>2, <1>7 DEF Begin, Fail
<1>8. CASE Lines(p, f)
  BY <1>0, <1>3, <1>8 DEF Begin, Fail
<1> QED
  BY <1>5, <1>6, <1>7, <1>8

LEMMA HalvesAndSize ==
  ASSUME Control, NEW p \in Procs, NEW h \in {1, 2}, Doing(p, "write"),
         pc[p] # "idle", PutHalf(p, h)
  PROVE  LET f == call[p].file
             l == call[p].line
         IN /\ f \in Files /\ l \in LineNums
            /\ size' \in [Files -> 0 .. 2 * (MaxLine + 1)]
            /\ half' \in [Files -> [LineNums -> Halves \X Halves]]
            /\ half'[f][l][h] = call[p].value
            /\ \A g \in Files, k \in LineNums, i \in {1, 2} :
                 <<g, k, i>> # <<f, l, h>> => half'[g][k][i] = half[g][k][i]
            /\ size'[f] = IF 2 * l + h <= size[f] THEN size[f] ELSE 2 * l + h
            /\ \A g \in Files : g # f => size'[g] = size[g]
<1> DEFINE f == call[p].file
           l == call[p].line
           v == call[p].value
<1>1. f \in Files /\ l \in LineNums /\ v \in Halves
  BY DEF Control, Holding, TypeOK, Calls
<1>2. size' = [size EXCEPT ![f] = IF 2 * l + h <= size[f] THEN size[f] ELSE 2 * l + h]
  BY DEF PutHalf
<1>3. half' = [half EXCEPT ![f][l][h] = v]
  BY DEF PutHalf
<1>4. 2 * l + h \in 0 .. 2 * (MaxLine + 1)
  BY <1>1, BlockFileAssumption DEF LineNums
<1>5. half[f][l] \in Halves \X Halves
  BY <1>1 DEF Control, TypeOK
<1>6. [half[f][l] EXCEPT ![h] = v] \in Halves \X Halves
  BY <1>1, <1>5
<1>7. half' = [half EXCEPT ![f] = [half[f] EXCEPT ![l] = [half[f][l] EXCEPT ![h] = v]]]
  BY <1>3
<1>8. size' \in [Files -> 0 .. 2 * (MaxLine + 1)]
  BY <1>1, <1>2, <1>4 DEF Control, TypeOK
<1>9. half' \in [Files -> [LineNums -> Halves \X Halves]]
  BY <1>1, <1>6, <1>7 DEF Control, TypeOK
<1>10. half'[f][l] = [half[f][l] EXCEPT ![h] = v]
  BY <1>1, <1>7 DEF Control, TypeOK
<1>11. \A g \in Files, k \in LineNums :
         <<g, k>> # <<f, l>> => half'[g][k] = half[g][k]
  BY <1>1, <1>7 DEF Control, TypeOK
<1>12. half'[f][l][h] = v /\ \A i \in {1, 2} : i # h => half'[f][l][i] = half[f][l][i]
  BY <1>5, <1>10
<1> QED
  BY <1>1, <1>2, <1>8, <1>9, <1>11, <1>12 DEF Control, TypeOK

\* A step that neither locks nor unlocks, and keeps the call, keeps Control.
LEMMA SameLocks ==
  ASSUME Control, NEW p \in Procs, NEW from, NEW to, Goto(p, from, to),
         from \in AtWork <=> to \in AtWork, from # "idle",
         to \in {"lock", "second", "unlock"}, to = "second" => ~Doing(p, "lines"),
         UNCHANGED <<lock, call>>, TypeOK', there \subseteq there',
         \A q \in Procs : q # p => buf'[q] = buf[q],
         to = "second" /\ Doing(p, "read") => Len(buf'[p]) = 1,
         to = "lock" => call[p].file \in there'
  PROVE  Control'
<1>1. Holding'
  BY DEF Control, Holding, TypeOK, Goto, AtWork, Wanted, Mode, Range, Doing
<1>2. Exclusive'
  BY DEF Control, Exclusive
<1> QED
  BY <1>1, <1>2 DEF Control

LEMMA ControlStep == Control /\ [Next]_vars => Control'
<1> SUFFICES ASSUME Control, [Next]_vars PROVE Control'
  OBVIOUS
<1> USE BlockFileAssumption
<1>1. ASSUME NEW p \in Procs, Call(p) PROVE Control'
  <2>1. PICK op \in {"write", "read", "lines"}, f \in Files, l \in LineNums,
             v \in Halves :
          \/ /\ Begin(p, op, f, l, v, IF f \in there THEN "lock" ELSE "create")
             /\ op # "write" => f \in there
             /\ op = "write" => v \in Values
          \/ /\ op \in {"read", "lines"}
             /\ Fail(p, f, IF op = "lines" THEN <<Missing>> ELSE <<>>)
    BY <1>1, CallStep
  <2>2. UNCHANGED <<disk, lock>>
    BY <1>1, CallStep
  <2>3. CASE /\ Begin(p, op, f, l, v, IF f \in there THEN "lock" ELSE "create")
             /\ op # "write" => f \in there
             /\ op = "write" => v \in Values
    <3>1. TypeOK'
      BY <2>2, <2>3 DEF Control, TypeOK, Begin, Goto, Calls, Locks, disk
    <3>2. Holding'
      BY <2>2, <2>3 DEF Control, TypeOK, Holding, Begin, Goto, AtWork, Wanted,
         Mode, Range, Doing, disk
    <3>3. Exclusive'
      BY <2>2 DEF Control, Exclusive
    <3> QED
      BY <3>1, <3>2, <3>3 DEF Control
  <2>4. CASE Fail(p, f, IF op = "lines" THEN <<Missing>> ELSE <<>>)
    <3>1. <<Missing>> \in Seq(Halves \cup Int) /\ <<>> \in Seq(Halves \cup Int)
      BY DEF Missing
    <3>2. TypeOK'
      BY <2>4, <3>1 DEF Control, TypeOK, Fail, disk
    <3>3. Holding' /\ Exclusive'
      BY <2>4 DEF Control, Holding, Exclusive, Fail, disk, Wanted, Mode, Range, Doing
    <3> QED
      BY <3>2, <3>3 DEF Control
  <2> QED
    BY <2>1, <2>3, <2>4
<1>2. ASSUME NEW p \in Procs, Create(p) PROVE Control'
  <2>1. call[p].file \in Files
    BY <1>2 DEF Control, Holding, Create, Goto
  <2>2. TypeOK'
    BY <1>2, <2>1 DEF Control, TypeOK, Create, Goto
  <2> QED
    BY <1>2, <2>2, SameLocks DEF Create, AtWork
<1>3. ASSUME NEW p \in Procs, Lock(p) PROVE Control'
  <2>1. Wanted(p) \in Locks
    BY <1>3 DEF Control, TypeOK, Holding, Lock, Goto, Wanted, Mode, Range, Doing,
       Locks, Calls
  <2>2. TypeOK'
    BY <1>3, <2>1 DEF Control, TypeOK, Lock, Goto, disk
  <2>3. Holding'
    BY <1>3 DEF Control, TypeOK, Holding, Lock, Goto, AtWork, Wanted, Mode, Range,
       Doing, disk
  <2>4. \A q \in Procs : q # p => ~Conflict(lock'[p], lock'[q]) /\ ~Conflict(lock'[q], lock'[p])
    BY <1>3 DEF Control, TypeOK, Lock, Conflict
  <2>5. \A q, r \in Procs : q # p /\ r # p => lock'[q] = lock[q] /\ lock'[r] = lock[r]
    BY <1>3 DEF Lock
  <2>6. Exclusive'
    BY <2>4, <2>5 DEF Control, Exclusive
  <2> QED
    BY <2>2, <2>3, <2>6 DEF Control
<1>4. ASSUME NEW p \in Procs, NEW h \in {1, 2}, PutHalf(p, h), Doing(p, "write"),
             NEW from \in {"first", "second"}, NEW to \in {"second", "unlock"},
             Goto(p, from, to)
      PROVE  Control'
  <2>1. pc[p] # "idle"
    BY <1>4 DEF Goto
  <2>2. TypeOK'
    BY <1>4, <2>1, HalvesAndSize DEF Control, TypeOK, PutHalf, Goto
  <2> QED
    BY <1>4, <2>2, SameLocks DEF PutHalf, AtWork, Doing
<1>5. ASSUME NEW p \in Procs, ReadFirst(p) \/ ReadSecond(p) \/ CountLines(p)
      PROVE  Control'
  <2> DEFINE f == call[p].file
             l == call[p].line
  <2>1. f \in Files /\ l \in LineNums
    BY <1>5 DEF Control, TypeOK, Holding, Calls, ReadFirst, ReadSecond, CountLines, Goto
  <2>2. /\ half[f][l][1] \in Halves /\ half[f][l][2] \in Halves
        /\ size[f] \div 2 \in Int
    BY <2>1 DEF Control, TypeOK
  <2>3. CASE ReadFirst(p)
    <3>1. PICK to \in {"second", "unlock"} : Goto(p, "first", to)
      BY <2>3 DEF ReadFirst
    <3>2. TypeOK'
      <4>1. <<half[f][l][1]>> \in Seq(Halves \cup Int)
        BY <2>2
      <4>2. buf' = buf \/ buf' = [buf EXCEPT ![p] = <<half[f][l][1]>>]
        BY <2>3 DEF ReadFirst
      <4>3. buf' \in [Procs -> Seq(Halves \cup Int)]
        BY <4>1, <4>2 DEF Control, TypeOK
      <4> QED
        BY <2>3, <3>1, <4>3 DEF Control, TypeOK, ReadFirst, Goto, disk
    <3>3. \A q \in Procs : q # p => buf'[q] = buf[q]
      BY <2>3 DEF Control, TypeOK, ReadFirst
    <3>4. to = "second" => Len(buf'[p]) = 1
      BY <2>3, <3>1 DEF Control, TypeOK, ReadFirst, Goto
    <3> QED
      BY <2>3, <3>1, <3>2, <3>3, <3>4, SameLocks DEF ReadFirst, AtWork, Doing, disk
  <2>4. CASE ReadSecond(p)
    <3>1. buf[p] \in Seq(Halves \cup Int) /\ Len(buf[p]) = 1
      BY <2>4 DEF Control, TypeOK, Holding, ReadSecond, Goto
    <3>2. buf[p][1] \in Halves \cup Int
      BY <3>1
    <3>3. TypeOK'
      BY <2>2, <2>4, <3>2 DEF Control, TypeOK, ReadSecond, Goto, disk
    <3>4. \A q \in Procs : q # p => buf'[q] = buf[q]
      BY <2>4 DEF Control, TypeOK, ReadSecond
    <3> QED
      BY <2>4, <3>3, <3>4, SameLocks DEF ReadSecond, AtWork, Doing, disk
  <2>5. CASE CountLines(p)
    <3>1. TypeOK'
      BY <2>2, <2>5 DEF Control, TypeOK, CountLines, Goto, disk
    <3>2. \A q \in Procs : q # p => buf'[q] = buf[q]
      BY <2>5 DEF Control, TypeOK, CountLines
    <3> QED
      BY <2>5, <3>1, <3>2, SameLocks DEF CountLines, AtWork, Doing, disk
  <2> QED
    BY <1>5, <2>3, <2>4, <2>5
<1>6. ASSUME NEW p \in Procs, Unlock(p) \/ Kill(p) PROVE Control'
  <2>1. NoLock \in Locks /\ NoCall \in Calls /\ <<>> \in Seq(Halves \cup Int)
    BY DEF NoLock, NoCall, Locks, Calls, LineNums, Halves
  <2>2. TypeOK'
    BY <1>6, <2>1 DEF Control, TypeOK, Unlock, Kill, Goto, disk
  <2>3. /\ lock' = [lock EXCEPT ![p] = NoLock]
        /\ call' = [call EXCEPT ![p] = NoCall]
        /\ pc' = [pc EXCEPT ![p] = "idle"]
        /\ there' = there
        /\ \A q \in Procs : q # p => buf'[q] = buf[q]
    BY <1>6 DEF Control, TypeOK, Unlock, Kill, Goto, disk
  <2>4. Holding'
    BY <2>3 DEF Control, TypeOK, Holding, AtWork, Wanted, Mode, Range, Doing
  <2>5. ASSUME NEW q \in Procs PROVE ~Conflict(NoLock, lock[q]) /\ ~Conflict(lock[q], NoLock)
    BY DEF NoLock, Conflict
  <2>6. /\ lock'[p] = NoLock
        /\ \A q \in Procs : q # p => lock'[q] = lock[q]
    BY <2>3 DEF Control, TypeOK
  <2>7. Exclusive'
    BY <2>5, <2>6 DEF Control, Exclusive
  <2> QED
    BY <2>2, <2>4, <2>7 DEF Control
<1>7. CASE UNCHANGED vars
  BY <1>7 DEF vars, disk, Control, TypeOK, Holding, Exclusive, Wanted, Mode, Range, Doing
<1> QED
  BY <1>1, <1>2, <1>3, <1>4, <1>5, <1>6, <1>7 DEF Next, Step, WriteFirst, WriteSecond

-----------------------------------------------------------------------------
(***************************************************************************)
(* Contents: blocks, sizes and what readers have of them.                  *)
(***************************************************************************)
LEMMA ContentsInit == Init => Contents
<1> SUFFICES ASSUME Init PROVE Contents
  OBVIOUS
<1>1. \A p \in Procs, f \in Files, l \in LineNums : ~Writing(p, f, l)
  BY DEF Init, Writing
<1>2. Even
  BY <1>1 DEF Init, Even
<1> QED
  BY <1>2 DEF Init, Contents, Fresh, ReadIsWhole

\* A step that leaves the blocks alone and starts or ends no write of one.
LEMMA EvenKept ==
  ASSUME Control, Even, UNCHANGED <<size, half>>,
         \A q \in Procs : \/ pc'[q] = pc[q] /\ call'[q] = call[q]
                          \/ /\ pc[q] # "second" \/ ~Doing(q, "write")
                             /\ pc'[q] # "second" \/ ~Doing(q, "write")'
  PROVE  Even'
<1>1. \A q \in Procs, f \in Files, l \in LineNums :
        /\ Writing(q, f, l)' <=> Writing(q, f, l)
        /\ Writing(q, f, l) => call'[q] = call[q]
  BY DEF Writing, Doing
<1> QED
  BY <1>1 DEF Even

\* What holds of every other process when p takes a step.
LEMMA OthersRest ==
  ASSUME Control, NEW p \in Procs,
         \/ Call(p) \/ Step(p) \/ Kill(p)
  PROVE  \A q \in Procs : q # p =>
           pc'[q] = pc[q] /\ call'[q] = call[q] /\ buf'[q] = buf[q]
<1> USE DEF Control, TypeOK
<1>1. CASE Call(p)
  <2>1. \/ \E op, f, l, v, to : Begin(p, op, f, l, v, to)
        \/ \E f, answer : Fail(p, f, answer)
    BY <1>1, CallStep
  <2> QED
    BY <2>1 DEF Begin, Fail, Goto
<1>2. CASE Create(p) \/ Lock(p) \/ WriteFirst(p) \/ WriteSecond(p)
  BY <1>2 DEF Create, Lock, WriteFirst, WriteSecond, PutHalf, Goto
<1>3. CASE ReadFirst(p) \/ ReadSecond(p) \/ CountLines(p)
  BY <1>3 DEF ReadFirst, ReadSecond, CountLines, Goto
<1>4. CASE Unlock(p) \/ Kill(p)
  BY <1>4 DEF Unlock, Kill, Goto
<1> QED
  BY <1>1, <1>2, <1>3, <1>4 DEF Step

\* The first half is written: the block is p's until the second one is.
LEMMA WriteFirstContents ==
  ASSUME IInv, NEW p \in Procs, WriteFirst(p)
  PROVE  Contents'
<1>0. PICK f \in Files, l \in LineNums : f = call[p].file /\ l = call[p].line
  BY DEF IInv, Control, TypeOK, Holding, Calls, WriteFirst, Goto
<1>1. /\ pc[p] = "first" /\ Doing(p, "write") /\ PutHalf(p, 1)
      /\ pc' = [pc EXCEPT ![p] = "second"] /\ UNCHANGED <<call, buf>>
  BY DEF WriteFirst, Goto, PutHalf
<1>2. /\ half'[f][l][1] = call[p].value
      /\ \A g \in Files, k \in LineNums, i \in {1, 2} :
           <<g, k, i>> # <<f, l, 1>> => half'[g][k][i] = half[g][k][i]
      /\ size'[f] = IF 2 * l + 1 <= size[f] THEN size[f] ELSE 2 * l + 1
      /\ \A g \in Files : g # f => size'[g] = size[g]
  BY <1>0, <1>1, HalvesAndSize DEF IInv
<1>3. ASSUME NEW q \in Procs, q # p, NEW k \in LineNums,
             pc[q] = "second", call[q].file = f, call[q].line = k
      PROVE  k # l
  BY <1>0, <1>1, <1>3, Apart DEF IInv, AtWork
<1>4. /\ \A g \in Files, k \in LineNums : ~Writing(p, g, k)
      /\ Writing(p, f, l)'
      /\ \A g \in Files, k \in LineNums : Writing(p, g, k)' => g = f /\ k = l
      /\ \A q \in Procs, g \in Files, k \in LineNums : q # p =>
           (Writing(q, g, k)' <=> Writing(q, g, k))
  BY <1>0, <1>1 DEF IInv, Control, TypeOK, Writing, Doing
<1>5. size[f] \in Nat /\ l \in Nat /\ \A k \in LineNums : k \in Nat
  BY <1>2, BlockFileAssumption DEF IInv, Control, TypeOK, LineNums
<1>6. \A g \in Files : size[g] \in Nat /\ size'[g] >= size[g] /\ size'[g] \in Nat
  BY <1>2, <1>5, BlockFileAssumption DEF IInv, Control, TypeOK
<1>7. Even'
  <2> SUFFICES ASSUME NEW g \in Files
               PROVE  /\ \A k \in LineNums :
                           half'[g][k][1] # half'[g][k][2] => \E q \in Procs : Writing(q, g, k)'
                      /\ \/ size'[g] % 2 = 0
                         \/ \E q \in Procs, k \in LineNums : Writing(q, g, k)' /\ size'[g] = 2 * k + 1
                      /\ \A q \in Procs, k \in LineNums :
                           Writing(q, g, k)' => /\ 2 * k < size'[g]
                                                /\ half'[g][k][1] = call'[q].value
    BY DEF Even
  <2>1. ASSUME NEW k \in LineNums, half'[g][k][1] # half'[g][k][2]
        PROVE  \E q \in Procs : Writing(q, g, k)'
    <3>1. CASE g = f /\ k = l
      BY <1>4, <3>1
    <3>2. CASE ~(g = f /\ k = l)
      <4>1. half[g][k][1] # half[g][k][2]
        BY <1>2, <2>1, <3>2
      <4>2. PICK q \in Procs : Writing(q, g, k)
        BY <4>1 DEF IInv, Contents, Even
      <4> QED
        BY <1>4, <4>2
    <3> QED
      BY <3>1, <3>2
  <2>2. \/ size'[g] % 2 = 0
        \/ \E q \in Procs, k \in LineNums : Writing(q, g, k)' /\ size'[g] = 2 * k + 1
    <3>1. CASE size'[g] = size[g]
      BY <1>4, <3>1 DEF IInv, Contents, Even
    <3>2. CASE g = f /\ size'[g] = 2 * l + 1
      BY <1>2, <1>4, <3>2
    <3> QED
      BY <1>2, <3>1, <3>2
  <2>3. ASSUME NEW q \in Procs, NEW k \in LineNums, Writing(q, g, k)'
        PROVE  2 * k < size'[g] /\ half'[g][k][1] = call'[q].value
    <3>1. CASE q = p
      BY <1>0, <1>1, <1>2, <1>4, <1>5, <2>3, <3>1
    <3>2. CASE q # p
      <4>1. Writing(q, g, k) /\ ~(g = f /\ k = l)
        BY <1>3, <1>4, <2>3, <3>2 DEF Writing
      <4>2. 2 * k < size[g] /\ half[g][k][1] = call[q].value
        BY <4>1 DEF IInv, Contents, Even
      <4>3. half'[g][k][1] = half[g][k][1]
        BY <1>2, <4>1
      <4>4. size'[g] >= size[g] /\ size[g] \in Nat /\ size'[g] \in Nat /\ k \in Nat
        BY <1>5, <1>6
      <4> QED
        BY <1>1, <4>2, <4>3, <4>4
    <3> QED
      BY <3>1, <3>2
  <2> QED
    BY <2>1, <2>2, <2>3
<1>8. Fresh'
  <2>1. ASSUME NEW q \in Procs, q # p, pc[q] = "second", Doing(q, "read")
        PROVE  /\ half'[call[q].file][call[q].line][1] = half[call[q].file][call[q].line][1]
               /\ size'[call[q].file] >= size[call[q].file]
               /\ size[call[q].file] \in Nat /\ size'[call[q].file] \in Nat
               /\ call[q].line \in Nat
    <3>1. call[q].file \in Files /\ call[q].line \in LineNums
      BY <2>1 DEF IInv, Control, TypeOK, Holding, Calls
    <3> QED
      BY <1>2, <1>3, <1>5, <1>6, <2>1, <3>1
  <2> SUFFICES ASSUME NEW q \in Procs
               PROVE  /\ pc'[q] \in {"create", "lock", "first"} => buf'[q] = <<>>
                      /\ pc'[q] = "second" /\ Doing(q, "write")' => buf'[q] = <<>>
                      /\ pc'[q] = "second" /\ Doing(q, "read")' =>
                           /\ buf'[q] = <<half'[call'[q].file][call'[q].line][1]>>
                           /\ 2 * call'[q].line < size'[call'[q].file]
    BY DEF Fresh
  <2>2. CASE q = p
    BY <1>1, <2>2 DEF IInv, Control, TypeOK, Contents, Fresh, Doing
  <2>3. CASE q # p
    <3>1. pc'[q] = pc[q] /\ call'[q] = call[q] /\ buf'[q] = buf[q]
      BY <1>1, <2>3 DEF IInv, Control, TypeOK
    <3> QED
      BY <2>1, <2>3, <3>1 DEF IInv, Contents, Fresh, Doing
  <2> QED
    BY <2>2, <2>3
<1>9. ReadIsWhole'
  BY <1>1 DEF IInv, Contents, ReadIsWhole
<1> QED
  BY <1>7, <1>8, <1>9 DEF Contents

\* The second half is written: the block is whole again.
LEMMA WriteSecondContents ==
  ASSUME IInv, NEW p \in Procs, WriteSecond(p)
  PROVE  Contents'
<1>0. PICK f \in Files, l \in LineNums : f = call[p].file /\ l = call[p].line
  BY DEF IInv, Control, TypeOK, Holding, Calls, WriteSecond, Goto
<1>1. /\ pc[p] = "second" /\ Doing(p, "write") /\ PutHalf(p, 2)
      /\ pc' = [pc EXCEPT ![p] = "unlock"] /\ UNCHANGED <<call, buf>>
  BY DEF WriteSecond, Goto, PutHalf
<1>2. /\ half'[f][l][2] = call[p].value
      /\ \A g \in Files, k \in LineNums, i \in {1, 2} :
           <<g, k, i>> # <<f, l, 2>> => half'[g][k][i] = half[g][k][i]
      /\ size'[f] = IF 2 * l + 2 <= size[f] THEN size[f] ELSE 2 * l + 2
      /\ \A g \in Files : g # f => size'[g] = size[g]
  BY <1>0, <1>1, HalvesAndSize DEF IInv
<1>3. Writing(p, f, l) /\ \A g \in Files, k \in LineNums : Writing(p, g, k) => g = f /\ k = l
  BY <1>0, <1>1 DEF Writing
<1>4. /\ \A g \in Files, k \in LineNums : ~Writing(p, g, k)'
      /\ \A q \in Procs, g \in Files, k \in LineNums : q # p =>
           (Writing(q, g, k)' <=> Writing(q, g, k))
  BY <1>1 DEF IInv, Control, TypeOK, Writing, Doing
<1>5. size[f] \in Nat /\ l \in Nat /\ \A k \in LineNums : k \in Nat
  BY BlockFileAssumption DEF IInv, Control, TypeOK, LineNums
<1>6. \A g \in Files : size[g] \in Nat /\ size'[g] >= size[g] /\ size'[g] \in Nat
  <2>1. ASSUME NEW g \in Files PROVE size[g] \in Nat
    BY BlockFileAssumption DEF IInv, Control, TypeOK
  <2> QED
    BY <1>2, <1>5, <2>1
<1>7. half[f][l][1] = call[p].value /\ half'[f][l][1] = half'[f][l][2]
  <2>1. half[f][l][1] = call[p].value
    BY <1>3 DEF IInv, Contents, Even
  <2> QED
    BY <1>2, <2>1
<1>8. \A g \in Files, k \in LineNums : half'[g][k][1] = half[g][k][1]
  <2>1. ASSUME NEW g \in Files, NEW k \in LineNums PROVE half'[g][k][1] = half[g][k][1]
    <3>1. <<g, k, 1>> # <<f, l, 2>>
      OBVIOUS
    <3> QED
      BY <1>2, <3>1
  <2> QED
    BY <2>1
<1>9. Even'
  <2> SUFFICES ASSUME NEW g \in Files
               PROVE  /\ \A k \in LineNums :
                           half'[g][k][1] # half'[g][k][2] => \E q \in Procs : Writing(q, g, k)'
                      /\ \/ size'[g] % 2 = 0
                         \/ \E q \in Procs, k \in LineNums : Writing(q, g, k)' /\ size'[g] = 2 * k + 1
                      /\ \A q \in Procs, k \in LineNums :
                           Writing(q, g, k)' => /\ 2 * k < size'[g]
                                                /\ half'[g][k][1] = call'[q].value
    BY DEF Even
  <2>1. ASSUME NEW k \in LineNums, half'[g][k][1] # half'[g][k][2]
        PROVE  \E q \in Procs : Writing(q, g, k)'
    <3>1. ~(g = f /\ k = l)
      BY <1>7, <2>1
    <3>2. half[g][k][1] # half[g][k][2]
      BY <1>2, <2>1, <3>1
    <3>3. PICK q \in Procs : Writing(q, g, k)
      BY <3>2 DEF IInv, Contents, Even
    <3> QED
      BY <1>3, <1>4, <3>1, <3>3
  <2>2. \/ size'[g] % 2 = 0
        \/ \E q \in Procs, k \in LineNums : Writing(q, g, k)' /\ size'[g] = 2 * k + 1
    <3>1. CASE size'[g] = size[g] /\ size[g] % 2 = 0
      BY <3>1
    <3>2. CASE size'[g] = size[g] /\ size[g] % 2 # 0
      <4>1. PICK q \in Procs, k \in LineNums : Writing(q, g, k) /\ size[g] = 2 * k + 1
        BY <3>2 DEF IInv, Contents, Even
      <4>2. q # p
        BY <1>2, <1>3, <1>5, <3>2, <4>1
      <4> QED
        BY <1>4, <3>2, <4>1, <4>2
    <3>3. CASE size'[g] = 2 * l + 2
      BY <1>5, <3>3
    <3> QED
      BY <1>2, <3>1, <3>2, <3>3
  <2>3. ASSUME NEW q \in Procs, NEW k \in LineNums, Writing(q, g, k)'
        PROVE  2 * k < size'[g] /\ half'[g][k][1] = call'[q].value
    <3>1. Writing(q, g, k)
      BY <1>4, <2>3
    <3>2. 2 * k < size[g] /\ half[g][k][1] = call[q].value
      BY <3>1 DEF IInv, Contents, Even
    <3>3. size'[g] >= size[g] /\ size[g] \in Nat /\ size'[g] \in Nat /\ k \in Nat
      BY <1>5, <1>6
    <3> QED
      BY <1>1, <1>8, <3>2, <3>3
  <2> QED
    BY <2>1, <2>2, <2>3
<1>10. Fresh'
  <2> SUFFICES ASSUME NEW q \in Procs
               PROVE  /\ pc'[q] \in {"create", "lock", "first"} => buf'[q] = <<>>
                      /\ pc'[q] = "second" /\ Doing(q, "write")' => buf'[q] = <<>>
                      /\ pc'[q] = "second" /\ Doing(q, "read")' =>
                           /\ buf'[q] = <<half'[call'[q].file][call'[q].line][1]>>
                           /\ 2 * call'[q].line < size'[call'[q].file]
    BY DEF Fresh
  <2>1. CASE q = p
    BY <1>1, <2>1 DEF IInv, Control, TypeOK
  <2>2. CASE q # p
    <3>1. pc'[q] = pc[q] /\ call'[q] = call[q] /\ buf'[q] = buf[q]
      BY <1>1, <2>2 DEF IInv, Control, TypeOK
    <3>2. pc[q] # "idle" => call[q].file \in Files /\ call[q].line \in LineNums
      BY DEF IInv, Control, TypeOK, Holding, Calls
    <3>3. ASSUME pc[q] = "second", Doing(q, "read")
          PROVE  /\ half'[call[q].file][call[q].line][1] = half[call[q].file][call[q].line][1]
                 /\ 2 * call[q].line < size[call[q].file] => 2 * call[q].line < size'[call[q].file]
      <4>1. call[q].file \in Files /\ call[q].line \in LineNums
        BY <3>2, <3>3
      <4>2. /\ size[call[q].file] \in Nat /\ size'[call[q].file] \in Nat
            /\ size'[call[q].file] >= size[call[q].file] /\ call[q].line \in Nat
        BY <1>5, <1>6, <4>1
      <4> QED
        BY <1>8, <4>1, <4>2
    <3> QED
      BY <3>1, <3>3 DEF IInv, Contents, Fresh, Doing
  <2> QED
    BY <2>1, <2>2
<1>11. ReadIsWhole'
  BY <1>1 DEF IInv, Contents, ReadIsWhole
<1> QED
  BY <1>9, <1>10, <1>11 DEF Contents

\* Nobody writes what p reads, so what it reads is whole.
LEMMA NoWriter ==
  ASSUME IInv, NEW p \in Procs, pc[p] \in {"first", "second"}, ~Doing(p, "write")
  PROVE  /\ call[p].file \in Files /\ call[p].line \in LineNums
         /\ Doing(p, "read") =>
              half[call[p].file][call[p].line][1] = half[call[p].file][call[p].line][2]
         /\ Doing(p, "lines") => size[call[p].file] % 2 = 0
<1>1. PICK f \in Files, l \in LineNums : f = call[p].file /\ l = call[p].line
  BY DEF IInv, Control, TypeOK, Holding, Calls
<1>2. ASSUME NEW q \in Procs, NEW k \in LineNums, Writing(q, f, k)
      PROVE  ~Doing(p, "lines") /\ l # k
  <2>1. q # p /\ pc[q] \in AtWork /\ pc[p] \in AtWork /\ call[q].file = call[p].file
    BY <1>1, <1>2 DEF Writing, AtWork
  <2> QED
    BY <1>1, <1>2, <2>1, Apart DEF IInv, Writing
<1>3. half[f][l][1] # half[f][l][2] => \E q \in Procs : Writing(q, f, l)
  BY DEF IInv, Contents, Even
<1>4. size[f] % 2 # 0 => \E q \in Procs, k \in LineNums : Writing(q, f, k)
  BY DEF IInv, Contents, Even
<1>5. ~\E q \in Procs : Writing(q, f, l)
  BY <1>2
<1> QED
  BY <1>1, <1>2, <1>3, <1>4, <1>5

\* What p has after a step that writes no half of a block.
LEMMA QuietStep ==
  ASSUME IInv, NEW p \in Procs, Call(p) \/ Step(p) \/ Kill(p), UNCHANGED <<size, half>>,
         pc[p] # "second" \/ ~Doing(p, "write"),
         pc'[p] # "second" \/ ~Doing(p, "write")',
         pc'[p] \in {"create", "lock", "first"} => buf'[p] = <<>>,
         pc'[p] = "second" /\ Doing(p, "read")' =>
           /\ buf'[p] = <<half[call'[p].file][call'[p].line][1]>>
           /\ 2 * call'[p].line < size[call'[p].file],
         Len(buf'[p]) = 2 => buf'[p][1] = buf'[p][2]
  PROVE  Contents'
<1>1. \A q \in Procs : q # p =>
        pc'[q] = pc[q] /\ call'[q] = call[q] /\ buf'[q] = buf[q]
  BY OthersRest DEF IInv
<1>2. Even'
  BY <1>1, EvenKept DEF IInv, Contents
<1>3. Fresh'
  BY <1>1 DEF IInv, Contents, Fresh, Doing
<1>4. ReadIsWhole'
  BY <1>1 DEF IInv, Contents, ReadIsWhole
<1> QED
  BY <1>2, <1>3, <1>4 DEF Contents

LEMMA ContentsStep == IInv /\ [Next]_vars => Contents'
<1> SUFFICES ASSUME IInv, [Next]_vars PROVE Contents'
  OBVIOUS
<1> USE DEF IInv, Control, TypeOK
<1>1. ASSUME NEW p \in Procs, Call(p) PROVE Contents'
  <2>1. PICK op, f, l, v :
          \/ Begin(p, op, f, l, v, IF f \in there THEN "lock" ELSE "create")
          \/ Fail(p, f, IF op = "lines" THEN <<Missing>> ELSE <<>>)
    BY <1>1, CallStep
  <2>2. UNCHANGED <<size, half>>
    BY <1>1, CallStep DEF disk
  <2>3. /\ pc[p] = "idle" /\ pc'[p] \in {"idle", "create", "lock"}
        /\ buf'[p] \in {<<>>, <<Missing>>}
        /\ pc'[p] # "idle" => buf'[p] = <<>>
    <3>1. CASE Begin(p, op, f, l, v, IF f \in there THEN "lock" ELSE "create")
      BY <3>1 DEF Begin, Goto
    <3>2. CASE Fail(p, f, IF op = "lines" THEN <<Missing>> ELSE <<>>)
      BY <3>2 DEF Fail
    <3> QED
      BY <2>1, <3>1, <3>2
  <2>4. Len(buf'[p]) # 2
    <3>1. CASE buf'[p] = <<Missing>>
      BY <3>1
    <3>2. CASE buf'[p] = <<>>
      BY <3>2
    <3> QED
      BY <2>3, <3>1, <3>2
  <2> QED
    BY <1>1, <2>2, <2>3, <2>4, QuietStep
<1>2. ASSUME NEW p \in Procs, Create(p) \/ Lock(p) PROVE Contents'
  <2>1. UNCHANGED <<size, half, buf>> /\ pc[p] \in {"create", "lock"} /\ pc'[p] \in {"lock", "first"}
    BY <1>2 DEF Create, Lock, Goto, disk
  <2>2. buf[p] = <<>>
    BY <2>1 DEF Contents, Fresh
  <2> QED
    <3>1. Len(buf'[p]) # 2 /\ buf'[p] = <<>>
      BY <2>1, <2>2
    <3>2. Step(p) /\ pc[p] # "second" /\ pc'[p] # "second"
      BY <1>2, <2>1 DEF Step
    <3> QED
      BY <2>1, <3>1, <3>2, QuietStep
<1>3. ASSUME NEW p \in Procs, ReadFirst(p) PROVE Contents'
  <2>1. UNCHANGED <<size, half, call>> /\ pc[p] = "first" /\ Doing(p, "read")
    BY <1>3 DEF ReadFirst, Goto, disk
  <2>2. buf[p] = <<>>
    BY <2>1 DEF Contents, Fresh
  <2>3. \/ /\ pc'[p] = "second" /\ 2 * call[p].line < size[call[p].file]
           /\ buf'[p] = <<half[call[p].file][call[p].line][1]>>
        \/ pc'[p] = "unlock" /\ buf'[p] = <<>>
    BY <1>3, <2>2 DEF ReadFirst, Goto
  <2>4. Len(buf'[p]) # 2
    <3>1. CASE buf'[p] = <<half[call[p].file][call[p].line][1]>>
      BY <3>1
    <3>2. CASE buf'[p] = <<>>
      BY <3>2
    <3> QED
      BY <2>3, <3>1, <3>2
  <2> QED
    BY <1>3, <2>1, <2>3, <2>4, QuietStep DEF Step, Doing
<1>4. ASSUME NEW p \in Procs, ReadSecond(p) PROVE Contents'
  <2>1. UNCHANGED <<size, half, call>> /\ pc[p] = "second" /\ Doing(p, "read")
        /\ pc'[p] = "unlock"
    BY <1>4 DEF ReadSecond, Goto, disk
  <2>2. buf'[p] = <<buf[p][1], half[call[p].file][call[p].line][2]>>
    BY <1>4 DEF ReadSecond
  <2>3. buf[p] = <<half[call[p].file][call[p].line][1]>>
    BY <2>1 DEF Contents, Fresh
  <2>4. half[call[p].file][call[p].line][1] = half[call[p].file][call[p].line][2]
    BY <2>1, NoWriter DEF Doing
  <2>5. buf'[p][1] = buf'[p][2]
    BY <2>2, <2>3, <2>4
  <2>6. /\ pc[p] # "second" \/ ~Doing(p, "write")
        /\ pc'[p] # "second" /\ pc'[p] \notin {"create", "lock", "first"}
    BY <2>1 DEF Doing
  <2>7. Step(p)
    BY <1>4 DEF Step
  <2> QED
    BY <2>1, <2>5, <2>6, <2>7, QuietStep
<1>5. ASSUME NEW p \in Procs, CountLines(p) PROVE Contents'
  <2>1. UNCHANGED <<size, half, call>> /\ pc[p] = "first" /\ pc'[p] = "unlock"
        /\ Len(buf'[p]) = 1
    BY <1>5 DEF CountLines, Goto, disk
  <2> QED
    BY <1>5, <2>1, QuietStep DEF Step
<1>6. ASSUME NEW p \in Procs, Unlock(p) \/ Kill(p) PROVE Contents'
  <2>1. UNCHANGED <<size, half>> /\ pc[p] # "second" /\ pc'[p] = "idle"
        /\ buf'[p] \in {buf[p], <<>>}
    BY <1>6 DEF Unlock, Kill, Goto, disk
  <2>2. Len(buf'[p]) = 2 => buf'[p][1] = buf'[p][2]
    BY <2>1 DEF Contents, ReadIsWhole
  <2> QED
    BY <1>6, <2>1, <2>2, QuietStep DEF Step
<1>7. CASE UNCHANGED vars
  <2>1. UNCHANGED <<size, half, pc, call, buf>>
    BY <1>7 DEF vars, disk
  <2>2. Even'
    BY <2>1, EvenKept DEF Contents
  <2> QED
    BY <2>1, <2>2 DEF Contents, Fresh, ReadIsWhole, Doing
<1> QED
  BY <1>1, <1>2, <1>3, <1>4, <1>5, <1>6, <1>7, WriteFirstContents, WriteSecondContents
     DEF Next, Step

-----------------------------------------------------------------------------
LEMMA Invariance == Spec => []IInv
<1>1. Init => IInv
  BY ControlInit, ContentsInit DEF IInv
<1>2. IInv /\ [Next]_vars => IInv'
  BY ControlStep, ContentsStep DEF IInv
<1> QED
  BY <1>1, <1>2, PTL DEF Spec

\* Every variable stays in its type, whoever calls what and is killed when.
THEOREM TypeCorrect == Spec => []TypeOK
<1>1. IInv => TypeOK
  BY DEF IInv, Control
<1> QED
  BY <1>1, Invariance, PTL

\* Under the locks of the calls no read of file_operation.h returns half of
\* one block and half of another.
THEOREM ReadsAreWhole == Spec => []ReadIsWhole
<1>1. IInv => ReadIsWhole
  BY DEF IInv, Contents
<1> QED
  BY <1>1, Invariance, PTL

-----------------------------------------------------------------------------
(***************************************************************************)
(* The refinement mapping.                                                 *)
(***************************************************************************)
Length == [f \in Files |-> (size[f] + 1) \div 2]
Block == [f \in Files |-> [l \in LineNums |-> half[f][l][1]]]
Told(p) == IF pc[p] \in {"idle", "unlock"} THEN Whole(buf[p]) ELSE <<>>
Answer == [p \in Procs |-> Told(p)]

\* The abstract store's actions in terms of the files.
LEMMA Mapped ==
  /\ Store!Init <=> /\ there = {}
                    /\ Length = [f \in Files |-> 0]
                    /\ Block = [f \in Files |-> [l \in LineNums |-> Zero]]
                    /\ Answer = [p \in Procs |-> <<>>]
  /\ (UNCHANGED Store!vars) <=> UNCHANGED <<there, Length, Block, Answer>>
  /\ \A p \in Procs, f \in Files, l \in LineNums :
       Store!Read(p, f, l) <=>
         /\ Answer' = [Answer EXCEPT ![p] = IF l < Length[f] THEN <<Block[f][l]>> ELSE <<>>]
         /\ UNCHANGED <<there, Length, Block>>
  /\ \A p \in Procs, f \in Files :
       Store!Lines(p, f) <=>
         /\ Answer' = [Answer EXCEPT ![p] = <<IF f \in there THEN Length[f] ELSE -1>>]
         /\ UNCHANGED <<there, Length, Block>>
  /\ \A p \in Procs :
       Store!Forget(p) <=>
         /\ Answer' = [Answer EXCEPT ![p] = <<>>]
         /\ UNCHANGED <<there, Length, Block>>
  /\ \A f \in Files :
       Store!Create(f) <=> there' = there \cup {f} /\ UNCHANGED <<Length, Block, Answer>>
  /\ \A f \in Files, l \in LineNums, v \in Values :
       Store!Write(f, l, v) <=>
         /\ f \in there
         /\ Block' = [Block EXCEPT ![f][l] = v]
         /\ Length' = [Length EXCEPT ![f] = IF l < @ THEN @ ELSE l + 1]
         /\ UNCHANGED <<there, Answer>>
  BY DEF Store!Init, Store!vars, Store!Read, Store!Lines, Store!Forget, Store!Create,
     Store!Write, Store!Tell, Store!None, Length, Block, Told, Answer

StoreMoves == Store!Next \/ UNCHANGED Store!vars

LEMMA StoreStart == Init => Store!Init
<1> SUFFICES ASSUME Init
             PROVE  /\ there = {}
                    /\ Length = [f \in Files |-> 0]
                    /\ Block = [f \in Files |-> [l \in LineNums |-> Zero]]
                    /\ Answer = [p \in Procs |-> <<>>]
  BY Mapped
<1>1. Length = [f \in Files |-> 0]
  BY DEF Init, Length
<1>2. ASSUME NEW p \in Procs PROVE Told(p) = <<>>
  <2>1. buf[p] = <<>> /\ Len(<<>>) # 2
    BY DEF Init
  <2> QED
    BY <2>1 DEF Told, Whole
<1> QED
  BY <1>1, <1>2 DEF Init, Block, Answer

\* Only the answer of the process that steps may change.
LEMMA AnswerOf ==
  ASSUME IInv, NEW p \in Procs, Call(p) \/ Step(p) \/ Kill(p)
  PROVE  Answer' = [Answer EXCEPT ![p] = Told(p)']
<1>1. \A q \in Procs : q # p => Told(q)' = Told(q)
  BY OthersRest DEF IInv, Told, Whole
<1> QED
  BY <1>1 DEF Answer

\* A step that touches no block either answers nothing new or forgets.
LEMMA Silent ==
  ASSUME IInv, NEW p \in Procs, Call(p) \/ Step(p) \/ Kill(p),
         UNCHANGED disk, Told(p)' \in {<<>>, Told(p)}, Files # {}
  PROVE  StoreMoves
<1>1. UNCHANGED <<there, Length, Block>>
  BY DEF disk, Length, Block
<1>2. Answer' = [Answer EXCEPT ![p] = Told(p)']
  BY AnswerOf
<1>3. CASE Told(p)' = <<>>
  <2>1. Store!Forget(p)
    BY <1>1, <1>2, <1>3, Mapped
  <2> QED
    BY <2>1 DEF StoreMoves, Store!Next
<1>4. CASE Told(p)' = Told(p)
  <2>1. Answer' = Answer
    BY <1>2, <1>4 DEF Answer
  <2> QED
    BY <1>1, <2>1, Mapped DEF StoreMoves
<1> QED
  BY <1>3, <1>4

LEMMA LengthOf ==
  ASSUME IInv, NEW f \in Files
  PROVE  /\ size[f] \in Nat /\ Length[f] = (size[f] + 1) \div 2 /\ Length[f] \in Nat
         /\ \A l \in LineNums : l \in Nat /\ (l < Length[f] <=> 2 * l < size[f])
         /\ size[f] % 2 = 0 => Length[f] = size[f] \div 2
<1>1. size[f] \in Nat /\ \A l \in LineNums : l \in Nat
  BY BlockFileAssumption DEF IInv, Control, TypeOK, LineNums
<1>2. Length[f] = (size[f] + 1) \div 2
  BY DEF Length
<1> QED
  BY <1>1, <1>2

LEMMA StoreCall ==
  ASSUME IInv, NEW p \in Procs, Call(p)
  PROVE  StoreMoves
<1>1. UNCHANGED <<disk, lock>>
  BY CallStep DEF IInv
<1>2. PICK op \in {"write", "read", "lines"}, f \in Files, l \in LineNums,
           v \in Halves :
        \/ /\ Begin(p, op, f, l, v, IF f \in there THEN "lock" ELSE "create")
           /\ op # "write" => f \in there
           /\ op = "write" => v \in Values
        \/ /\ op \in {"read", "lines"}
           /\ Fail(p, f, IF op = "lines" THEN <<Missing>> ELSE <<>>)
  BY CallStep DEF IInv
<1>3. CASE Begin(p, op, f, l, v, IF f \in there THEN "lock" ELSE "create")
  <2>1. pc'[p] \in {"create", "lock"}
    BY <1>3 DEF Begin, Goto, IInv, Control, TypeOK
  <2>2. Told(p)' = <<>>
    BY <2>1 DEF Told
  <2> QED
    BY <1>1, <2>2, Silent DEF disk
<1>4. CASE op = "read" /\ Fail(p, f, <<>>)
  <2>1. pc'[p] = "idle" /\ buf'[p] = <<>>
    BY <1>4 DEF Fail, IInv, Control, TypeOK
  <2>2. Told(p)' = <<>>
    BY <2>1 DEF Told, Whole
  <2> QED
    BY <1>1, <2>2, Silent DEF disk
<1>5. CASE op = "lines" /\ Fail(p, f, <<Missing>>)
  <2>1. pc'[p] = "idle" /\ buf'[p] = <<-1>> /\ f \notin there
    BY <1>5 DEF Fail, Missing, IInv, Control, TypeOK
  <2>2. Told(p)' = <<-1>>
    BY <2>1 DEF Told, Whole
  <2>3. Answer' = [Answer EXCEPT ![p] = <<-1>>]
    BY <2>2, AnswerOf
  <2>4. Store!Lines(p, f)
    BY <1>1, <2>1, <2>3, Mapped DEF disk, Length, Block
  <2> QED
    BY <2>4 DEF StoreMoves, Store!Next
<1> QED
  BY <1>2, <1>3, <1>4, <1>5

LEMMA StoreWrite ==
  ASSUME IInv, NEW p \in Procs, WriteFirst(p)
  PROVE  StoreMoves
<1>0. PICK f \in Files, l \in LineNums, v \in Values :
        f = call[p].file /\ l = call[p].line /\ v = call[p].value
  BY DEF IInv, Control, TypeOK, Holding, Calls, WriteFirst, Goto, Doing
<1>1. /\ pc[p] = "first" /\ Doing(p, "write") /\ PutHalf(p, 1)
      /\ pc' = [pc EXCEPT ![p] = "second"] /\ UNCHANGED <<there, call, buf>>
  BY DEF WriteFirst, Goto, PutHalf
<1>2. /\ half'[f][l][1] = v
      /\ \A g \in Files, k \in LineNums, i \in {1, 2} :
           <<g, k, i>> # <<f, l, 1>> => half'[g][k][i] = half[g][k][i]
      /\ size'[f] = IF 2 * l + 1 <= size[f] THEN size[f] ELSE 2 * l + 1
      /\ \A g \in Files : g # f => size'[g] = size[g]
  BY <1>0, <1>1, HalvesAndSize DEF IInv
<1>3. f \in there
  BY <1>0, <1>1 DEF IInv, Control, Holding, AtWork
<1>4. Block' = [Block EXCEPT ![f][l] = v]
  <2>1. \A g \in Files, k \in LineNums :
          half'[g][k][1] = IF g = f /\ k = l THEN v ELSE half[g][k][1]
    BY <1>2
  <2>2. [Block EXCEPT ![f][l] = v] =
          [g \in Files |-> [k \in LineNums |-> IF g = f /\ k = l THEN v ELSE half[g][k][1]]]
    BY DEF Block
  <2>3. Block' = [g \in Files |-> [k \in LineNums |-> half'[g][k][1]]]
    BY DEF Block
  <2> QED
    BY <2>1, <2>2, <2>3
<1>5. Length' = [Length EXCEPT ![f] = IF l < @ THEN @ ELSE l + 1]
  <2>1. (size'[f] + 1) \div 2 = IF l < Length[f] THEN Length[f] ELSE l + 1
    BY <1>2, LengthOf
  <2> QED
    BY <1>2, <2>1 DEF Length
<1>6. Answer' = Answer
  <2>1. Told(p) = <<>> /\ Told(p)' = <<>>
    BY <1>1 DEF Told, IInv, Control, TypeOK
  <2>2. Answer' = [Answer EXCEPT ![p] = Told(p)']
    BY AnswerOf DEF Step
  <2> QED
    BY <2>1, <2>2 DEF Answer
<1>7. Store!Write(f, l, v)
  BY <1>1, <1>3, <1>4, <1>5, <1>6, Mapped
<1> QED
  BY <1>7 DEF StoreMoves, Store!Next

LEMMA StoreWriteRest ==
  ASSUME IInv, NEW p \in Procs, WriteSecond(p)
  PROVE  StoreMoves
<1>0. PICK f \in Files, l \in LineNums : f = call[p].file /\ l = call[p].line
  BY DEF IInv, Control, TypeOK, Holding, Calls, WriteSecond, Goto
<1>1. /\ pc[p] = "second" /\ Doing(p, "write") /\ PutHalf(p, 2)
      /\ pc' = [pc EXCEPT ![p] = "unlock"] /\ UNCHANGED <<there, call, buf>>
  BY DEF WriteSecond, Goto, PutHalf
<1>2. /\ \A g \in Files, k \in LineNums, i \in {1, 2} :
           <<g, k, i>> # <<f, l, 2>> => half'[g][k][i] = half[g][k][i]
      /\ size'[f] = IF 2 * l + 2 <= size[f] THEN size[f] ELSE 2 * l + 2
      /\ \A g \in Files : g # f => size'[g] = size[g]
  BY <1>0, <1>1, HalvesAndSize DEF IInv
<1>3. 2 * l < size[f]
  BY <1>0, <1>1 DEF IInv, Contents, Even, Writing
<1>4. Block' = Block
  <2>1. ASSUME NEW g \in Files, NEW k \in LineNums PROVE half'[g][k][1] = half[g][k][1]
    <3>1. <<g, k, 1>> # <<f, l, 2>>
      OBVIOUS
    <3> QED
      BY <1>2, <3>1
  <2> QED
    BY <2>1 DEF Block
<1>5. Length' = Length
  <2>1. (size'[f] + 1) \div 2 = (size[f] + 1) \div 2
    <3>1. size[f] \in Nat /\ l \in Nat
      BY LengthOf
    <3>2. CASE size'[f] # size[f]
      <4>1. size'[f] = 2 * l + 2 /\ size[f] = 2 * l + 1
        BY <1>2, <1>3, <3>1, <3>2
      <4> QED
        BY <3>1, <4>1
    <3> QED
      BY <3>2
  <2> QED
    BY <1>2, <2>1 DEF Length
<1>6. Answer' = Answer
  <2>1. buf[p] = <<>> /\ Len(<<>>) # 2
    BY <1>1 DEF IInv, Contents, Fresh
  <2>2. Told(p) = <<>> /\ Told(p)' = <<>>
    BY <1>1, <2>1 DEF Told, Whole, IInv, Control, TypeOK
  <2>3. Answer' = [Answer EXCEPT ![p] = Told(p)']
    BY AnswerOf DEF Step
  <2> QED
    BY <2>2, <2>3 DEF Answer
<1> QED
  BY <1>1, <1>4, <1>5, <1>6, Mapped DEF StoreMoves

LEMMA StoreRead ==
  ASSUME IInv, NEW p \in Procs, ReadSecond(p)
  PROVE  StoreMoves
<1>0. PICK f \in Files, l \in LineNums : f = call[p].file /\ l = call[p].line
  BY DEF IInv, Control, TypeOK, Holding, Calls, ReadSecond, Goto
<1>1. /\ pc[p] = "second" /\ Doing(p, "read") /\ pc'[p] = "unlock"
      /\ UNCHANGED <<there, size, half>>
      /\ buf'[p] = <<buf[p][1], half[f][l][2]>>
  BY <1>0 DEF ReadSecond, Goto, disk, IInv, Control, TypeOK
<1>2. buf[p] = <<half[f][l][1]>> /\ 2 * l < size[f]
  BY <1>0, <1>1 DEF IInv, Contents, Fresh
<1>3. half[f][l][1] = half[f][l][2]
  BY <1>0, <1>1, NoWriter DEF Doing
<1>4. buf'[p] = <<half[f][l][1], half[f][l][1]>>
  BY <1>1, <1>2, <1>3
<1>5. Told(p)' = <<Block[f][l]>>
  BY <1>1, <1>4 DEF Told, Whole, Block
<1>6. Answer' = [Answer EXCEPT ![p] = <<Block[f][l]>>]
  BY <1>5, AnswerOf DEF Step
<1>7. l < Length[f]
  BY <1>2, LengthOf
<1>8. UNCHANGED <<there, Length, Block>>
  BY <1>1 DEF Length, Block
<1>9. Store!Read(p, f, l)
  BY <1>6, <1>7, <1>8, Mapped
<1> QED
  BY <1>9 DEF StoreMoves, Store!Next

LEMMA StoreCount ==
  ASSUME IInv, NEW p \in Procs, CountLines(p)
  PROVE  StoreMoves
<1>0. PICK f \in Files : f = call[p].file
  BY DEF IInv, Control, Holding, CountLines, Goto
<1>1. /\ pc[p] = "first" /\ Doing(p, "lines") /\ pc'[p] = "unlock"
      /\ UNCHANGED <<there, size, half>>
      /\ buf'[p] = <<size[f] \div 2>>
  BY <1>0 DEF CountLines, Goto, disk, IInv, Control, TypeOK
<1>2. size[f] % 2 = 0
  BY <1>0, <1>1, NoWriter DEF Doing
<1>3. f \in there /\ Length[f] = size[f] \div 2
  BY <1>0, <1>1, <1>2, LengthOf DEF IInv, Control, Holding, AtWork
<1>4. Told(p)' = <<Length[f]>>
  BY <1>1, <1>3 DEF Told, Whole
<1>5. Answer' = [Answer EXCEPT ![p] = <<Length[f]>>]
  BY <1>4, AnswerOf DEF Step
<1>6. UNCHANGED <<there, Length, Block>>
  BY <1>1 DEF Length, Block
<1>7. Store!Lines(p, f)
  BY <1>3, <1>5, <1>6, Mapped
<1> QED
  BY <1>7 DEF StoreMoves, Store!Next

\* The remaining steps, in which the store is not seen to move.
LEMMA StoreRest ==
  ASSUME IInv, NEW p \in Procs,
         Create(p) \/ Lock(p) \/ ReadFirst(p) \/ Unlock(p) \/ Kill(p)
  PROVE  StoreMoves
<1> USE DEF IInv, Control, TypeOK
<1>0. call[p].file \in Files \/ pc[p] = "idle"
  BY DEF Holding
<1>1. CASE Create(p)
  <2>1. /\ call[p].file \in Files /\ there' = there \cup {call[p].file}
        /\ UNCHANGED <<size, half>> /\ pc[p] = "create" /\ pc'[p] = "lock"
    BY <1>0, <1>1 DEF Create, Goto
  <2>2. UNCHANGED <<Length, Block>>
    BY <2>1 DEF Length, Block
  <2>3. Answer' = Answer
    <3>1. Told(p) = <<>> /\ Told(p)' = <<>>
      BY <2>1 DEF Told
    <3>2. Answer' = [Answer EXCEPT ![p] = Told(p)']
      BY <1>1, AnswerOf DEF Step
    <3> QED
      BY <3>1, <3>2 DEF Answer
  <2>4. Store!Create(call[p].file)
    BY <2>1, <2>2, <2>3, Mapped
  <2> QED
    BY <2>1, <2>4 DEF StoreMoves, Store!Next
<1>2. CASE Lock(p)
  <2>1. UNCHANGED disk /\ pc[p] = "lock" /\ pc'[p] = "first"
    BY <1>2 DEF Lock, Goto
  <2>2. Told(p)' = <<>>
    BY <2>1 DEF Told
  <2> QED
    BY <1>0, <1>2, <2>1, <2>2, Silent DEF Step
<1>3. CASE ReadFirst(p)
  <2>1. UNCHANGED disk /\ pc[p] = "first" /\ buf[p] = <<>>
    BY <1>3 DEF ReadFirst, Goto, Contents, Fresh
  <2>2. \/ pc'[p] = "second"
        \/ pc'[p] = "unlock" /\ buf'[p] = <<>>
    BY <1>3, <2>1 DEF ReadFirst, Goto
  <2>3. Told(p)' = <<>>
    <3>1. CASE pc'[p] = "second"
      BY <3>1 DEF Told
    <3>2. CASE pc'[p] = "unlock" /\ buf'[p] = <<>>
      BY <3>2 DEF Told, Whole
    <3> QED
      BY <2>2, <3>1, <3>2
  <2> QED
    BY <1>0, <1>3, <2>1, <2>3, Silent DEF Step
<1>4. CASE Unlock(p)
  <2>1. UNCHANGED disk /\ pc[p] = "unlock" /\ pc'[p] = "idle" /\ buf'[p] = buf[p]
    BY <1>4 DEF Unlock, Goto
  <2>2. Told(p)' = Told(p)
    BY <2>1 DEF Told, Whole
  <2> QED
    BY <1>0, <1>4, <2>1, <2>2, Silent DEF Step
<1>5. CASE Kill(p)
  <2>1. UNCHANGED disk /\ pc[p] # "idle" /\ pc'[p] = "idle" /\ buf'[p] = <<>>
    BY <1>5 DEF Kill
  <2>2. Told(p)' = <<>>
    BY <2>1 DEF Told, Whole
  <2> QED
    BY <1>0, <1>5, <2>1, <2>2, Silent
<1> QED
  BY <1>1, <1>2, <1>3, <1>4, <1>5

LEMMA StoreStep == IInv /\ [Next]_vars => [Store!Next]_(Store!vars)
<1> SUFFICES ASSUME IInv, [Next]_vars PROVE StoreMoves
  BY DEF StoreMoves
<1>1. CASE UNCHANGED vars
  BY <1>1, Mapped DEF vars, disk, Length, Block, Answer, Told, StoreMoves
<1>2. CASE Next
  BY <1>2, StoreCall, StoreWrite, StoreWriteRest, StoreRead, StoreCount, StoreRest
     DEF Next, Step
<1> QED
  BY <1>1, <1>2

\* The .ndb and .fdb files behave like files of blocks that are written, read
\* and counted in one step each, whoever is killed between two system calls.
THEOREM FilesImplementStore == Spec => StoreSpec
  BY Invariance, StoreStart, StoreStep, PTL DEF Spec, StoreSpec, Store!Spec
=============================================================================
