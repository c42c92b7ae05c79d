------------------------------ MODULE DbList ------------------------------
(***************************************************************************)
(* The doubly linked lists of db_list.h on the blocks of the allocator.    *)
(* A list is a header block (head, tail, size) and one block per element   *)
(* (prev, succ, key).  The blocks come from the pool that BlockPool        *)
(* specifies and NodeAllocator implements.                                 *)
(*                                                                         *)
(* One action per call of the allocator or write of a block; what an       *)
(* operation reads in between is read with the next write, because nobody  *)
(* else may change the same list meanwhile (Exclusive: the code locks      *)
(* blocks, never lists, so callers have to see to that).  Processes work   *)
(* on different lists at the same time and can be killed between any two   *)
(* writes.                                                                 *)
(***************************************************************************)
EXTENDS Integers, Sequences, FiniteSets

CONSTANTS Procs,      \* processes linked with the library
          Blocks,     \* model bound: the node blocks of the database
          Values,     \* what an element can hold
          NULL        \* the null memory_location, (-1, -1)

ASSUME ConstAssumption ==
  /\ NULL \notin Blocks
  /\ Values # {}

VARIABLES disk,       \* contents of the blocks
          live,       \* blocks handed out by the allocator
          lists,      \* header blocks of the lists that exist
          pc,         \* where each process is in its call
          mem,        \* the db_list and queue_node variables of each process
          linked,     \* history: lists with a push that died half way
          damaged     \* history: lists with a removal that died half way

vars == <<disk, live, lists, pc, mem, linked, damaged>>

Loc == Blocks \cup {NULL}

\* Header and node share their layout: two locations, then the size or the key.
Block == [first : Loc, second : Loc, third : Values \cup Nat]

Header(h, t, s) == [first |-> h, second |-> t, third |-> s]
Node(p, s, v) == [first |-> p, second |-> s, third |-> v]

HeadOf(l) == disk[l].first        \* of a header
TailOf(l) == disk[l].second
SizeOf(l) == disk[l].third
\* Of a node; loading a null node leaves the null pointers it was built with.
PrevOf(b) == IF b = NULL THEN NULL ELSE disk[b].first
SuccOf(b) == IF b = NULL THEN NULL ELSE disk[b].second
KeyOf(b) == disk[b].third

Pushes == {"push_tail", "push_head"}
Pops == {"pop_tail", "pop_head"}
Drops == {"release", "clear"}
Ops == Pushes \cup Pops \cup Drops \cup {"create", "update"}

\* The variables of a call: the db_list (list is its self) and the queue_node
\* (x is its self) it works on.
Call == [op : Ops \cup {"none"}, list : Loc, head : Loc, tail : Loc, size : Nat,
         x : Loc, prev : Loc, succ : Loc, val : Values \cup {NULL}, index : Nat]

NoCall == [op |-> "none", list |-> NULL, head |-> NULL, tail |-> NULL, size |-> 0,
           x |-> NULL, prev |-> NULL, succ |-> NULL, val |-> NULL, index |-> 0]

\* db_list::load into a fresh variable.
Load(op, l) == [NoCall EXCEPT !.op = op, !.list = l, !.head = HeadOf(l),
                              !.tail = TailOf(l), !.size = SizeOf(l)]

\* The node an index walk ends at: follow succ i times from the head.
Walk(h, i) ==
  LET f[n \in 0 .. i] == IF n = 0 THEN h ELSE SuccOf(f[n - 1])
  IN f[i]

(***************************************************************************)
(* Which calls may start, and how they end.                                *)
(***************************************************************************)
Busy == {p \in Procs : pc[p] # "idle"}

\* Assumed of the callers: one operation at a time on one list, and no more
\* operations on a list that a killed process left half changed.
Exclusive(l) ==
  /\ l \in lists \ (linked \cup damaged)
  /\ \A q \in Busy : mem[q].list # l

\* Model bound: a call that allocates will find a block.
Room == Cardinality(Blocks \ live) > Cardinality(Busy)

Begin(p, label, m) ==
  /\ pc[p] = "idle"
  /\ pc' = [pc EXCEPT ![p] = label]
  /\ mem' = [mem EXCEPT ![p] = m]

Goto(p, from, to) ==
  /\ pc[p] = from
  /\ pc' = [pc EXCEPT ![p] = to]

Return(p) ==
  /\ pc' = [pc EXCEPT ![p] = "idle"]
  /\ mem' = [mem EXCEPT ![p] = NoCall]

history == <<linked, damaged>>

Init ==
  /\ disk = [b \in Blocks |-> Node(NULL, NULL, 0)]
  /\ live = {}
  /\ lists = {}
  /\ pc = [p \in Procs |-> "idle"]
  /\ mem = [p \in Procs |-> NoCall]
  /\ linked = {}
  /\ damaged = {}

(***************************************************************************)
(* Faults: slips that would be easy to make in the code below.  No         *)
(* specification uses them; each is put in place of the definition its     *)
(* comment names to see that a property notices.                           *)
(***************************************************************************)
\* PopTail, without the test for an empty list.
PopBlindly(p, l) ==
  LET t == TailOf(l)
      new == PrevOf(t)
      m == [Load("pop_tail", l) EXCEPT !.size = @ - 1, !.x = t, !.tail = new]
  IN /\ Exclusive(l)
     /\ \/ new # NULL /\ Begin(p, "unlink", m)
        \/ new = NULL /\ Begin(p, "free", [m EXCEPT !.head = NULL])
     /\ UNCHANGED <<disk, live, lists, history>>

\* PopUnlink, without saving the new end of the list.
KeepOldEnd(p) ==
  /\ Goto(p, "unlink", "free")
  /\ UNCHANGED <<disk, live, lists, mem, history>>

\* PopFree, freeing tail or head after it was moved to the new end.
FreeNewEnd(p) ==
  LET m == mem[p]
  IN /\ Goto(p, "free", "save")
     /\ live' = live \ {IF m.op = "pop_tail" THEN m.tail ELSE m.head}
     /\ UNCHANGED <<disk, lists, mem, history>>

\* Update, walking while i <= index.
StepTooFar(p, l, i, v) ==
  /\ Exclusive(l)
  /\ i < SizeOf(l)
  /\ Begin(p, "set", [Load("update", l) EXCEPT !.x = Walk(HeadOf(l), i + 1), !.val = v,
                                                !.index = i])
  /\ UNCHANGED <<disk, live, lists, history>>

\* ReleaseNode, without moving on to succ.
StandStill(p) ==
  /\ pc[p] = "drop"
  /\ mem[p].x # NULL
  /\ live' = live \ {mem[p].x}
  /\ UNCHANGED <<disk, lists, pc, mem, history>>

\* ReleaseHeader, without giving the header block back.
KeepHeader(p) ==
  /\ pc[p] = "drop"
  /\ mem[p].op = "release"
  /\ mem[p].x = NULL
  /\ lists' = lists \ {mem[p].list}
  /\ Return(p)
  /\ UNCHANGED <<disk, live, history>>

(***************************************************************************)
(* create and the first save of the header                                 *)
(***************************************************************************)
Create(p) ==
  /\ Room
  /\ \E b \in Blocks \ live :
       /\ Begin(p, "save", [NoCall EXCEPT !.op = "create", !.list = b])
       /\ live' = live \cup {b}
  /\ UNCHANGED <<disk, lists, history>>

\* db_list::save, which ends every operation but release and clear.
SaveHeader(p) ==
  LET m == mem[p]
  IN /\ pc[p] = "save"
     /\ disk' = [disk EXCEPT ![m.list] = Header(m.head, m.tail, m.size)]
     /\ lists' = lists \cup {m.list}
     /\ Return(p)
     /\ UNCHANGED <<live, history>>

(***************************************************************************)
(* push_tail and push_head                                                 *)
(***************************************************************************)
Push(p, op, l, v) ==
  /\ Exclusive(l)
  /\ Room
  /\ Begin(p, "alloc", [Load(op, l) EXCEPT !.size = @ + 1, !.val = v])
  /\ UNCHANGED <<disk, live, lists, history>>

PushAlloc(p) ==
  LET m == mem[p]
      empty == m.head = NULL /\ m.tail = NULL
  IN /\ Goto(p, "alloc", IF empty THEN "write" ELSE "link")
     /\ \E b \in Blocks \ live :
          /\ live' = live \cup {b}
          /\ mem' = [mem EXCEPT ![p] =
                       IF empty THEN [m EXCEPT !.x = b, !.head = b, !.tail = b]
                                ELSE [m EXCEPT !.x = b]]
     /\ UNCHANGED <<disk, lists, history>>

\* The old end of the list is loaded, pointed at the new node, and saved.
PushLink(p) ==
  LET m == mem[p]
  IN /\ Goto(p, "link", "write")
     /\ \/ /\ m.op = "push_tail"
           /\ disk' = [disk EXCEPT ![m.tail].second = m.x]
           /\ mem' = [mem EXCEPT ![p] = [m EXCEPT !.prev = m.tail, !.tail = m.x]]
        \/ /\ m.op = "push_head"
           /\ disk' = [disk EXCEPT ![m.head].first = m.x]
           /\ mem' = [mem EXCEPT ![p] = [m EXCEPT !.succ = m.head, !.head = m.x]]
     /\ UNCHANGED <<live, lists, history>>

PushWrite(p) ==
  LET m == mem[p]
  IN /\ Goto(p, "write", "save")
     /\ disk' = [disk EXCEPT ![m.x] = Node(m.prev, m.succ, m.val)]
     /\ UNCHANGED <<live, lists, mem, history>>

(***************************************************************************)
(* pop_tail and pop_head                                                   *)
(***************************************************************************)
PopTail(p, l) ==
  LET t == TailOf(l)
      new == PrevOf(t)
      m == [Load("pop_tail", l) EXCEPT !.size = @ - 1, !.x = t, !.tail = new]
  IN /\ Exclusive(l)
     /\ SizeOf(l) # 0
     /\ \/ new # NULL /\ Begin(p, "unlink", m)
        \/ new = NULL /\ Begin(p, "free", [m EXCEPT !.head = NULL])
     /\ UNCHANGED <<disk, live, lists, history>>

PopHead(p, l) ==
  LET h == HeadOf(l)
      new == SuccOf(h)
      m == [Load("pop_head", l) EXCEPT !.size = @ - 1, !.x = h, !.head = new]
  IN /\ Exclusive(l)
     /\ SizeOf(l) # 0
     /\ \/ new # NULL /\ Begin(p, "unlink", m)
        \/ new = NULL /\ Begin(p, "free", [m EXCEPT !.tail = NULL])
     /\ UNCHANGED <<disk, live, lists, history>>

\* The new end of the list is loaded, cut off, and saved.
PopUnlink(p) ==
  LET m == mem[p]
  IN /\ Goto(p, "unlink", "free")
     /\ \/ /\ m.op = "pop_tail"
           /\ disk' = [disk EXCEPT ![m.tail].second = NULL]
        \/ /\ m.op = "pop_head"
           /\ disk' = [disk EXCEPT ![m.head].first = NULL]
     /\ UNCHANGED <<live, lists, mem, history>>

PopFree(p) ==
  /\ Goto(p, "free", "save")
  /\ live' = live \ {mem[p].x}
  /\ UNCHANGED <<disk, lists, mem, history>>

(***************************************************************************)
(* update.  An index that is out of range returns -1 and changes nothing.  *)
(***************************************************************************)
Update(p, l, i, v) ==
  /\ Exclusive(l)
  /\ i < SizeOf(l)
  /\ Begin(p, "set", [Load("update", l) EXCEPT !.x = Walk(HeadOf(l), i), !.val = v,
                                                !.index = i])
  /\ UNCHANGED <<disk, live, lists, history>>

UpdateSet(p) ==
  LET m == mem[p]
  IN /\ Goto(p, "set", "save")
     /\ disk' = [disk EXCEPT ![m.x].third = m.val]
     /\ UNCHANGED <<live, lists, mem, history>>

(***************************************************************************)
(* release, and clear, which is the same walk without the header           *)
(***************************************************************************)
Drop(p, op, l) ==
  /\ Exclusive(l)
  /\ Begin(p, "drop", [Load(op, l) EXCEPT !.x = HeadOf(l)])
  /\ UNCHANGED <<disk, live, lists, history>>

ReleaseNode(p) ==
  LET m == mem[p]
  IN /\ pc[p] = "drop"
     /\ m.x # NULL
     /\ live' = live \ {m.x}
     /\ mem' = [mem EXCEPT ![p].x = SuccOf(m.x)]
     /\ UNCHANGED <<disk, lists, pc, history>>

ReleaseHeader(p) ==
  LET m == mem[p]
  IN /\ pc[p] = "drop"
     /\ m.op = "release"
     /\ m.x = NULL
     /\ live' = live \ {m.list}
     /\ lists' = lists \ {m.list}
     /\ Return(p)
     /\ UNCHANGED <<disk, history>>

\* head, tail and size are reset in the caller's variable only.
ClearDone(p) ==
  /\ pc[p] = "drop"
  /\ mem[p].op = "clear"
  /\ mem[p].x = NULL
  /\ Return(p)
  /\ UNCHANGED <<disk, live, lists, history>>

(***************************************************************************)
(* A process is killed between two writes.                                 *)
(***************************************************************************)
\* The old end of the list points at the new node, the header does not.
Linked(p) ==
  /\ mem[p].op \in Pushes
  /\ pc[p] \in {"write", "save"}
  /\ mem[p].prev # NULL \/ mem[p].succ # NULL

\* An element is gone from the chain, the header still counts it.
Popped(p) ==
  /\ mem[p].op \in Pops
  /\ pc[p] = "save" \/ (pc[p] = "free" /\ mem[p].head # NULL)

\* Nodes are freed that the header still leads to.
Dropped(p) ==
  /\ mem[p].op \in Drops
  /\ mem[p].x # HeadOf(mem[p].list)

Crash(p) ==
  /\ pc[p] # "idle"
  /\ Return(p)
  /\ linked' = IF Linked(p) THEN linked \cup {mem[p].list} ELSE linked
  /\ damaged' = IF Popped(p) \/ Dropped(p)
                THEN damaged \cup {mem[p].list} ELSE damaged
  /\ UNCHANGED <<disk, live, lists>>

(***************************************************************************)
(* Specifications                                                          *)
(***************************************************************************)
Start(p) ==
  \/ Create(p)
  \/ \E l \in lists :
       \/ \E op \in Pushes, v \in Values : Push(p, op, l, v)
       \/ \E i \in 0 .. SizeOf(l), v \in Values : Update(p, l, i, v)
       \/ PopTail(p, l)
       \/ PopHead(p, l)
       \/ Drop(p, "release", l)

Step(p) ==
  \/ SaveHeader(p)
  \/ PushAlloc(p) \/ PushLink(p) \/ PushWrite(p)
  \/ PopUnlink(p) \/ PopFree(p)
  \/ UpdateSet(p)
  \/ ReleaseNode(p) \/ ReleaseHeader(p)

Next == \E p \in Procs : Start(p) \/ Step(p)

Spec == Init /\ [][Next]_vars

\* A process inside a call keeps running it.
FairSpec == Spec /\ \A p \in Procs : WF_vars(Step(p))

CrashSpec == Init /\ [][Next \/ \E p \in Procs : Crash(p)]_vars

\* With clear, which the specifications above leave out: see ClearEmpties.
ClearSpec ==
  Init /\ [][\E p \in Procs : \/ Start(p) \/ Step(p) \/ ClearDone(p)
                              \/ \E l \in lists : Drop(p, "clear", l)]_vars

(***************************************************************************)
(* Properties                                                              *)
(***************************************************************************)
TypeOK ==
  /\ disk \in [Blocks -> Block]
  /\ live \subseteq Blocks
  /\ lists \subseteq Blocks
  /\ pc \in [Procs -> {"idle", "alloc", "link", "write", "unlink", "free", "set",
                       "drop", "save"}]
  /\ mem \in [Procs -> Call]
  /\ linked \subseteq Blocks
  /\ damaged \subseteq Blocks

\* Lists nobody is working on and nobody died on.
Quiet == {l \in lists \ (linked \cup damaged) : \A p \in Busy : mem[p].list # l}

Chain(l) == [i \in 1 .. SizeOf(l) |-> Walk(HeadOf(l), i - 1)]
Nodes(l) == {Chain(l)[i] : i \in 1 .. SizeOf(l)}

\* Between operations a list can be walked both ways: succ and prev agree,
\* both ends are null, and the size in the header is the number of nodes.
\* pop_tail trusts prev, the readers trust size, release trusts the last succ.
LinksMatch ==
  \A l \in Quiet :
    LET c == Chain(l)
        n == SizeOf(l)
    IN IF n = 0 THEN HeadOf(l) = NULL /\ TailOf(l) = NULL
       ELSE /\ \A i \in 1 .. n : c[i] \in Blocks
            /\ PrevOf(c[1]) = NULL
            /\ SuccOf(c[n]) = NULL
            /\ TailOf(l) = c[n]
            /\ \A i \in 2 .. n : PrevOf(c[i]) = c[i - 1]

\* No block is shared or used after it was freed: the blocks of each list are
\* in use, different from each other and from those of every other list.
NothingShared ==
  \A l \in Quiet :
    /\ Nodes(l) \cup {l} \subseteq live
    /\ Cardinality(Nodes(l) \cup {l}) = SizeOf(l) + 1
    /\ \A k \in Quiet \ {l} : (Nodes(l) \cup {l}) \cap (Nodes(k) \cup {k}) = {}

\* Without crashes no block is lost: when nobody is in a call, the blocks in
\* use are exactly those of the lists.
NoLeak ==
  Busy = {} => live = lists \cup UNION {Nodes(l) : l \in lists}

\* A push becomes visible with the header; a pop and a release count from
\* their first change on, when the header on disk is out of date.
Visible(l) ==
  IF \E p \in Busy : mem[p].list = l /\ Popped(p)
  THEN LET p == CHOOSE q \in Busy : mem[q].list = l
       IN [i \in 1 .. mem[p].size |-> KeyOf(Walk(mem[p].head, i - 1))]
  ELSE [i \in 1 .. SizeOf(l) |-> KeyOf(Walk(HeadOf(l), i - 1))]

Removed == {l \in lists : \E p \in Busy : mem[p].list = l /\ Dropped(p)}

\* The lists on disk implement sequences, as get_by_index reads them: each
\* call takes effect at one of its writes, exactly once, on its own list.  A
\* push that dies has not happened; a pop that dies may lose its list.
Store == INSTANCE ListStore WITH
  Lists <- Loc,
  Values <- Values \cup {NULL},
  contents <- [l \in lists \ (damaged \cup Removed) |-> Visible(l)],
  asked <- [p \in Procs |-> [op |-> mem[p].op, list |-> mem[p].list,
                             index |-> mem[p].index, val |-> mem[p].val]],
  done <- [p \in Procs |-> Popped(p) \/ Dropped(p)
                           \/ (mem[p].op = "update" /\ pc[p] = "save")]

StoreSpec == Store!Spec

\* Every operation comes to its end: the walks of update and release stop.
CallReturns == \A p \in Procs : pc[p] # "idle" ~> pc[p] = "idle"

\* clear leaves an empty list that still exists.
ClearEmpties ==
  [][\A p \in Procs, l \in lists :
       mem[p].list = l /\ ClearDone(p) => SizeOf(l)' = 0]_vars
=============================================================================
