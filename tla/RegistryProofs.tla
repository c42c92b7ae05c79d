--------------------------- MODULE RegistryProofs ---------------------------
(***************************************************************************)
(* Proofs about Registry, for any names, any number of blocks and any      *)
(* bound on the entries of a map or list, with one caller that may be      *)
(* killed between any two steps of a call.                                 *)
(*                                                                         *)
(* The argument is an inventory of the blocks in use (Used).  At every     *)
(* step each of them is a root map's, is in the hand of the call in        *)
(* progress, is kept by exactly one name, or was lost when a call was      *)
(* killed; New adds one block to the inventory, Free takes one out.  A     *)
(* name stops keeping a block when the block is freed, although the name   *)
(* is still there; and at a kill, what the killed call was writing to.     *)
(***************************************************************************)
EXTENDS Registry, SequenceTheorems, FiniteSetTheorems, TLAPS

Tags == Ids \cup {<<>>, <<"node">>, <<"root">>}
Records == [id : Tags, nodes : SUBSET Blocks]
Entries == [node : Blocks, blk : Blocks]
Jobs ==
  [pc : {"idle", "create", "save", "add", "leaf", "hang",
         "release", "drop", "free", "top", "grow", "link",
         "install", "install2", "point"},
   id : Ids \cup {<<>>}, blk : Blocks \cup {NoBlock}, left : SUBSET Blocks]

TypeInv ==
  /\ frontier \in 0 .. MaxBlocks
  /\ stack \in Seq(Blocks)
  /\ disk \in [Blocks -> Records]
  /\ roots \subseteq Blocks
  /\ DOMAIN entries \subseteq Ids
  /\ \A id \in DOMAIN entries : entries[id] \in Entries
  /\ job \in [Procs -> Jobs]
  /\ torn \subseteq Ids /\ ruined \subseteq Kinds
  /\ hurt \in BOOLEAN /\ bare \in BOOLEAN

\* The free blocks are different blocks behind the frontier.
PoolInv ==
  /\ \A i, j \in 1 .. Len(stack) : i # j => stack[i] # stack[j]
  /\ ToSet(stack) \subseteq 0 .. frontier - 1

Used == (0 .. frontier - 1) \ ToSet(stack)

\* How many blocks the allocator can still hand out, and how many the call in
\* progress may ask it for.
Available == Len(stack) + MaxBlocks - frontier

Demand(p) ==
  CASE job[p].pc \in {"create", "install"} -> 2
    [] job[p].pc \in {"save", "add", "leaf", "grow", "install2"} -> 1
    [] OTHER -> 0

\* A call that makes a name, one that uses a name, one that is past the release
\* of what the name stood for.
Naming(p) == job[p].pc \in {"create", "save", "add", "leaf", "hang"}
Using(p) == job[p].pc \in {"release", "drop", "free", "top", "grow", "link"}
Dropping(p) == job[p].pc \in {"drop", "free", "top"}

\* What a process in the middle of a call relies on.
CallInv(p) ==
  /\ Available >= Demand(p)
  /\ bare => stack = <<>> /\ job[p].pc \in {"idle", "install", "install2", "point"}
  /\ At(p, "install") => bare /\ frontier = 0 /\ job[p].left = {}
  /\ At(p, "install2") => bare /\ frontier = 1 /\ job[p].left = {0}
  /\ At(p, "point") => bare /\ frontier = 2 /\ job[p].left = {0, 1}
  /\ Naming(p) => /\ job[p].id \in Ids /\ ~Exists(job[p].id)
                  /\ job[p].id[1] \notin ruined
  /\ Naming(p) /\ ~At(p, "create") => job[p].blk \in Blocks
  /\ job[p].pc \in {"add", "leaf", "hang"} =>
       disk[job[p].blk] = Header(job[p].id, {})
  /\ Using(p) => job[p].id \in Sound /\ job[p].blk = BlockOf(job[p].id)
  /\ At(p, "release") => job[p].left \subseteq disk[job[p].blk].nodes
  /\ job[p].pc \in {"hang", "link"} =>
       \E b \in Blocks : job[p].left = {b} /\ b # job[p].blk

\* The blocks taken for a structure or an entry that is not there yet.
Hand(p) ==
  CASE job[p].pc \in {"save", "add", "leaf"} -> {job[p].blk}
    [] At(p, "hang") -> {job[p].blk} \cup job[p].left
    [] At(p, "link") -> job[p].left
    [] OTHER -> {}

\* The node of a name, until it is freed, or its root map is not to be trusted.
Stem(p, id) ==
  IF id[1] \in ruined \/ (At(p, "top") /\ job[p].id = id) THEN {}
  ELSE {entries[id].node}

\* The blocks of what a name stands for, less those its deletion has freed.
Body(p, id) ==
  IF id \in torn \/ (Dropping(p) /\ job[p].id = id) THEN {}
  ELSE {BlockOf(id)} \cup IF At(p, "release") /\ job[p].id = id
                          THEN job[p].left ELSE disk[BlockOf(id)].nodes

Kept(p, id) == Stem(p, id) \cup Body(p, id)

\* The inventory.
Inventory(p) ==
  /\ torn \subseteq DOMAIN entries
  /\ roots = {0, 1} /\ roots \subseteq Used
  /\ Hand(p) \subseteq Used \ roots
  /\ \A id \in DOMAIN entries :
       /\ Kept(p, id) \subseteq Used \ (roots \cup Hand(p))
       /\ Stem(p, id) \cap Body(p, id) = {}
  /\ \A id, other \in DOMAIN entries :
       id # other => Kept(p, id) \cap Kept(p, other) = {}
  /\ \A id \in Sound :
       disk[BlockOf(id)].id = id /\ BlockOf(id) \notin disk[BlockOf(id)].nodes
  /\ ~hurt => \A b \in Used : \/ b \in roots \cup Hand(p)
                              \/ \E id \in DOMAIN entries : b \in Kept(p, id)

\* The inductive invariant.
IInv(p) == TypeInv /\ PoolInv /\ CallInv(p) /\ (~bare => Inventory(p))

-----------------------------------------------------------------------------
(***************************************************************************)
(* The allocator.                                                          *)
(***************************************************************************)
LEMMA SequenceFacts ==
  ASSUME NEW S, NEW s \in Seq(S)
  PROVE  /\ Len(s) \in Nat
         /\ s = <<>> <=> Len(s) = 0
         /\ ToSet(s) = {s[i] : i \in 1 .. Len(s)}
         /\ \A i \in 1 .. Len(s) : s[i] \in S
BY EmptySeq, LenProperties, ElementOfSeq DEF ToSet

LEMMA TypedPool ==
  ASSUME TypeInv
  PROVE  /\ MaxBlocks \in Nat /\ frontier \in Nat /\ frontier <= MaxBlocks
         /\ Len(stack) \in Nat
         /\ stack = <<>> <=> Len(stack) = 0
         /\ ToSet(stack) = {stack[i] : i \in 1 .. Len(stack)}
         /\ \A i \in 1 .. Len(stack) : stack[i] \in Blocks
         /\ \A b : b \in Blocks <=> b \in Nat /\ b < MaxBlocks
<1>1. MaxBlocks \in Nat /\ \A b : b \in Blocks <=> b \in Nat /\ b < MaxBlocks
  BY RegistryAssumption DEF Blocks
<1>2. frontier \in Nat /\ frontier <= MaxBlocks /\ stack \in Seq(Blocks)
  BY <1>1 DEF TypeInv
<1> QED
  BY <1>1, <1>2, SequenceFacts

LEMMA LastAndFront ==
  ASSUME NEW S, NEW s \in Seq(S), s # <<>>
  PROVE  /\ Last(s) = s[Len(s)]
         /\ Front(s) \in Seq(S)
         /\ Len(Front(s)) = Len(s) - 1
         /\ \A i \in 1 .. Len(s) - 1 : Front(s)[i] = s[i]
<1>1. Last(s) = s[Len(s)] /\ Front(s) = SubSeq(s, 1, Len(s) - 1)
  BY DEF Last, Front
<1>2. Len(s) \in Nat \ {0} /\ \A i \in 1 .. Len(s) : s[i] \in S
  BY SequenceFacts
<1> DEFINE n == Len(s) - 1
<1>3. n \in Nat /\ \A i \in 1 .. n : s[i] \in S
  BY <1>2
<1>4. /\ SubSeq(s, 1, n) \in Seq(S)
      /\ Len(SubSeq(s, 1, n)) = n
      /\ \A i \in 1 .. n : SubSeq(s, 1, n)[i] = s[i]
  <2> HIDE DEF n
  <2>1. /\ SubSeq(s, 1, n) \in Seq(S)
        /\ Len(SubSeq(s, 1, n)) = IF 1 <= n THEN n - 1 + 1 ELSE 0
        /\ \A i \in 1 .. n - 1 + 1 : SubSeq(s, 1, n)[i] = s[1 + i - 1]
    BY <1>3, SubSeqProperties
  <2> QED
    BY <1>3, <2>1
<1> QED
  BY <1>1, <1>4

\* What a call of new_node does to the inventory.
LEMMA NewTakes ==
  ASSUME TypeInv, PoolInv, New, Available >= 1
  PROVE  /\ frontier' \in 0 .. MaxBlocks /\ stack' \in Seq(Blocks)
         /\ PoolInv'
         /\ Fresh \in Blocks /\ Fresh \notin Used
         /\ Used' = Used \cup {Fresh}
         /\ Available' = Available - 1
<1> USE TypedPool
<1>1. CASE stack = <<>>
  <2>1. /\ Fresh = frontier /\ frontier' = frontier + 1 /\ stack' = stack
        /\ Len(stack) = 0 /\ ToSet(stack) = {}
        /\ frontier + 1 <= MaxBlocks
    BY <1>1 DEF New, Fresh, Available
  <2>2. frontier' \in 0 .. MaxBlocks /\ stack' \in Seq(Blocks) /\ Fresh \in Blocks
    BY <2>1 DEF TypeInv
  <2>3. PoolInv'
    BY <2>1 DEF PoolInv
  <2>4. Fresh \notin Used /\ Used' = Used \cup {Fresh}
    BY <2>1 DEF Used
  <2> QED
    BY <2>1, <2>2, <2>3, <2>4 DEF Available
<1>2. CASE stack # <<>>
  <2> DEFINE n == Len(stack)
  <2>1. /\ Fresh = stack[n] /\ frontier' = frontier
        /\ stack' \in Seq(Blocks) /\ Len(stack') = n - 1
        /\ \A i \in 1 .. n - 1 : stack'[i] = stack[i]
    BY <1>2, LastAndFront DEF New, Fresh, TypeInv
  <2>2. n \in Nat /\ n > 0
    BY <1>2
  <2>3. /\ ToSet(stack') = {stack'[i] : i \in 1 .. n - 1}
        /\ ToSet(stack) = {stack[i] : i \in 1 .. n}
    BY <2>1, SequenceFacts
  <2>4. Fresh \in ToSet(stack) /\ ToSet(stack') = ToSet(stack) \ {Fresh}
    <3> HIDE DEF n
    <3>1. \A i \in 1 .. n : i # n => stack[i] # Fresh
      BY <2>1, <2>2 DEF PoolInv, n
    <3> QED
      BY <2>1, <2>2, <2>3, <3>1
  <2>5. Fresh \in 0 .. frontier - 1 /\ Fresh \in Blocks
    BY <2>4 DEF PoolInv
  <2>6. PoolInv'
    BY <2>1, <2>2, <2>4 DEF PoolInv
  <2>7. Fresh \notin Used /\ Used' = Used \cup {Fresh}
    BY <2>1, <2>4, <2>5 DEF Used
  <2>8. Available' = Available - 1 /\ frontier' \in 0 .. MaxBlocks
    BY <2>1, <2>2 DEF Available
  <2> QED
    BY <2>1, <2>5, <2>6, <2>7, <2>8
<1> QED
  BY <1>1, <1>2

\* What a call of delete_node does to it.
LEMMA FreeReturns ==
  ASSUME TypeInv, PoolInv, NEW b \in Used, Free(b)
  PROVE  /\ frontier' = frontier /\ stack' \in Seq(Blocks)
         /\ PoolInv'
         /\ Used' = Used \ {b}
         /\ Available' = Available + 1
<1> USE TypedPool
<1> DEFINE n == Len(stack)
<1>1. b \in Blocks /\ b \in 0 .. frontier - 1 /\ b \notin ToSet(stack)
  BY DEF Used
<1>2. /\ frontier' = frontier
      /\ stack' \in Seq(Blocks) /\ Len(stack') = n + 1
      /\ \A i \in 1 .. n : stack'[i] = stack[i]
      /\ stack'[n + 1] = b
  BY <1>1, AppendProperties DEF Free, TypeInv
<1>3. /\ ToSet(stack') = {stack'[i] : i \in 1 .. n + 1}
      /\ ToSet(stack) = {stack[i] : i \in 1 .. n}
      /\ n \in Nat
  BY <1>2, SequenceFacts
<1>4. ToSet(stack') = ToSet(stack) \cup {b}
  <2> HIDE DEF n
  <2> QED
    BY <1>2, <1>3
<1>5. PoolInv'
  <2>1. ASSUME NEW i \in 1 .. n + 1, NEW j \in 1 .. n + 1, i # j
        PROVE  stack'[i] # stack'[j]
    <3>1. \A k \in 1 .. n : stack[k] # b
      BY <1>1, <1>3
    <3>2. \A k \in 1 .. n + 1 : k \in 1 .. n \/ k = n + 1
      BY <1>3
    <3> QED
      BY <1>2, <2>1, <3>1, <3>2 DEF PoolInv
  <2> QED
    BY <1>1, <1>2, <1>4, <2>1 DEF PoolInv
<1>6. Used' = Used \ {b}
  BY <1>2, <1>4 DEF Used
<1> QED
  BY <1>2, <1>3, <1>5, <1>6 DEF Available, TypeInv

-----------------------------------------------------------------------------
(***************************************************************************)
(* The state of the call in progress.                                      *)
(***************************************************************************)
LEMMA JobFacts ==
  ASSUME NEW p \in Procs, TypeInv
  PROVE  /\ job[p] \in Jobs
         /\ NoBlock \notin Blocks
         /\ Resting \in Jobs
         /\ \A r \in Jobs :
              /\ [job EXCEPT ![p] = r] \in [Procs -> Jobs]
              /\ [job EXCEPT ![p] = r][p] = r
BY DEF TypeInv, Jobs, Resting, NoBlock, Blocks

LEMMA KindOfId ==
  ASSUME NEW id \in Ids
  PROVE  id[1] \in Kinds
BY DEF Ids, Kinds

\* A step that only moves a call on leaves the inventory as it is.
LEMMA SameInventory ==
  ASSUME NEW p, Inventory(p),
         UNCHANGED <<disk, roots, entries, torn, ruined, hurt>>,
         Used' = Used, Hand(p)' = Hand(p),
         \A i : Body(p, i)' = Body(p, i) /\ Stem(p, i)' = Stem(p, i)
  PROVE  Inventory(p)'
<1>1. \A i : Kept(p, i)' = Kept(p, i) /\ BlockOf(i)' = BlockOf(i)
  BY DEF Kept, BlockOf
<1>2. Sound' = Sound
  BY DEF Sound
<1> QED
  BY <1>1, <1>2 DEF Inventory

\* A step of a call that takes a block in hand.
LEMMA MoreInHand ==
  ASSUME NEW p, Inventory(p), NEW b, b \notin Used,
         UNCHANGED <<disk, roots, entries, torn, ruined, hurt>>,
         Used' = Used \cup {b}, Hand(p)' = Hand(p) \cup {b},
         \A i : Body(p, i)' = Body(p, i) /\ Stem(p, i)' = Stem(p, i)
  PROVE  Inventory(p)'
<1>1. \A i : Kept(p, i)' = Kept(p, i) /\ BlockOf(i)' = BlockOf(i)
  BY DEF Kept, BlockOf
<1>2. Sound' = Sound
  BY DEF Sound
<1> QED
  BY <1>1, <1>2 DEF Inventory

\* A step of a deletion gives back one block of the name it deletes.
LEMMA FewerBlocks ==
  ASSUME NEW p, Inventory(p), NEW id \in DOMAIN entries, NEW b \in Body(p, id),
         UNCHANGED <<disk, roots, entries, torn, ruined, hurt>>,
         Used' = Used \ {b}, Hand(p)' = Hand(p),
         Body(p, id)' = Body(p, id) \ {b},
         \A i : i # id => Body(p, i)' = Body(p, i),
         \A i : Stem(p, i)' = Stem(p, i)
  PROVE  Inventory(p)'
<1>1. Sound' = Sound /\ \A i : BlockOf(i)' = BlockOf(i)
  BY DEF Sound, BlockOf
<1>2. roots' \subseteq Used' /\ Hand(p)' \subseteq Used' \ roots'
  <2>1. b \in Kept(p, id)
    BY DEF Kept
  <2> QED
    BY <2>1 DEF Inventory
<1>3. /\ Kept(p, id)' = Kept(p, id) \ {b}
      /\ \A i : i # id => Kept(p, i)' = Kept(p, i)
  <2>1. b \notin Stem(p, id)
    BY DEF Inventory
  <2> QED
    BY <2>1 DEF Kept
<1>4. ASSUME NEW i \in DOMAIN entries
      PROVE  /\ Kept(p, i)' \subseteq Used' \ (roots' \cup Hand(p)')
             /\ Stem(p, i)' \cap Body(p, i)' = {}
  <2>1. i = id \/ Kept(p, i) \cap Kept(p, id) = {}
    BY DEF Inventory
  <2>2. /\ Kept(p, i)' \subseteq Kept(p, i) /\ b \notin Kept(p, i)'
        /\ Body(p, i)' \subseteq Body(p, i)
    BY <1>3, <2>1 DEF Kept
  <2> QED
    BY <2>2 DEF Inventory
<1>5. \A i, j \in DOMAIN entries :
        i # j => Kept(p, i)' \cap Kept(p, j)' = {}
  <2>1. \A i \in DOMAIN entries : Kept(p, i)' \subseteq Kept(p, i)
    BY <1>3
  <2> QED
    BY <2>1 DEF Inventory
<1>6. ASSUME ~hurt', NEW c \in Used'
      PROVE  \/ c \in roots' \cup Hand(p)'
             \/ \E i \in DOMAIN entries' : c \in Kept(p, i)'
  <2>1. c \in roots \cup Hand(p) \/ \E i \in DOMAIN entries : c \in Kept(p, i)
    BY <1>6 DEF Inventory
  <2> QED
    BY <1>3, <2>1
<1> QED
  BY <1>1, <1>2, <1>4, <1>5, <1>6 DEF Inventory

\* A process that is not installing works on an installed database.
LEMMA Installed ==
  ASSUME NEW p, IInv(p), Naming(p) \/ Using(p)
  PROVE  ~bare /\ Inventory(p)
BY DEF IInv, CallInv, Naming, Using

LEMMA RoomFor ==
  ASSUME NEW p, Procs = {p}, TypeInv, NEW n \in Nat, Room(n)
  PROVE  Available >= n
<1>1. Cardinality(Procs) = 1
  BY FS_Singleton
<1> QED
  BY <1>1, TypedPool DEF Room, Available

\* A name whose structure is not being freed keeps its header.
LEMMA HeaderIsKept ==
  ASSUME NEW p, TypeInv, Inventory(p), ~Dropping(p),
         NEW i \in DOMAIN entries \ torn
  PROVE  /\ BlockOf(i) \in Blocks
         /\ BlockOf(i) \in Used \ (roots \cup Hand(p))
         /\ BlockOf(i) \in Body(p, i)
<1>1. i \in DOMAIN entries /\ BlockOf(i) \in Blocks
  BY DEF TypeInv, Entries, BlockOf
<1>2. BlockOf(i) \in Body(p, i)
  BY <1>1 DEF Body
<1> QED
  BY <1>1, <1>2 DEF Inventory, Kept

-----------------------------------------------------------------------------
(***************************************************************************)
(* The steps of a create.                                                  *)
(***************************************************************************)
LEMMA CreateCallStep ==
  ASSUME NEW p, Procs = {p}, IInv(p), NEW id \in Ids, CreateCall(p, id)
  PROVE  IInv(p)'
<1> USE DEF IInv
<1>1. ~bare /\ Inventory(p) /\ At(p, "idle") /\ id[1] \notin ruined
  BY DEF CreateCall, Call, Idle
<1>2. UNCHANGED <<frontier, stack, disk, roots, entries, torn, ruined, hurt, bare>>
  BY DEF CreateCall, pool, history
<1>3. /\ job'[p] \in Jobs /\ job' \in [Procs -> Jobs]
      /\ \/ job'[p].pc = "idle"
         \/ job'[p].pc = "create" /\ job'[p].id = id /\ ~Exists(id)
  <2>1. CASE Exists(id)
    <3>1. BlockOf(id) \in Blocks
      BY <2>1 DEF TypeInv, Exists, BlockOf, Entries
    <3>2. job' = [job EXCEPT ![p] = [Resting EXCEPT !.blk = BlockOf(id)]]
      BY <2>1 DEF CreateCall
    <3> QED
      BY <3>1, <3>2, JobFacts DEF Resting, Jobs
  <2>2. CASE ~Exists(id)
    <3>1. job' = [job EXCEPT ![p] = [Resting EXCEPT !.pc = "create", !.id = id]]
      BY <2>2 DEF CreateCall
    <3> QED
      BY <2>2, <3>1, JobFacts DEF Resting, Jobs
  <2> QED
    BY <2>1, <2>2
<1>4. TypeInv' /\ PoolInv'
  BY <1>2, <1>3 DEF TypeInv, PoolInv
<1>5. Available >= 2
  BY RoomFor DEF CreateCall
<1>6. CallInv(p)'
  BY <1>1, <1>2, <1>3, <1>5
     DEF CallInv, Available, Demand, At, Exists, Naming, Using
<1>7. /\ Used' = Used /\ Hand(p)' = Hand(p)
      /\ \A i : Body(p, i)' = Body(p, i) /\ Stem(p, i)' = Stem(p, i)
  BY <1>1, <1>2, <1>3 DEF Used, Hand, Body, Stem, Dropping, At, BlockOf
<1>8. Inventory(p)'
  BY <1>1, <1>2, <1>7, SameInventory
<1> QED
  BY <1>2, <1>4, <1>6, <1>8

LEMMA CreateBlockStep ==
  ASSUME NEW p, Procs = {p}, IInv(p), CreateBlock(p)
  PROVE  IInv(p)'
<1> USE DEF IInv
<1>1. ~bare /\ Inventory(p) /\ At(p, "create") /\ Available >= 2
  BY Installed DEF CreateBlock, At, CallInv, Demand, Naming
<1>2. UNCHANGED <<disk, roots, entries, torn, ruined, hurt, bare>>
  BY DEF CreateBlock, history
<1>3. /\ frontier' \in 0 .. MaxBlocks /\ stack' \in Seq(Blocks)
      /\ PoolInv'
      /\ Fresh \in Blocks /\ Fresh \notin Used
      /\ Used' = Used \cup {Fresh}
      /\ Available' = Available - 1
  <2>1. New /\ Available >= 1
    BY <1>1, TypedPool DEF CreateBlock, Available
  <2> QED
    BY <2>1, NewTakes
<1>4. /\ job' \in [Procs -> Jobs] /\ job[p] \in Jobs
      /\ job'[p].pc = "save" /\ job'[p].id = job[p].id /\ job'[p].blk = Fresh
  BY <1>3, JobFacts DEF CreateBlock, Jobs, TypeInv
<1>5. TypeInv'
  BY <1>2, <1>3, <1>4 DEF TypeInv
<1>6. CallInv(p)'
  <2>1. Available' >= 1
    BY <1>1, <1>3, TypedPool DEF Available
  <2> QED
    BY <1>1, <1>2, <1>3, <1>4, <2>1
       DEF CallInv, Demand, At, Exists, Naming, Using
<1>7. /\ Hand(p)' = Hand(p) \cup {Fresh}
      /\ \A i : Body(p, i)' = Body(p, i) /\ Stem(p, i)' = Stem(p, i)
  BY <1>1, <1>2, <1>4 DEF Hand, Body, Stem, Dropping, At, BlockOf
<1>8. Inventory(p)'
  BY <1>1, <1>2, <1>3, <1>7, MoreInHand
<1> QED
  BY <1>2, <1>3, <1>5, <1>6, <1>8

LEMMA CreateSaveStep ==
  ASSUME NEW p, Procs = {p}, IInv(p), CreateSave(p)
  PROVE  IInv(p)'
<1> USE DEF IInv
<1> DEFINE b == job[p].blk
<1>1. /\ ~bare /\ Inventory(p) /\ At(p, "save") /\ Available >= 1
      /\ b \in Blocks /\ job[p].id \in Ids /\ ~Exists(job[p].id)
      /\ job[p].id[1] \notin ruined
  BY Installed DEF CreateSave, At, CallInv, Demand, Naming
<1>2. UNCHANGED <<frontier, stack, roots, entries, torn, ruined, hurt, bare>>
  BY DEF CreateSave, pool, history
<1>3. /\ job' \in [Procs -> Jobs] /\ job[p] \in Jobs
      /\ job'[p].pc = "add" /\ job'[p].id = job[p].id /\ job'[p].blk = b
  BY JobFacts DEF CreateSave, Goto, Jobs, TypeInv
<1>4. /\ disk' \in [Blocks -> Records]
      /\ disk'[b] = Header(job[p].id, {})
      /\ \A c \in Blocks \ {b} : disk'[c] = disk[c]
  <2>1. Header(job[p].id, {}) \in Records
    BY <1>1 DEF Header, Records, Tags
  <2>2. disk' = [disk EXCEPT ![b] = Header(job[p].id, {})]
    BY DEF CreateSave
  <2> QED
    BY <1>1, <2>1, <2>2 DEF TypeInv
<1>5. TypeInv' /\ PoolInv'
  BY <1>2, <1>3, <1>4 DEF TypeInv, PoolInv
<1>6. CallInv(p)'
  BY <1>1, <1>2, <1>3, <1>4
     DEF CallInv, Demand, At, Exists, Available, Naming, Using
<1>7. Used' = Used /\ Hand(p) = {b} /\ Hand(p)' = {b}
  BY <1>1, <1>2, <1>3 DEF Hand, Used, At
<1>8. \A i \in DOMAIN entries \ torn : disk'[BlockOf(i)] = disk[BlockOf(i)]
  <2>1. ASSUME NEW i \in DOMAIN entries \ torn
        PROVE  BlockOf(i) \in Blocks /\ BlockOf(i) # b
    BY <1>1, <1>7, HeaderIsKept DEF At, Dropping
  <2> QED
    BY <1>4, <2>1
<1>9. \A i \in DOMAIN entries : Body(p, i)' = Body(p, i) /\ Stem(p, i)' = Stem(p, i)
  BY <1>1, <1>2, <1>3, <1>8 DEF Body, Stem, Dropping, At, BlockOf
<1>10. Inventory(p)'
  <2>1. Sound' = Sound /\ Sound \subseteq DOMAIN entries \ torn
    BY <1>2 DEF Sound
  <2> QED
    BY <1>1, <1>2, <1>7, <1>8, <1>9, <2>1 DEF Inventory, Kept, BlockOf
<1> QED
  BY <1>2, <1>5, <1>6, <1>10

LEMMA AddDescendStep ==
  ASSUME NEW p, Procs = {p}, IInv(p), AddDescend(p)
  PROVE  IInv(p)'
<1> USE DEF IInv
<1>1. /\ ~bare /\ Inventory(p) /\ At(p, "add") /\ Available >= 1
      /\ ~Exists(job[p].id)
  BY Installed DEF AddDescend, At, CallInv, Demand, Naming
<1>2. UNCHANGED <<frontier, stack, disk, roots, entries, torn, ruined, hurt, bare>>
  BY DEF AddDescend, pool, history
<1>3. /\ job' \in [Procs -> Jobs] /\ job[p] \in Jobs
      /\ job'[p].pc = "leaf" /\ job'[p].id = job[p].id /\ job'[p].blk = job[p].blk
  <2>1. job' = [job EXCEPT ![p] = [job[p] EXCEPT !.pc = "leaf"]]
    BY <1>1 DEF AddDescend, TypeInv
  <2> QED
    BY <2>1, JobFacts DEF Jobs
<1>4. TypeInv' /\ PoolInv'
  BY <1>2, <1>3 DEF TypeInv, PoolInv
<1>5. CallInv(p)'
  BY <1>1, <1>2, <1>3 DEF CallInv, Demand, At, Exists, Available, Naming, Using
<1>6. /\ Used' = Used /\ Hand(p)' = Hand(p)
      /\ \A i : Body(p, i)' = Body(p, i) /\ Stem(p, i)' = Stem(p, i)
  BY <1>1, <1>2, <1>3 DEF Used, Hand, Body, Stem, Dropping, At, BlockOf
<1>7. Inventory(p)'
  BY <1>1, <1>2, <1>6, SameInventory
<1> QED
  BY <1>2, <1>4, <1>5, <1>7

LEMMA AddLeafStep ==
  ASSUME NEW p, Procs = {p}, IInv(p), AddLeaf(p)
  PROVE  IInv(p)'
<1> USE DEF IInv
<1>1. ~bare /\ Inventory(p) /\ At(p, "leaf") /\ Available >= 1
  BY Installed DEF AddLeaf, At, CallInv, Demand, Naming
<1>2. UNCHANGED <<disk, roots, entries, torn, ruined, hurt, bare>>
  BY DEF AddLeaf, history
<1>3. /\ frontier' \in 0 .. MaxBlocks /\ stack' \in Seq(Blocks)
      /\ PoolInv'
      /\ Fresh \in Blocks /\ Fresh \notin Used
      /\ Used' = Used \cup {Fresh}
      /\ Available' = Available - 1
  BY <1>1, NewTakes DEF AddLeaf
<1>4. /\ job' \in [Procs -> Jobs] /\ job[p] \in Jobs
      /\ job'[p].pc = "hang" /\ job'[p].id = job[p].id
      /\ job'[p].blk = job[p].blk /\ job'[p].left = {Fresh}
  <2> DEFINE leaf == {Fresh}
  <2>1. job[p] \in Jobs /\ leaf \in SUBSET Blocks
    BY <1>3, JobFacts
  <2>2. job' = [job EXCEPT ![p].pc = "hang", ![p].left = leaf]
    BY DEF AddLeaf
  <2> HIDE DEF leaf
  <2>3. /\ job' \in [Procs -> Jobs] /\ job'[p].pc = "hang" /\ job'[p].id = job[p].id
        /\ job'[p].blk = job[p].blk /\ job'[p].left = leaf
    BY <2>1, <2>2 DEF Jobs, TypeInv
  <2> QED
    BY <2>1, <2>3 DEF leaf
<1>5. TypeInv'
  BY <1>2, <1>3, <1>4 DEF TypeInv
<1>6. Hand(p) = {job[p].blk} /\ job[p].blk # Fresh
  BY <1>1, <1>3 DEF Hand, At, Inventory
<1>7. CallInv(p)'
  <2>1. Available' >= 0
    BY <1>1, <1>3, TypedPool DEF Available
  <2> QED
    BY <1>1, <1>2, <1>3, <1>4, <1>6, <2>1
       DEF CallInv, Demand, At, Exists, Naming, Using
<1>8. /\ Hand(p)' = Hand(p) \cup {Fresh}
      /\ \A i : Body(p, i)' = Body(p, i) /\ Stem(p, i)' = Stem(p, i)
  BY <1>1, <1>2, <1>4 DEF Hand, Body, Stem, Dropping, At, BlockOf
<1>9. Inventory(p)'
  BY <1>1, <1>2, <1>3, <1>8, MoreInHand
<1> QED
  BY <1>2, <1>3, <1>5, <1>7, <1>9

\* What the last step of an add starts from.
LEMMA Hanging ==
  ASSUME NEW p, Procs = {p}, IInv(p), AddHang(p)
  PROVE  \E id \in Ids, h \in Blocks, leaf \in Blocks :
           /\ ~bare /\ Inventory(p) /\ At(p, "hang") /\ Available >= 0
           /\ id = job[p].id /\ h = job[p].blk /\ job[p].left = {leaf}
           /\ h # leaf /\ Hand(p) = {h, leaf}
           /\ id \notin DOMAIN entries /\ id[1] \notin ruined
           /\ disk[h] = Header(id, {})
           /\ disk' = [disk EXCEPT ![leaf] = Node]
           /\ entries' = [i \in DOMAIN entries \cup {id} |->
                            IF i = id THEN [node |-> leaf, blk |-> h] ELSE entries[i]]
           /\ UNCHANGED <<frontier, stack, roots, torn, ruined, hurt, bare>>
<1>1. /\ ~bare /\ Inventory(p) /\ At(p, "hang") /\ Available >= 0
      /\ job[p].id \in Ids /\ job[p].blk \in Blocks
      /\ job[p].id \notin DOMAIN entries /\ job[p].id[1] \notin ruined
      /\ disk[job[p].blk] = Header(job[p].id, {})
  BY Installed DEF IInv, AddHang, At, CallInv, Demand, Naming, Exists
<1>2. PICK leaf \in Blocks : job[p].left = {leaf} /\ leaf # job[p].blk
  BY <1>1 DEF IInv, CallInv, At
<1>3. Hand(p) = {job[p].blk, leaf}
  BY <1>1, <1>2 DEF Hand, At
<1>4. /\ disk' = [disk EXCEPT ![leaf] = Node]
      /\ entries' = [i \in DOMAIN entries \cup {job[p].id} |->
                       IF i = job[p].id THEN [node |-> leaf, blk |-> job[p].blk]
                       ELSE entries[i]]
      /\ UNCHANGED <<frontier, stack, roots, torn, ruined, hurt, bare>>
  BY <1>2 DEF AddHang, pool, history
<1> QED
  BY <1>1, <1>2, <1>3, <1>4

LEMMA AddHangStep ==
  ASSUME NEW p, Procs = {p}, IInv(p), AddHang(p)
  PROVE  IInv(p)'
<1> USE DEF IInv
<1> PICK id \in Ids, h \in Blocks, leaf \in Blocks :
      /\ ~bare /\ Inventory(p) /\ At(p, "hang") /\ Available >= 0
      /\ id = job[p].id /\ h = job[p].blk /\ job[p].left = {leaf}
      /\ h # leaf /\ Hand(p) = {h, leaf}
      /\ id \notin DOMAIN entries /\ id[1] \notin ruined
      /\ disk[h] = Header(id, {})
      /\ disk' = [disk EXCEPT ![leaf] = Node]
      /\ entries' = [i \in DOMAIN entries \cup {id} |->
                       IF i = id THEN [node |-> leaf, blk |-> h] ELSE entries[i]]
      /\ UNCHANGED <<frontier, stack, roots, torn, ruined, hurt, bare>>
  BY Hanging
<1>1. Used' = Used /\ {h, leaf} \subseteq Used \ roots
  BY DEF Used, Inventory
<1>2. job' \in [Procs -> Jobs] /\ job'[p].pc = "idle"
  <2>1. job' = [job EXCEPT ![p] = [Resting EXCEPT !.blk = h]]
    BY DEF AddHang
  <2>2. [Resting EXCEPT !.blk = h] \in Jobs
    BY DEF Resting, Jobs
  <2> QED
    BY <2>1, <2>2, JobFacts DEF Resting
<1>3. /\ disk' \in [Blocks -> Records]
      /\ \A c \in Blocks \ {leaf} : disk'[c] = disk[c]
  <2>1. Node \in Records
    BY DEF Node, Records, Tags
  <2> QED
    BY <2>1 DEF TypeInv
<1>4. /\ DOMAIN entries' = DOMAIN entries \cup {id}
      /\ entries'[id] = [node |-> leaf, blk |-> h]
      /\ \A i \in DOMAIN entries : entries'[i] = entries[i]
  OBVIOUS
<1>5. TypeInv' /\ PoolInv'
  BY <1>2, <1>3, <1>4 DEF TypeInv, Entries, PoolInv
<1>6. CallInv(p)'
  BY <1>2 DEF CallInv, Demand, At, Available, Naming, Using
<1>7. Hand(p)' = {}
  BY <1>2 DEF Hand, At
<1>8. \A i \in DOMAIN entries \ torn : disk'[BlockOf(i)] = disk[BlockOf(i)]
  BY <1>3, HeaderIsKept DEF At, Dropping
<1>9. \A i \in DOMAIN entries : /\ Kept(p, i)' = Kept(p, i)
                                /\ Body(p, i)' = Body(p, i)
                                /\ Stem(p, i)' = Stem(p, i)
  <2>1. \A i \in DOMAIN entries : Stem(p, i)' = Stem(p, i)
    BY <1>2, <1>4 DEF Stem, At
  <2>2. \A i \in DOMAIN entries : BlockOf(i)' = BlockOf(i)
    BY <1>4 DEF BlockOf
  <2>3. ~Dropping(p) /\ ~Dropping(p)' /\ ~At(p, "release") /\ ~At(p, "release")'
    BY <1>2 DEF Dropping, At
  <2>4. \A i \in DOMAIN entries : Body(p, i)' = Body(p, i)
    BY <1>8, <2>2, <2>3 DEF Body
  <2> QED
    BY <2>1, <2>4 DEF Kept
<1>10. /\ id \notin torn /\ disk'[h] = Header(id, {})
       /\ Body(p, id)' = {h} /\ Stem(p, id)' = {leaf} /\ Kept(p, id)' = {leaf, h}
  <2>1. id \notin torn /\ disk'[h] = Header(id, {})
    BY <1>3 DEF Inventory
  <2>2. BlockOf(id)' = h /\ disk'[h].nodes = {}
    BY <1>4, <2>1 DEF BlockOf, Header
  <2>3. Body(p, id)' = {h} /\ Stem(p, id)' = {leaf}
    BY <1>2, <1>4, <2>1, <2>2 DEF Body, Stem, Dropping, At
  <2> QED
    BY <2>1, <2>3 DEF Kept
<1>11. Inventory(p)'
  <2>1. /\ torn' \subseteq DOMAIN entries' /\ roots' = {0, 1}
        /\ roots' \subseteq Used' /\ Hand(p)' \subseteq Used' \ roots'
    BY <1>1, <1>4, <1>7 DEF Inventory
  <2>2. \A i \in DOMAIN entries : /\ Kept(p, i) \subseteq Used \ (roots \cup {h, leaf})
                                  /\ Stem(p, i) \cap Body(p, i) = {}
    BY DEF Inventory
  <2>3. \A i \in DOMAIN entries' :
          /\ Kept(p, i)' \subseteq Used' \ (roots' \cup Hand(p)')
          /\ Stem(p, i)' \cap Body(p, i)' = {}
    <3>1. ASSUME NEW i \in DOMAIN entries
          PROVE  /\ Kept(p, i)' \subseteq Used' \ (roots' \cup Hand(p)')
                 /\ Stem(p, i)' \cap Body(p, i)' = {}
      BY <1>1, <1>7, <1>9, <2>2
    <3>2. /\ Kept(p, id)' \subseteq Used' \ (roots' \cup Hand(p)')
          /\ Stem(p, id)' \cap Body(p, id)' = {}
      BY <1>1, <1>7, <1>10
    <3> QED
      BY <1>4, <3>1, <3>2
  <2>4. \A i, j \in DOMAIN entries' :
          i # j => Kept(p, i)' \cap Kept(p, j)' = {}
    <3>1. \A i, j \in DOMAIN entries :
            i # j => Kept(p, i)' \cap Kept(p, j)' = {}
      BY <1>9 DEF Inventory
    <3>2. \A i \in DOMAIN entries : Kept(p, i)' \cap {leaf, h} = {}
      BY <1>9, <2>2
    <3> QED
      BY <1>4, <1>10, <3>1, <3>2
  <2>5. \A i \in Sound' :
          /\ disk'[BlockOf(i)'].id = i
          /\ BlockOf(i)' \notin disk'[BlockOf(i)'].nodes
    <3>1. Sound' \subseteq Sound \cup {id} /\ Sound \subseteq DOMAIN entries \ torn
      BY <1>4 DEF Sound
    <3>2. \A i \in Sound : BlockOf(i)' = BlockOf(i)
      BY <1>4, <3>1 DEF BlockOf
    <3>3. BlockOf(id)' = h /\ disk'[h].id = id /\ h \notin disk'[h].nodes
      BY <1>4, <1>10 DEF BlockOf, Header
    <3> QED
      BY <1>8, <3>1, <3>2, <3>3 DEF Inventory
  <2>6. ASSUME ~hurt', NEW b \in Used'
        PROVE  \/ b \in roots' \cup Hand(p)'
               \/ \E i \in DOMAIN entries' : b \in Kept(p, i)'
    <3>1. CASE b \in {leaf, h}
      BY <1>4, <1>10, <3>1
    <3>2. CASE b \in Used \ {leaf, h}
      <4>1. b \in roots \/ \E i \in DOMAIN entries : b \in Kept(p, i)
        BY <2>6, <3>2 DEF Inventory
      <4> QED
        BY <1>4, <1>9, <4>1
    <3> QED
      BY <1>1, <3>1, <3>2
  <2> QED
    BY <2>1, <2>3, <2>4, <2>5, <2>6 DEF Inventory
<1> QED
  BY <1>5, <1>6, <1>11

-----------------------------------------------------------------------------
(***************************************************************************)
(* The steps of a delete.                                                  *)
(***************************************************************************)
LEMMA DeleteCallStep ==
  ASSUME NEW p, Procs = {p}, IInv(p), NEW id \in Ids, DeleteCall(p, id)
  PROVE  IInv(p)'
<1> USE DEF IInv
<1>1. /\ ~bare /\ Inventory(p) /\ At(p, "idle") /\ Available >= 0
      /\ id \in Sound /\ BlockOf(id) \in Blocks
  <2>1. ~bare /\ At(p, "idle") /\ id \in Sound
    BY DEF DeleteCall, Call, Idle, Exists, Sound
  <2>2. BlockOf(id) \in Blocks
    BY <2>1 DEF Sound, BlockOf, TypeInv, Entries
  <2> QED
    BY <2>1, <2>2 DEF CallInv, Demand, At
<1>2. UNCHANGED <<frontier, stack, disk, roots, entries, torn, ruined, hurt, bare>>
  BY DEF DeleteCall, pool, history
<1>3. /\ job' \in [Procs -> Jobs]
      /\ job'[p] = [pc |-> "release", id |-> id, blk |-> BlockOf(id),
                    left |-> disk[BlockOf(id)].nodes]
  <2>1. disk[BlockOf(id)].nodes \subseteq Blocks
    BY <1>1 DEF TypeInv, Records
  <2>2. [pc |-> "release", id |-> id, blk |-> BlockOf(id),
         left |-> disk[BlockOf(id)].nodes] \in Jobs
    BY <1>1, <2>1 DEF Jobs
  <2> QED
    BY <2>2, JobFacts DEF DeleteCall
<1>4. TypeInv' /\ PoolInv'
  BY <1>2, <1>3 DEF TypeInv, PoolInv
<1>5. CallInv(p)'
  BY <1>1, <1>2, <1>3
     DEF CallInv, Available, Demand, At, Sound, BlockOf, Naming, Using
<1>6. /\ Used' = Used /\ Hand(p)' = Hand(p)
      /\ \A i : Body(p, i)' = Body(p, i) /\ Stem(p, i)' = Stem(p, i)
  BY <1>1, <1>2, <1>3 DEF Used, Hand, Body, Stem, Dropping, At, BlockOf
<1>7. Inventory(p)'
  BY <1>1, <1>2, <1>6, SameInventory
<1> QED
  BY <1>2, <1>4, <1>5, <1>7

LEMMA ReleaseNodeStep ==
  ASSUME NEW p, Procs = {p}, IInv(p), ReleaseNode(p)
  PROVE  IInv(p)'
<1> USE DEF IInv
<1>0. ~bare /\ Inventory(p) /\ At(p, "release")
  BY Installed DEF ReleaseNode, At, Using
<1> PICK id \in Sound : id = job[p].id /\ job[p].blk = BlockOf(id)
  BY <1>0 DEF CallInv, At, Using
<1> PICK b \in job[p].left : Free(b) /\ job' = [job EXCEPT ![p].left = @ \ {b}]
  BY DEF ReleaseNode
<1>1. /\ id \in DOMAIN entries \ torn /\ job[p].left \subseteq disk[BlockOf(id)].nodes
      /\ Body(p, id) = {BlockOf(id)} \cup job[p].left
  BY <1>0 DEF CallInv, At, Sound, Body, Dropping
<1>2. b \in Used /\ b # BlockOf(id)
  BY <1>0, <1>1 DEF Inventory, Kept
<1>3. UNCHANGED <<disk, roots, entries, torn, ruined, hurt, bare>>
  BY DEF ReleaseNode, history
<1>4. /\ frontier' = frontier /\ stack' \in Seq(Blocks)
      /\ PoolInv'
      /\ Used' = Used \ {b}
      /\ Available' = Available + 1
  BY <1>2, FreeReturns
<1>5. /\ job' \in [Procs -> Jobs] /\ job[p] \in Jobs
      /\ job'[p].pc = "release" /\ job'[p].id = id
      /\ job'[p].blk = job[p].blk /\ job'[p].left = job[p].left \ {b}
  BY <1>0, JobFacts DEF Jobs, TypeInv, At
<1>6. TypeInv'
  BY <1>3, <1>4, <1>5 DEF TypeInv
<1>7. CallInv(p)'
  <2>1. Available' >= 0
    BY <1>0, <1>4, TypedPool DEF CallInv, Demand, At, Available
  <2> QED
    BY <1>0, <1>1, <1>3, <1>5, <2>1
       DEF CallInv, Demand, At, Sound, BlockOf, Naming, Using
<1>8. /\ Hand(p) = {} /\ Hand(p)' = {}
      /\ Body(p, id)' = Body(p, id) \ {b}
      /\ \A i : i # id => Body(p, i)' = Body(p, i)
      /\ \A i : Stem(p, i)' = Stem(p, i)
  BY <1>0, <1>1, <1>2, <1>3, <1>5 DEF Hand, Body, Stem, Dropping, At, BlockOf
<1>9. b \in Body(p, id)
  BY <1>1
<1>10. Inventory(p)'
  BY <1>0, <1>1, <1>3, <1>4, <1>8, <1>9, FewerBlocks
<1> QED
  BY <1>3, <1>4, <1>6, <1>7, <1>10

LEMMA ReleaseHeaderStep ==
  ASSUME NEW p, Procs = {p}, IInv(p), ReleaseHeader(p)
  PROVE  IInv(p)'
<1> USE DEF IInv
<1>0. /\ ~bare /\ Inventory(p) /\ At(p, "release")
      /\ job[p].left = {} /\ Free(job[p].blk)
  BY Installed DEF ReleaseHeader, At, Using
<1> PICK id \in Sound : id = job[p].id /\ job[p].blk = BlockOf(id)
  BY <1>0 DEF CallInv, At, Using
<1> PICK b : b = BlockOf(id)
  OBVIOUS
<1>1. id \in DOMAIN entries \ torn /\ Body(p, id) = {b}
  BY <1>0 DEF CallInv, At, Sound, Body, Dropping
<1>2. b \in Used
  BY <1>0, <1>1 DEF Inventory, Kept
<1>3. UNCHANGED <<disk, roots, entries, torn, ruined, hurt, bare>>
  BY DEF ReleaseHeader, history
<1>4. /\ frontier' = frontier /\ stack' \in Seq(Blocks)
      /\ PoolInv'
      /\ Used' = Used \ {b}
      /\ Available' = Available + 1
  BY <1>0, <1>2, FreeReturns
<1>5. /\ job' \in [Procs -> Jobs] /\ job[p] \in Jobs
      /\ job'[p].pc = "drop" /\ job'[p].id = id /\ job'[p].blk = job[p].blk
  BY <1>0, JobFacts DEF ReleaseHeader, Goto, Jobs, TypeInv, At
<1>6. TypeInv'
  BY <1>3, <1>4, <1>5 DEF TypeInv
<1>7. CallInv(p)'
  <2>1. Available' >= 0
    BY <1>0, <1>4, TypedPool DEF CallInv, Demand, At, Available
  <2> QED
    BY <1>0, <1>1, <1>3, <1>5, <2>1
       DEF CallInv, Demand, At, Sound, BlockOf, Naming, Using
<1>8. /\ Hand(p) = {} /\ Hand(p)' = {}
      /\ Body(p, id)' = Body(p, id) \ {b}
      /\ \A i : i # id => Body(p, i)' = Body(p, i)
      /\ \A i : Stem(p, i)' = Stem(p, i)
  BY <1>0, <1>1, <1>2, <1>3, <1>5 DEF Hand, Body, Stem, Dropping, At, BlockOf
<1>9. b \in Body(p, id)
  BY <1>1
<1>10. Inventory(p)'
  BY <1>0, <1>1, <1>3, <1>4, <1>8, <1>9, FewerBlocks
<1> QED
  BY <1>3, <1>4, <1>6, <1>7, <1>10

LEMMA DropUnhangStep ==
  ASSUME NEW p, Procs = {p}, IInv(p), DropUnhang(p)
  PROVE  IInv(p)'
<1> USE DEF IInv
<1>0. ~bare /\ Inventory(p) /\ At(p, "drop")
  BY Installed DEF DropUnhang, At, Using
<1> PICK id \in Sound : id = job[p].id /\ job[p].blk = BlockOf(id)
  BY <1>0 DEF CallInv, At, Using
<1>1. UNCHANGED <<frontier, stack, disk, roots, entries, torn, ruined, hurt, bare>>
  BY DEF DropUnhang, pool, history
<1>2. /\ job' \in [Procs -> Jobs] /\ job[p] \in Jobs
      /\ job'[p].pc = "free" /\ job'[p].id = id /\ job'[p].blk = job[p].blk
  <2>1. Goto(p, "free")
    BY DEF DropUnhang, Exists, Sound
  <2> QED
    BY <2>1, JobFacts DEF Goto, Jobs, TypeInv
<1>3. TypeInv' /\ PoolInv'
  BY <1>1, <1>2 DEF TypeInv, PoolInv
<1>4. CallInv(p)'
  BY <1>0, <1>1, <1>2
     DEF CallInv, Demand, At, Sound, BlockOf, Available, Naming, Using
<1>5. /\ Used' = Used /\ Hand(p)' = Hand(p)
      /\ \A i : Body(p, i)' = Body(p, i) /\ Stem(p, i)' = Stem(p, i)
  BY <1>0, <1>1, <1>2 DEF Used, Hand, Body, Stem, Dropping, At, BlockOf
<1>6. Inventory(p)'
  BY <1>0, <1>1, <1>5, SameInventory
<1> QED
  BY <1>1, <1>3, <1>4, <1>6

LEMMA DropFreeStep ==
  ASSUME NEW p, Procs = {p}, IInv(p), DropFree(p)
  PROVE  IInv(p)'
<1> USE DEF IInv
<1>0. ~bare /\ Inventory(p) /\ At(p, "free")
  BY Installed DEF DropFree, At, Using
<1> PICK id \in Sound : id = job[p].id /\ job[p].blk = BlockOf(id)
  BY <1>0 DEF CallInv, At, Using
<1> PICK other \in DOMAIN entries :
      /\ other[1] = id[1]
      /\ Free(entries[other].node)
      /\ entries' = [entries EXCEPT ![other].node = entries[id].node,
                                    ![id].node = entries[other].node]
  BY DEF DropFree, SameKind
<1> PICK b \in Blocks, c \in Blocks : b = entries[other].node /\ c = entries[id].node
  BY DEF TypeInv, Entries, Sound
<1>1. /\ id \in DOMAIN entries \ torn /\ id[1] \notin ruined
      /\ Body(p, id) = {} /\ Stem(p, id) = {c}
      /\ Stem(p, other) = {b}
  BY <1>0 DEF Sound, Body, Stem, Dropping, At
<1>2. b \in Used
  BY <1>0, <1>1 DEF Inventory, Kept
<1>3. UNCHANGED <<disk, roots, torn, ruined, hurt, bare>>
  BY DEF DropFree, history
<1>4. /\ frontier' = frontier /\ stack' \in Seq(Blocks)
      /\ PoolInv'
      /\ Used' = Used \ {b}
      /\ Available' = Available + 1
  BY <1>2, FreeReturns
<1>5. /\ job' \in [Procs -> Jobs] /\ job[p] \in Jobs
      /\ job'[p].pc = "top" /\ job'[p].id = id /\ job'[p].blk = job[p].blk
  BY <1>0, JobFacts DEF DropFree, Goto, Jobs, TypeInv, At
<1>6. /\ DOMAIN entries' = DOMAIN entries
      /\ \A i \in DOMAIN entries : /\ entries'[i] \in Entries
                                   /\ entries'[i].blk = entries[i].blk
      /\ \A i \in DOMAIN entries \ {id, other} : entries'[i] = entries[i]
      /\ id # other => entries'[other].node = c
  <2>1. \A i \in DOMAIN entries : entries[i] \in [node : Blocks, blk : Blocks]
    BY DEF TypeInv, Entries
  <2> QED
    BY <1>1, <2>1 DEF Entries
<1>7. TypeInv'
  BY <1>3, <1>4, <1>5, <1>6 DEF TypeInv
<1>8. CallInv(p)'
  <2>1. Available' >= 0
    BY <1>0, <1>4, TypedPool DEF CallInv, Demand, At, Available
  <2>2. Sound' = Sound /\ BlockOf(id)' = BlockOf(id)
    BY <1>1, <1>3, <1>6 DEF Sound, BlockOf
  <2> QED
    BY <1>0, <1>3, <1>5, <2>1, <2>2 DEF CallInv, Demand, At, Naming, Using
<1>9. /\ Hand(p) = {} /\ Hand(p)' = {}
      /\ \A i \in DOMAIN entries : Body(p, i)' = Body(p, i)
      /\ Stem(p, id)' = {} /\ Kept(p, id)' = {}
      /\ \A i \in DOMAIN entries \ {id, other} : Stem(p, i)' = Stem(p, i)
      /\ id # other => Stem(p, other)' = {c}
  <2>1. Hand(p) = {} /\ Hand(p)' = {}
    BY <1>0, <1>5 DEF Hand, At
  <2>2. \A i \in DOMAIN entries : Body(p, i)' = Body(p, i)
    BY <1>0, <1>3, <1>5, <1>6 DEF Body, Dropping, At, BlockOf
  <2>3. /\ Stem(p, id)' = {}
        /\ \A i \in DOMAIN entries \ {id, other} : Stem(p, i)' = Stem(p, i)
        /\ id # other => Stem(p, other)' = {c}
    BY <1>0, <1>1, <1>3, <1>5, <1>6 DEF Stem, At
  <2> QED
    BY <1>1, <2>1, <2>2, <2>3 DEF Kept
<1>10. \A i \in DOMAIN entries \ {id} :
         /\ Kept(p, i)' \subseteq (Kept(p, i) \cup {c}) \ {b}
         /\ i # other => Kept(p, i)' = Kept(p, i)
         /\ Stem(p, i)' \cap Body(p, i)' = {}
  <2>1. c \in Kept(p, id) /\ b \in Kept(p, other)
    BY <1>1 DEF Kept
  <2>2. ASSUME NEW i \in DOMAIN entries \ {id, other}
        PROVE  /\ Kept(p, i)' = Kept(p, i) /\ b \notin Kept(p, i)
               /\ Stem(p, i)' \cap Body(p, i)' = {}
    BY <1>0, <1>9, <2>1 DEF Inventory, Kept
  <2>3. CASE id # other
    <3>1. Kept(p, other)' = {c} \cup Body(p, other)
      BY <1>9, <2>3 DEF Kept
    <3>2. c # b /\ c \notin Body(p, other) /\ b \notin Body(p, other)
      BY <1>0, <1>1, <2>1, <2>3 DEF Inventory, Kept
    <3> QED
      BY <1>9, <2>2, <2>3, <3>1, <3>2 DEF Kept
  <2>4. CASE id = other
    BY <2>2, <2>4
  <2> QED
    BY <2>3, <2>4
<1>11. Inventory(p)'
  <2>1. b \notin roots /\ c \notin roots /\ c \in Used /\ (id # other => c # b)
    BY <1>0, <1>1 DEF Inventory, Kept
  <2>2. /\ torn' \subseteq DOMAIN entries' /\ roots' = {0, 1}
        /\ roots' \subseteq Used' /\ Hand(p)' \subseteq Used' \ roots'
    BY <1>0, <1>3, <1>4, <1>6, <1>9, <2>1 DEF Inventory
  <2>3. ASSUME NEW i \in DOMAIN entries
        PROVE  /\ Kept(p, i)' \subseteq Used' \ (roots' \cup Hand(p)')
               /\ Stem(p, i)' \cap Body(p, i)' = {}
    <3>1. CASE i = id
      BY <1>9, <3>1
    <3>2. CASE i # id
      <4>1. Kept(p, i) \subseteq Used \ roots
        BY <1>0 DEF Inventory
      <4> QED
        BY <1>3, <1>4, <1>9, <1>10, <2>1, <3>2, <4>1
    <3> QED
      BY <3>1, <3>2
  <2>4. \A i, j \in DOMAIN entries :
          i # j => Kept(p, i)' \cap Kept(p, j)' = {}
    <3>1. \A i, j \in DOMAIN entries : i # j => Kept(p, i) \cap Kept(p, j) = {}
      BY <1>0 DEF Inventory
    <3>2. \A i \in DOMAIN entries \ {id} : c \notin Kept(p, i)
      BY <1>1, <3>1 DEF Kept
    <3> QED
      BY <1>9, <1>10, <3>1, <3>2
  <2>5. \A i \in Sound' :
          /\ disk'[BlockOf(i)'].id = i
          /\ BlockOf(i)' \notin disk'[BlockOf(i)'].nodes
    <3>1. Sound' = Sound /\ \A i \in Sound : BlockOf(i)' = BlockOf(i)
      BY <1>3, <1>6 DEF Sound, BlockOf
    <3> QED
      BY <1>0, <1>3, <3>1 DEF Inventory
  <2>6. ASSUME ~hurt', NEW d \in Used'
        PROVE  \/ d \in roots' \cup Hand(p)'
               \/ \E i \in DOMAIN entries' : d \in Kept(p, i)'
    <3>1. d # b /\ (d \in roots \/ \E i \in DOMAIN entries : d \in Kept(p, i))
      BY <1>0, <1>3, <1>4, <1>9, <2>6 DEF Inventory
    <3>2. ASSUME NEW i \in DOMAIN entries, d \in Kept(p, i)
          PROVE  \E j \in DOMAIN entries' : d \in Kept(p, j)'
      <4>1. CASE i = id
        <5>1. d = c /\ id # other
          BY <1>1, <3>1, <3>2, <4>1 DEF Kept
        <5> QED
          BY <1>6, <1>9, <5>1 DEF Kept
      <4>2. CASE i = other /\ i # id
        BY <1>1, <1>6, <1>9, <3>1, <3>2, <4>2 DEF Kept
      <4>3. CASE i \notin {id, other}
        BY <1>6, <1>10, <3>2, <4>3
      <4> QED
        BY <4>1, <4>2, <4>3
    <3> QED
      BY <1>3, <3>1, <3>2
  <2> QED
    BY <1>6, <2>2, <2>3, <2>4, <2>5, <2>6 DEF Inventory
<1> QED
  BY <1>3, <1>4, <1>7, <1>8, <1>11

LEMMA DropSaveStep ==
  ASSUME NEW p, Procs = {p}, IInv(p), DropSave(p)
  PROVE  IInv(p)'
<1> USE DEF IInv
<1>0. ~bare /\ Inventory(p) /\ At(p, "top")
  BY Installed DEF DropSave, At, Using
<1> PICK id \in Sound : id = job[p].id
  BY <1>0 DEF CallInv, At, Using
<1>1. /\ id \in DOMAIN entries \ torn
      /\ Body(p, id) = {} /\ Stem(p, id) = {} /\ Kept(p, id) = {}
  BY <1>0 DEF At, Sound, Body, Stem, Kept, Dropping
<1>2. /\ torn' = torn
      /\ entries' = [i \in DOMAIN entries \ {id} |-> entries[i]]
      /\ UNCHANGED <<frontier, stack, disk, roots, ruined, hurt, bare>>
  BY <1>1 DEF DropSave, pool
<1>3. job' \in [Procs -> Jobs] /\ job'[p].pc = "idle"
  BY JobFacts DEF DropSave, Return, Resting
<1>4. /\ DOMAIN entries' = DOMAIN entries \ {id}
      /\ \A i \in DOMAIN entries' : entries'[i] = entries[i]
  BY <1>2
<1>5. TypeInv' /\ PoolInv'
  BY <1>2, <1>3, <1>4 DEF TypeInv, PoolInv
<1>6. CallInv(p)'
  <2>1. Available >= 0
    BY <1>0 DEF CallInv, Demand, At
  <2> QED
    BY <1>0, <1>2, <1>3, <2>1 DEF CallInv, Demand, At, Available, Naming, Using
<1>7. /\ Hand(p) = {} /\ Hand(p)' = {} /\ Used' = Used
      /\ \A i \in DOMAIN entries' : /\ Body(p, i)' = Body(p, i)
                                    /\ Stem(p, i)' = Stem(p, i)
                                    /\ Kept(p, i)' = Kept(p, i)
  BY <1>0, <1>2, <1>3, <1>4 DEF Hand, Used, Body, Stem, Kept, Dropping, At, BlockOf
<1>8. Inventory(p)'
  <2>1. /\ torn' \subseteq DOMAIN entries' /\ roots' = {0, 1}
        /\ roots' \subseteq Used' /\ Hand(p)' \subseteq Used' \ roots'
    BY <1>0, <1>1, <1>2, <1>4, <1>7 DEF Inventory
  <2>2. \A i \in DOMAIN entries' :
          /\ Kept(p, i)' \subseteq Used' \ (roots' \cup Hand(p)')
          /\ Stem(p, i)' \cap Body(p, i)' = {}
    BY <1>0, <1>2, <1>4, <1>7 DEF Inventory
  <2>3. \A i, j \in DOMAIN entries' :
          i # j => Kept(p, i)' \cap Kept(p, j)' = {}
    BY <1>0, <1>4, <1>7 DEF Inventory
  <2>4. \A i \in Sound' :
          /\ disk'[BlockOf(i)'].id = i
          /\ BlockOf(i)' \notin disk'[BlockOf(i)'].nodes
    BY <1>0, <1>2, <1>4 DEF Inventory, Sound, BlockOf
  <2>5. ASSUME ~hurt', NEW c \in Used'
        PROVE  \/ c \in roots' \cup Hand(p)'
               \/ \E i \in DOMAIN entries' : c \in Kept(p, i)'
    <3>1. c \in roots \/ \E i \in DOMAIN entries \ {id} : c \in Kept(p, i)
      BY <1>0, <1>1, <1>2, <1>7, <2>5 DEF Inventory
    <3> QED
      BY <1>2, <1>4, <1>7, <3>1
  <2> QED
    BY <2>1, <2>2, <2>3, <2>4, <2>5 DEF Inventory
<1> QED
  BY <1>2, <1>5, <1>6, <1>8

-----------------------------------------------------------------------------
(***************************************************************************)
(* The steps of a put.                                                     *)
(***************************************************************************)
LEMMA PutCallStep ==
  ASSUME NEW p, Procs = {p}, IInv(p), NEW id \in Ids, PutCall(p, id)
  PROVE  IInv(p)'
<1> USE DEF IInv
<1>1. /\ ~bare /\ Inventory(p) /\ At(p, "idle")
      /\ id \in Sound /\ BlockOf(id) \in Blocks
  <2>1. ~bare /\ At(p, "idle") /\ id \in Sound
    BY DEF PutCall, Call, Idle, Exists, Sound
  <2> QED
    BY <2>1 DEF Sound, BlockOf, TypeInv, Entries
<1>2. UNCHANGED <<frontier, stack, disk, roots, entries, torn, ruined, hurt, bare>>
  BY DEF PutCall, pool, history
<1>3. /\ job' \in [Procs -> Jobs]
      /\ job'[p].pc = "grow" /\ job'[p].id = id /\ job'[p].blk = BlockOf(id)
  <2>1. [Resting EXCEPT !.pc = "grow", !.id = id, !.blk = BlockOf(id)] \in Jobs
    BY <1>1 DEF Resting, Jobs
  <2> QED
    BY <2>1, JobFacts DEF PutCall, Resting
<1>4. TypeInv' /\ PoolInv'
  BY <1>2, <1>3 DEF TypeInv, PoolInv
<1>5. Available >= 1
  BY RoomFor DEF PutCall
<1>6. CallInv(p)'
  BY <1>1, <1>2, <1>3, <1>5
     DEF CallInv, Available, Demand, At, Sound, BlockOf, Naming, Using
<1>7. /\ Used' = Used /\ Hand(p)' = Hand(p)
      /\ \A i : Body(p, i)' = Body(p, i) /\ Stem(p, i)' = Stem(p, i)
  BY <1>1, <1>2, <1>3 DEF Used, Hand, Body, Stem, Dropping, At, BlockOf
<1>8. Inventory(p)'
  BY <1>1, <1>2, <1>7, SameInventory
<1> QED
  BY <1>2, <1>4, <1>6, <1>8

LEMMA PutNewStep ==
  ASSUME NEW p, Procs = {p}, IInv(p), PutNew(p)
  PROVE  IInv(p)'
<1> USE DEF IInv
<1>0. ~bare /\ Inventory(p) /\ At(p, "grow") /\ Available >= 1
  BY Installed DEF PutNew, At, CallInv, Demand, Using
<1> PICK id \in Sound : id = job[p].id /\ job[p].blk = BlockOf(id)
  BY <1>0 DEF CallInv, At, Using
<1>1. UNCHANGED <<disk, roots, entries, torn, ruined, hurt, bare>>
  BY DEF PutNew, history
<1>2. /\ frontier' \in 0 .. MaxBlocks /\ stack' \in Seq(Blocks)
      /\ PoolInv'
      /\ Fresh \in Blocks /\ Fresh \notin Used
      /\ Used' = Used \cup {Fresh}
      /\ Available' = Available - 1
  BY <1>0, NewTakes DEF PutNew
<1>3. /\ job' \in [Procs -> Jobs] /\ job[p] \in Jobs
      /\ job'[p].pc = "link" /\ job'[p].id = id
      /\ job'[p].blk = job[p].blk /\ job'[p].left = {Fresh}
  <2> DEFINE node == {Fresh}
  <2>1. job[p] \in Jobs /\ node \in SUBSET Blocks
    BY <1>2, JobFacts
  <2>2. job' = [job EXCEPT ![p].pc = "link", ![p].left = node]
    BY DEF PutNew
  <2> HIDE DEF node
  <2>3. /\ job' \in [Procs -> Jobs] /\ job'[p].pc = "link" /\ job'[p].id = job[p].id
        /\ job'[p].blk = job[p].blk /\ job'[p].left = node
    BY <2>1, <2>2 DEF Jobs, TypeInv
  <2> QED
    BY <2>1, <2>3 DEF node
<1>4. TypeInv'
  BY <1>1, <1>2, <1>3 DEF TypeInv
<1>5. job[p].blk # Fresh
  <2>1. id \in DOMAIN entries \ torn
    BY DEF Sound
  <2> QED
    BY <1>0, <1>2, <2>1, HeaderIsKept DEF At, Dropping
<1>6. CallInv(p)'
  <2>1. Available' >= 0
    BY <1>0, <1>2, TypedPool DEF Available
  <2> QED
    BY <1>0, <1>1, <1>2, <1>3, <1>5, <2>1
       DEF CallInv, Demand, At, Sound, BlockOf, Naming, Using
<1>7. /\ Hand(p)' = Hand(p) \cup {Fresh}
      /\ \A i : Body(p, i)' = Body(p, i) /\ Stem(p, i)' = Stem(p, i)
  BY <1>0, <1>1, <1>3 DEF Hand, Body, Stem, Dropping, At, BlockOf
<1>8. Inventory(p)'
  BY <1>0, <1>1, <1>2, <1>7, MoreInHand
<1> QED
  BY <1>1, <1>2, <1>4, <1>6, <1>8

\* What the last step of a put starts from, and what it does to the blocks.
LEMMA Linking ==
  ASSUME NEW p, Procs = {p}, IInv(p), PutLink(p)
  PROVE  \E id \in Sound, h \in Blocks, b \in Blocks :
           /\ ~bare /\ Inventory(p) /\ At(p, "link") /\ ~Dropping(p)
           /\ id = job[p].id /\ h = BlockOf(id) /\ Hand(p) = {b}
           /\ h # b /\ h \in Used \ roots /\ b \in Used \ roots
           /\ Body(p, id) = {h} \cup disk[h].nodes
           /\ disk' \in [Blocks -> Records]
           /\ disk'[h].nodes = disk[h].nodes \cup {b} /\ disk'[h].id = disk[h].id
           /\ \A i \in (DOMAIN entries \ torn) \ {id} : disk'[BlockOf(i)] = disk[BlockOf(i)]
           /\ UNCHANGED <<frontier, stack, roots, entries, torn, ruined, hurt, bare>>
<1> USE DEF IInv
<1>0. ~bare /\ Inventory(p) /\ At(p, "link") /\ ~Dropping(p)
  BY Installed DEF PutLink, At, Using, Dropping
<1>1. PICK id \in Sound, b \in Blocks :
        id = job[p].id /\ job[p].blk = BlockOf(id) /\ job[p].left = {b} /\ b # job[p].blk
  BY <1>0 DEF CallInv, At, Using
<1>2. PICK h \in Blocks : h = BlockOf(id)
  BY <1>1 DEF Sound, BlockOf, TypeInv, Entries
<1>3. /\ Hand(p) = {b} /\ b \in Used \ roots
      /\ h \in Used \ roots
      /\ Body(p, id) = {h} \cup disk[h].nodes
  <2>1. Hand(p) = {b}
    BY <1>0, <1>1 DEF Hand, At
  <2>2. id \in DOMAIN entries \ torn
    BY DEF Sound
  <2>3. h \in Used \ (roots \cup Hand(p))
    BY <1>0, <1>2, <2>2, HeaderIsKept
  <2>4. Body(p, id) = {h} \cup disk[h].nodes
    BY <1>0, <1>2, <2>2 DEF Body, At
  <2> QED
    BY <1>0, <2>1, <2>3, <2>4 DEF Inventory
<1>4. disk' = [c \in Blocks |->
                 IF c = h THEN [disk[c] EXCEPT !.nodes = @ \cup {b}]
                 ELSE IF c \in {b} THEN Node ELSE disk[c]]
  BY <1>1, <1>2 DEF PutLink
<1>5. /\ disk' \in [Blocks -> Records]
      /\ disk'[h].nodes = disk[h].nodes \cup {b} /\ disk'[h].id = disk[h].id
      /\ \A c \in Blocks \ {h, b} : disk'[c] = disk[c]
  <2>1. Node \in Records /\ disk \in [Blocks -> Records]
    BY DEF Node, Records, Tags, TypeInv
  <2>2. \A c \in Blocks : disk[c].nodes \in SUBSET Blocks /\ disk[c].id \in Tags
    BY <2>1 DEF Records
  <2>3. \A c \in Blocks : [disk[c] EXCEPT !.nodes = @ \cup {b}] \in Records
    BY <2>1, <2>2 DEF Records
  <2>4. disk' \in [Blocks -> Records]
    BY <1>4, <2>1, <2>3
  <2>5. disk'[h] = [disk[h] EXCEPT !.nodes = @ \cup {b}]
    BY <1>4
  <2>6. disk'[h].nodes = disk[h].nodes \cup {b} /\ disk'[h].id = disk[h].id
    BY <2>1, <2>5 DEF Records
  <2> QED
    BY <1>4, <2>4, <2>6
<1>6. \A i \in (DOMAIN entries \ torn) \ {id} : disk'[BlockOf(i)] = disk[BlockOf(i)]
  <2>1. ASSUME NEW i \in (DOMAIN entries \ torn) \ {id}
        PROVE  BlockOf(i) \in Blocks \ {h, b}
    <3>1. BlockOf(i) \in Blocks /\ BlockOf(i) # b /\ BlockOf(i) \in Kept(p, i)
      BY <1>0, <1>3, HeaderIsKept DEF Kept
    <3>2. Kept(p, i) \cap Kept(p, id) = {} /\ h \in Kept(p, id)
      BY <1>0, <1>3 DEF Inventory, Sound, Kept
    <3> QED
      BY <3>1, <3>2
  <2> QED
    BY <1>5, <2>1
<1>7. UNCHANGED <<frontier, stack, roots, entries, torn, ruined, hurt, bare>>
  BY DEF PutLink, pool, history
<1> QED
  BY <1>0, <1>1, <1>2, <1>3, <1>5, <1>6, <1>7

LEMMA PutLinkStep ==
  ASSUME NEW p, Procs = {p}, IInv(p), PutLink(p)
  PROVE  IInv(p)'
<1> USE DEF IInv
<1> PICK id \in Sound, h \in Blocks, b \in Blocks :
      /\ ~bare /\ Inventory(p) /\ At(p, "link") /\ ~Dropping(p)
      /\ id = job[p].id /\ h = BlockOf(id) /\ Hand(p) = {b}
      /\ h # b /\ h \in Used \ roots /\ b \in Used \ roots
      /\ Body(p, id) = {h} \cup disk[h].nodes
      /\ disk' \in [Blocks -> Records]
      /\ disk'[h].nodes = disk[h].nodes \cup {b} /\ disk'[h].id = disk[h].id
      /\ \A i \in (DOMAIN entries \ torn) \ {id} : disk'[BlockOf(i)] = disk[BlockOf(i)]
      /\ UNCHANGED <<frontier, stack, roots, entries, torn, ruined, hurt, bare>>
  BY Linking
<1>1. job' \in [Procs -> Jobs] /\ job'[p].pc = "idle"
  BY JobFacts DEF PutLink, Return, Resting
<1>2. TypeInv' /\ PoolInv'
  BY <1>1 DEF TypeInv, PoolInv
<1>3. CallInv(p)'
  <2>1. Available >= 0
    BY DEF CallInv, Demand, At
  <2> QED
    BY <1>1, <2>1 DEF CallInv, Demand, At, Available, Naming, Using
<1>4. Used' = Used /\ Hand(p)' = {}
  BY <1>1 DEF Hand, Used, At
<1>5. id \in DOMAIN entries \ torn
  BY DEF Sound
<1>6. /\ Body(p, id)' = Body(p, id) \cup {b}
      /\ \A i \in DOMAIN entries : Stem(p, i)' = Stem(p, i)
      /\ \A i \in DOMAIN entries \ {id} :
           Body(p, i)' = Body(p, i) /\ Kept(p, i)' = Kept(p, i)
      /\ Kept(p, id)' = Kept(p, id) \cup {b}
  <2>1. Body(p, id)' = Body(p, id) \cup {b}
    BY <1>1, <1>5 DEF Body, Dropping, At, BlockOf
  <2>2. \A i \in DOMAIN entries : Stem(p, i)' = Stem(p, i)
    BY <1>1 DEF Stem, At
  <2>3. \A i \in DOMAIN entries \ {id} : Body(p, i)' = Body(p, i)
    BY <1>1 DEF Body, Dropping, At, BlockOf
  <2> QED
    BY <1>5, <2>1, <2>2, <2>3 DEF Kept
<1>7. Inventory(p)'
  <2>1. \A i \in DOMAIN entries : /\ Kept(p, i) \subseteq Used \ (roots \cup {b})
                                  /\ Stem(p, i) \cap Body(p, i) = {}
    BY DEF Inventory
  <2>2. \A i \in DOMAIN entries' :
          /\ Kept(p, i)' \subseteq Used' \ (roots' \cup Hand(p)')
          /\ Stem(p, i)' \cap Body(p, i)' = {}
    <3>1. b \notin Stem(p, id)
      BY <1>5, <2>1 DEF Kept
    <3> QED
      BY <1>4, <1>6, <2>1, <3>1
  <2>3. \A i, j \in DOMAIN entries' :
          i # j => Kept(p, i)' \cap Kept(p, j)' = {}
    <3>1. \A i, j \in DOMAIN entries : i # j => Kept(p, i) \cap Kept(p, j) = {}
      BY DEF Inventory
    <3> QED
      BY <1>6, <2>1, <3>1
  <2>4. \A i \in Sound' :
          /\ disk'[BlockOf(i)'].id = i
          /\ BlockOf(i)' \notin disk'[BlockOf(i)'].nodes
    <3>1. Sound' = Sound /\ \A i : BlockOf(i)' = BlockOf(i)
      BY DEF Sound, BlockOf
    <3>2. \A i \in Sound :
            disk[BlockOf(i)].id = i /\ BlockOf(i) \notin disk[BlockOf(i)].nodes
      BY DEF Inventory
    <3>3. \A i \in Sound \ {id} : disk'[BlockOf(i)] = disk[BlockOf(i)]
      BY DEF Sound
    <3> QED
      BY <3>1, <3>2, <3>3
  <2>5. ASSUME ~hurt', NEW c \in Used'
        PROVE  \/ c \in roots' \cup Hand(p)'
               \/ \E i \in DOMAIN entries' : c \in Kept(p, i)'
    <3>1. c \in roots \cup {b} \/ \E i \in DOMAIN entries : c \in Kept(p, i)
      BY <1>4, <2>5 DEF Inventory
    <3> QED
      BY <1>5, <1>6, <3>1
  <2>6. torn' \subseteq DOMAIN entries' /\ roots' = {0, 1} /\ roots' \subseteq Used'
    BY <1>4 DEF Inventory
  <2> QED
    BY <1>4, <2>2, <2>3, <2>4, <2>5, <2>6 DEF Inventory
<1> QED
  BY <1>2, <1>3, <1>7

-----------------------------------------------------------------------------
(***************************************************************************)
(* The steps of a reset, and a kill.                                       *)
(***************************************************************************)
LEMMA ClearStep ==
  ASSUME NEW p, Procs = {p}, IInv(p), Clear(p)
  PROVE  IInv(p)'
<1> USE DEF IInv
<1>1. /\ frontier' = 0 /\ stack' = <<>> /\ bare' = TRUE
      /\ UNCHANGED <<disk, roots, entries, torn, ruined, hurt>>
  BY DEF Clear
<1>2. /\ job' \in [Procs -> Jobs]
      /\ job'[p].pc = "install" /\ job'[p].left = {}
  <2>1. job' = [job EXCEPT ![p] = [Resting EXCEPT !.pc = "install"]]
    BY DEF Clear
  <2>2. [Resting EXCEPT !.pc = "install"] \in Jobs
    BY DEF Resting, Jobs
  <2> QED
    BY <2>1, <2>2, JobFacts DEF Resting
<1>3. TypeInv'
  BY <1>1, <1>2, RegistryAssumption DEF TypeInv
<1>4. /\ stack' \in Seq(Blocks) /\ Len(stack') = 0 /\ ToSet(stack') = {}
      /\ PoolInv'
  <2>1. stack' \in Seq(Blocks) /\ Len(stack') = 0
    BY <1>1, EmptySeq
  <2>2. ToSet(<<>>) = {}
    BY DEF ToSet
  <2> QED
    BY <1>1, <2>1, <2>2 DEF PoolInv
<1>5. CallInv(p)'
  BY <1>1, <1>2, <1>4, RegistryAssumption
     DEF CallInv, Available, Demand, At, Naming, Using
<1> QED
  BY <1>1, <1>3, <1>4, <1>5

LEMMA InstallRootStep ==
  ASSUME NEW p, Procs = {p}, IInv(p), InstallRoot(p)
  PROVE  IInv(p)'
<1> USE DEF IInv
<1>1. /\ bare /\ stack = <<>> /\ Available >= 1 /\ New
      /\ \/ At(p, "install") /\ frontier = 0 /\ job[p].left = {}
         \/ At(p, "install2") /\ frontier = 1 /\ job[p].left = {0}
  <2>1. Available \in Int
    BY TypedPool DEF Available
  <2> QED
    BY <2>1 DEF InstallRoot, CallInv, Demand, At
<1>2. UNCHANGED <<roots, entries, torn, ruined, hurt, bare>>
  BY DEF InstallRoot, history
<1>3. /\ frontier' \in 0 .. MaxBlocks /\ stack' \in Seq(Blocks)
      /\ PoolInv'
      /\ Fresh \in Blocks
      /\ Available' = Available - 1
  BY <1>1, NewTakes
<1>4. Fresh = frontier /\ frontier' = frontier + 1 /\ stack' = <<>>
  BY <1>1 DEF Fresh, New
<1>5. disk' \in [Blocks -> Records]
  <2>1. RootHeader \in Records
    BY DEF RootHeader, Records, Tags
  <2> QED
    BY <1>3, <2>1 DEF InstallRoot, TypeInv
<1>6. /\ job' \in [Procs -> Jobs]
      /\ job'[p].pc = IF At(p, "install") THEN "install2" ELSE "point"
      /\ job'[p].left = job[p].left \cup {Fresh}
  <2> DEFINE next == IF At(p, "install") THEN "install2" ELSE "point"
  <2>1. job[p] \in Jobs /\ next \in {"install2", "point"}
    BY JobFacts
  <2> HIDE DEF next
  <2>2. job' = [job EXCEPT ![p].pc = next, ![p].left = job[p].left \cup {Fresh}]
    BY DEF InstallRoot, next
  <2>3. /\ job' \in [Procs -> Jobs]
        /\ job'[p].pc = next /\ job'[p].left = job[p].left \cup {Fresh}
    BY <1>3, <2>1, <2>2 DEF Jobs, TypeInv
  <2> QED
    BY <2>3 DEF next
<1>7. TypeInv'
  BY <1>2, <1>3, <1>5, <1>6 DEF TypeInv
<1>8. CallInv(p)'
  <2>1. CASE At(p, "install")
    <3>1. job'[p].pc = "install2" /\ job'[p].left = {0} /\ frontier' = 1
      BY <1>1, <1>4, <1>6, <2>1 DEF At
    <3>2. Available' >= 1
      BY <1>1, <1>3, <2>1, TypedPool DEF Available, CallInv, Demand, At
    <3> QED
      BY <1>1, <1>2, <1>4, <3>1, <3>2 DEF CallInv, Demand, At, Naming, Using
  <2>2. CASE ~At(p, "install")
    <3>1. job'[p].pc = "point" /\ job'[p].left = {0, 1} /\ frontier' = 2
      BY <1>1, <1>4, <1>6, <2>2 DEF At
    <3>2. Available' >= 0
      BY <1>1, <1>3, TypedPool DEF Available
    <3> QED
      BY <1>1, <1>2, <1>4, <3>1, <3>2 DEF CallInv, Demand, At, Naming, Using
  <2> QED
    BY <2>1, <2>2
<1> QED
  BY <1>1, <1>2, <1>3, <1>7, <1>8

LEMMA InstallPointStep ==
  ASSUME NEW p, Procs = {p}, IInv(p), InstallPoint(p)
  PROVE  IInv(p)'
<1> USE DEF IInv
<1>1. /\ stack = <<>> /\ frontier = 2 /\ job[p].left = {0, 1} /\ Available >= 0
  BY DEF InstallPoint, CallInv, Demand, At
<1>2. /\ roots' = {0, 1} /\ entries' = <<>> /\ torn' = {} /\ ruined' = {}
      /\ hurt' = FALSE /\ bare' = FALSE /\ UNCHANGED <<frontier, stack, disk>>
  BY <1>1 DEF InstallPoint, pool
<1>3. job' \in [Procs -> Jobs] /\ job'[p].pc = "idle"
  BY JobFacts DEF InstallPoint, Return, Resting
<1>4. DOMAIN entries' = {}
  BY <1>2
<1>5. TypeInv'
  <2>1. {0, 1} \subseteq Blocks
    BY RegistryAssumption, TypedPool
  <2> QED
    BY <1>2, <1>3, <1>4, <2>1 DEF TypeInv
<1>6. PoolInv' /\ Used' = {0, 1}
  <2>1. ToSet(stack) = {}
    BY <1>1, TypedPool
  <2> QED
    BY <1>1, <1>2, <2>1 DEF PoolInv, Used
<1>7. CallInv(p)'
  BY <1>1, <1>2, <1>3 DEF CallInv, Demand, At, Available, Naming, Using
<1>8. Inventory(p)'
  <2>1. Hand(p)' = {}
    BY <1>3 DEF Hand, At
  <2> QED
    BY <1>2, <1>4, <1>6, <2>1 DEF Inventory, Sound
<1> QED
  BY <1>5, <1>6, <1>7, <1>8

\* What a kill makes of the blocks that the names keep.
LEMMA Killed ==
  ASSUME NEW p, Procs = {p}, IInv(p), Crash(p)
  PROVE  /\ UNCHANGED <<frontier, stack, disk, roots, entries, bare>> /\ hurt' = TRUE
         /\ job' \in [Procs -> Jobs] /\ job'[p].pc = "idle"
         /\ torn' = torn \/ /\ ~bare /\ job[p].id \in Sound
                            /\ torn' = torn \cup {job[p].id}
         /\ ruined' = ruined \/ /\ ~bare /\ job[p].id \in Ids
                                /\ ruined' = ruined \cup {job[p].id[1]}
         /\ \A i \in DOMAIN entries :
              /\ Body(p, i)' \subseteq Body(p, i)
              /\ Stem(p, i)' \subseteq Stem(p, i)
<1> USE DEF IInv
<1> PICK id : id = job[p].id
  OBVIOUS
<1>1. /\ UNCHANGED <<frontier, stack, disk, roots, entries, bare>> /\ hurt' = TRUE
      /\ torn' = IF HalfFreed(p) \/ HalfPut(p) THEN torn \cup {id} ELSE torn
      /\ ruined' = IF HalfNamed(p) THEN ruined \cup {id[1]} ELSE ruined
  BY DEF Crash, pool
<1>2. /\ job' \in [Procs -> Jobs] /\ job'[p].pc = "idle"
  BY JobFacts DEF Crash, Return, Resting
<1>3. HalfFreed(p) \/ HalfPut(p) => Using(p)
  BY DEF HalfFreed, HalfPut, Using, At
<1>4. Using(p) => ~bare /\ id \in Sound /\ job[p].blk = BlockOf(id)
  BY DEF CallInv, Using
<1>5. HalfNamed(p) => ~bare /\ id \in Ids
  <2>1. HalfNamed(p) => Naming(p) \/ Using(p)
    BY DEF HalfNamed, Naming, Using, At
  <2>2. Naming(p) => ~bare /\ id \in Ids
    BY DEF CallInv, Naming
  <2>3. Sound \subseteq Ids
    BY DEF Sound, TypeInv
  <2> QED
    BY <1>4, <2>1, <2>2, <2>3
<1>6. ASSUME NEW i \in DOMAIN entries PROVE Body(p, i)' \subseteq Body(p, i)
  <2>1. CASE i \in torn'
    <3>1. Body(p, i)' = {}
      BY <2>1 DEF Body
    <3> QED
      BY <3>1
  <2>2. CASE i \notin torn'
    <3>1. Body(p, i)' = {BlockOf(i)} \cup disk[BlockOf(i)].nodes
      BY <1>1, <1>2, <2>2 DEF Body, Dropping, At, BlockOf
    <3>2. i \notin torn /\ (i = id => ~HalfFreed(p))
      BY <1>1, <2>2
    <3>3. /\ i = id => ~Dropping(p)
          /\ i = id /\ At(p, "release") => job[p].left = disk[BlockOf(i)].nodes
      BY <1>4, <3>2 DEF HalfFreed, Dropping, Using, At
    <3> QED
      BY <3>1, <3>2, <3>3 DEF Body
  <2> QED
    BY <2>1, <2>2
<1>7. ASSUME NEW i \in DOMAIN entries PROVE Stem(p, i)' \subseteq Stem(p, i)
  <2>1. CASE i[1] \in ruined'
    <3>1. Stem(p, i)' = {}
      BY <2>1 DEF Stem
    <3> QED
      BY <3>1
  <2>2. CASE i[1] \notin ruined'
    <3>1. Stem(p, i)' = {entries[i].node}
      BY <1>1, <1>2, <2>2 DEF Stem, At
    <3>2. i[1] \notin ruined /\ (i = id => ~At(p, "top"))
      BY <1>1, <2>2 DEF HalfNamed
    <3> QED
      BY <3>1, <3>2 DEF Stem
  <2> QED
    BY <2>1, <2>2
<1> QED
  BY <1>1, <1>2, <1>3, <1>4, <1>5, <1>6, <1>7

LEMMA CrashStep ==
  ASSUME NEW p, Procs = {p}, IInv(p), Crash(p)
  PROVE  IInv(p)'
<1> USE DEF IInv
<1>1. /\ UNCHANGED <<frontier, stack, disk, roots, entries, bare>> /\ hurt' = TRUE
      /\ job' \in [Procs -> Jobs] /\ job'[p].pc = "idle"
      /\ torn' = torn \/ (~bare /\ job[p].id \in Sound /\ torn' = torn \cup {job[p].id})
      /\ ruined' = ruined \/ (job[p].id \in Ids /\ ruined' = ruined \cup {job[p].id[1]})
      /\ \A i \in DOMAIN entries :
           Body(p, i)' \subseteq Body(p, i) /\ Stem(p, i)' \subseteq Stem(p, i)
  BY Killed
<1>2. Used' = Used /\ Hand(p)' = {}
  BY <1>1 DEF Used, Hand, At
<1>3. TypeInv' /\ PoolInv'
  <2>1. torn' \subseteq Ids
    BY <1>1 DEF TypeInv, Sound
  <2>2. ruined' \subseteq Kinds
    BY <1>1, KindOfId DEF TypeInv
  <2> QED
    BY <1>1, <2>1, <2>2 DEF TypeInv, PoolInv
<1>4. CallInv(p)'
  <2>1. Available >= 0
    BY TypedPool DEF Available, CallInv, Demand
  <2> QED
    BY <1>1, <2>1 DEF CallInv, Demand, At, Available, Naming, Using
<1>5. ASSUME ~bare PROVE Inventory(p)'
  <2>1. Inventory(p)
    BY <1>5
  <2>2. /\ torn' \subseteq DOMAIN entries' /\ roots' = {0, 1}
        /\ roots' \subseteq Used' /\ Hand(p)' \subseteq Used' \ roots'
    BY <1>1, <1>2, <2>1 DEF Inventory, Sound
  <2>3. \A i \in DOMAIN entries : Kept(p, i)' \subseteq Kept(p, i)
    BY <1>1 DEF Kept
  <2>4. \A i \in DOMAIN entries' :
          /\ Kept(p, i)' \subseteq Used' \ (roots' \cup Hand(p)')
          /\ Stem(p, i)' \cap Body(p, i)' = {}
    BY <1>1, <1>2, <2>1, <2>3 DEF Inventory
  <2>5. \A i, j \in DOMAIN entries' :
          i # j => Kept(p, i)' \cap Kept(p, j)' = {}
    BY <1>1, <2>1, <2>3 DEF Inventory
  <2>6. \A i \in Sound' :
          /\ disk'[BlockOf(i)'].id = i
          /\ BlockOf(i)' \notin disk'[BlockOf(i)'].nodes
    <3>1. Sound' \subseteq Sound /\ \A i : BlockOf(i)' = BlockOf(i)
      BY <1>1 DEF Sound, BlockOf
    <3> QED
      BY <1>1, <2>1, <3>1 DEF Inventory
  <2> QED
    BY <1>1, <2>2, <2>4, <2>5, <2>6 DEF Inventory
<1> QED
  BY <1>1, <1>3, <1>4, <1>5

-----------------------------------------------------------------------------
(***************************************************************************)
(* The invariant.                                                          *)
(***************************************************************************)
LEMMA InitInv ==
  ASSUME NEW p, Procs = {p}, Init
  PROVE  IInv(p)
<1> USE DEF Init
<1>1. job \in [Procs -> Jobs] /\ job[p] = Resting
  BY DEF Resting, Jobs
<1>2. DOMAIN entries = {} /\ ToSet(stack) = {}
  BY DEF ToSet
<1>3. stack \in Seq(Blocks) /\ Len(stack) = 0
  BY EmptySeq
<1>4. disk \in [Blocks -> Records]
  BY DEF RootHeader, Nothing, Records, Tags
<1>5. 2 \in 0 .. MaxBlocks /\ {0, 1} \subseteq Blocks
  BY RegistryAssumption DEF Blocks
<1>6. TypeInv
  BY <1>1, <1>2, <1>3, <1>4, <1>5 DEF TypeInv
<1>7. PoolInv /\ Used = {0, 1}
  BY <1>2, <1>3 DEF PoolInv, Used
<1>8. CallInv(p)
  BY <1>1, <1>3, RegistryAssumption
     DEF CallInv, Resting, Demand, Available, At, Naming, Using
<1>9. Inventory(p)
  <2>1. Hand(p) = {}
    BY <1>1 DEF Hand, Resting, At
  <2> QED
    BY <1>2, <1>7, <2>1 DEF Inventory, Sound
<1> QED
  BY <1>6, <1>7, <1>8, <1>9 DEF IInv

LEMMA NextInv ==
  ASSUME NEW p, Procs = {p}, IInv(p), [Next]_vars
  PROVE  IInv(p)'
<1>1. CASE Step(p)
  <2>1. ASSUME NEW id \in Ids, CreateCall(p, id) \/ DeleteCall(p, id) \/ PutCall(p, id)
        PROVE  IInv(p)'
    BY <2>1, CreateCallStep, DeleteCallStep, PutCallStep
  <2>2. CASE CreateBlock(p) \/ CreateSave(p)
    BY <2>2, CreateBlockStep, CreateSaveStep
  <2>3. CASE AddDescend(p) \/ AddLeaf(p) \/ AddHang(p)
    BY <2>3, AddDescendStep, AddLeafStep, AddHangStep
  <2>4. CASE ReleaseNode(p) \/ ReleaseHeader(p)
    BY <2>4, ReleaseNodeStep, ReleaseHeaderStep
  <2>5. CASE DropUnhang(p) \/ DropFree(p) \/ DropSave(p)
    BY <2>5, DropUnhangStep, DropFreeStep, DropSaveStep
  <2>6. CASE PutNew(p) \/ PutLink(p)
    BY <2>6, PutNewStep, PutLinkStep
  <2>7. CASE Clear(p) \/ InstallRoot(p) \/ InstallPoint(p)
    BY <2>7, ClearStep, InstallRootStep, InstallPointStep
  <2> QED
    BY <1>1, <2>1, <2>2, <2>3, <2>4, <2>5, <2>6, <2>7 DEF Step
<1>2. CASE Crash(p)
  BY <1>2, CrashStep
<1>3. CASE UNCHANGED vars
  <2>1. UNCHANGED <<frontier, stack, disk, roots, entries, job, torn, ruined, hurt, bare>>
    BY <1>3 DEF vars, pool, history
  <2>2. /\ TypeInv' = TypeInv /\ PoolInv' = PoolInv /\ Used' = Used
        /\ CallInv(p)' = CallInv(p)
    BY <2>1 DEF TypeInv, PoolInv, Used, CallInv, Available, Demand, At, Exists,
                BlockOf, Sound, Naming, Using
  <2>3. /\ Hand(p)' = Hand(p)
        /\ \A i : Body(p, i)' = Body(p, i) /\ Stem(p, i)' = Stem(p, i)
    BY <2>1 DEF Hand, Body, Stem, Dropping, At, BlockOf
  <2>4. Inventory(p) => Inventory(p)'
    BY <2>1, <2>2, <2>3, SameInventory
  <2> QED
    BY <2>1, <2>2, <2>4 DEF IInv
<1> QED
  BY <1>1, <1>2, <1>3 DEF Next

LEMMA Invariance ==
  ASSUME NEW p, Procs = {p}
  PROVE  Spec => []IInv(p)
<1>1. Init => IInv(p)
  BY InitInv
<1>2. IInv(p) /\ [Next]_vars => IInv(p)'
  BY NextInv
<1> QED
  BY <1>1, <1>2, PTL DEF Spec

\* The server is the one process that calls the registry.
OneCaller == \E p : Procs = {p}

\* Every variable keeps its type: a call never runs past the blocks there are.
THEOREM TypeCorrect ==
  ASSUME OneCaller
  PROVE  Spec => []TypeOK
<1> PICK p : Procs = {p}
  BY DEF OneCaller
<1>1. IInv(p) => TypeOK
  BY DEF IInv, TypeInv, TypeOK, Records, Entries, Jobs
<1> QED
  BY <1>1, Invariance, PTL

\* In a quiet state the inventory is what the names own.
LEMMA QuietInventory ==
  ASSUME NEW p, Procs = {p}, IInv(p), Quiet
  PROVE  /\ TypeInv /\ PoolInv /\ Inventory(p)
         /\ Hand(p) = {}
         /\ \A id \in DOMAIN entries : Kept(p, id) = Owned(id)
<1>1. ~bare /\ At(p, "idle")
  BY DEF Quiet, Idle
<1> QED
  BY <1>1 DEF IInv, Hand, At, Kept, Stem, Body, Dropping, Owned

\* Whenever no call is under way, every name leads to its own map or list
\* (db_manage.h, get_map and get_list).  After kills, also in the middle of an
\* add to a root map or a drop from one (db_map.h), that still holds of every
\* name of the other kind, and unless a root map was being written to, of every
\* name but the one the killed call was for.
THEOREM NamesResolveAlways ==
  ASSUME OneCaller
  PROVE  Spec => []NamesResolve
<1> PICK p : Procs = {p}
  BY DEF OneCaller
<1>1. IInv(p) => NamesResolve
  BY QuietInventory DEF NamesResolve, Inventory
<1> QED
  BY <1>1, Invariance, PTL

\* No block is used twice or is free while something holds it: a root map, a
\* name, or what the name stands for.  After kills that leaves out what the
\* killed calls were writing to: the header and nodes of a half-written or
\* half-freed map or list, the entries of a half-written root map (treap.h,
\* remove, frees the root before db_map.h, drop, saves the header).
THEOREM NothingIsShared ==
  ASSUME OneCaller
  PROVE  Spec => []NothingShared
<1> PICK p : Procs = {p}
  BY DEF OneCaller
<1>1. ASSUME IInv(p), Quiet
      PROVE  /\ \A id \in DOMAIN entries :
                  /\ Owned(id) \cap roots = {}
                  /\ Owned(id) \cap ToSet(stack) = {}
                  /\ \A b \in Owned(id) : b < frontier
                  /\ \A other \in DOMAIN entries \ {id} :
                       Owned(id) \cap Owned(other) = {}
             /\ IsInjective(stack)
  <2>1. /\ TypeInv /\ PoolInv /\ Inventory(p)
        /\ \A id \in DOMAIN entries : Kept(p, id) = Owned(id)
    BY <1>1, QuietInventory
  <2>2. \A id \in DOMAIN entries :
          /\ Owned(id) \subseteq Used \ roots
          /\ \A other \in DOMAIN entries \ {id} : Owned(id) \cap Owned(other) = {}
    BY <2>1 DEF Inventory
  <2>3. Used \cap ToSet(stack) = {} /\ \A b \in Used : b < frontier
    BY <2>1, TypedPool DEF Used
  <2>4. IsInjective(stack)
    BY <2>1, LenProperties DEF PoolInv, TypeInv, IsInjective
  <2> QED
    BY <2>2, <2>3, <2>4
<1>2. IInv(p) => NothingShared
  BY <1>1 DEF NothingShared
<1> QED
  BY <1>2, Invariance, PTL

LEMMA CountBehind ==
  ASSUME NEW n \in Nat, NEW F \in SUBSET (0 .. n - 1)
  PROVE  /\ IsFiniteSet((0 .. n - 1) \ F)
         /\ Cardinality((0 .. n - 1) \ F) = n - Cardinality(F)
<1>1. IsFiniteSet(0 .. n - 1) /\ Cardinality(0 .. n - 1) = n
  <2>1. n - 1 \in Int
    OBVIOUS
  <2>2. \A m \in Int : /\ IsFiniteSet(0 .. m)
                       /\ Cardinality(0 .. m) = IF 0 > m THEN 0 ELSE m - 0 + 1
    BY FS_Interval
  <2> QED
    BY <2>1, <2>2
<1> DEFINE N == 0 .. n - 1
<1>2. N \cap F = F
  OBVIOUS
<1> HIDE DEF N
<1>3. IsFiniteSet(N \ F) /\ Cardinality(N \ F) = Cardinality(N) - Cardinality(N \cap F)
  BY <1>1, FS_Difference DEF N
<1> QED
  BY <1>1, <1>2, <1>3 DEF N

LEMMA UsedIsCounted ==
  ASSUME TypeInv, PoolInv
  PROVE  IsFiniteSet(Used) /\ Cardinality(Used) = UsedMemory
<1> USE TypedPool
<1> DEFINE F == ToSet(stack)  n == Len(stack)
<1>1. stack \in Bijection(1 .. n, F)
  <2>1. stack \in [1 .. n -> F]
    BY LenProperties DEF TypeInv
  <2> QED
    BY <2>1 DEF Bijection, Injection, Surjection, IsInjective, PoolInv
<1>2. IsFiniteSet(F) /\ Cardinality(F) = n
  <2>1. ExistsBijection(1 .. n, F)
    BY <1>1 DEF ExistsBijection
  <2> QED
    BY <2>1, FS_NatBijection, FS_CountingElements
<1>3. F \in SUBSET (0 .. frontier - 1)
  BY DEF PoolInv
<1>4. /\ IsFiniteSet((0 .. frontier - 1) \ F)
      /\ Cardinality((0 .. frontier - 1) \ F) = frontier - n
  BY <1>2, <1>3, CountBehind
<1> QED
  BY <1>4 DEF Used, UsedMemory

\* What the root maps and the names own, counted.
LEMMA OwnedIsCounted ==
  ASSUME NEW p, Procs = {p}, IInv(p), Quiet
  PROVE  LET O == UNION {Owned(id) : id \in DOMAIN entries}
         IN  /\ IsFiniteSet({0, 1} \cup O)
             /\ Cardinality({0, 1} \cup O) = 2 + Cardinality(O)
             /\ {0, 1} \cup O \subseteq Used
             /\ ~hurt => Used = {0, 1} \cup O
             /\ Cardinality(O) \in Nat
<1> DEFINE O == UNION {Owned(id) : id \in DOMAIN entries}
<1>1. /\ TypeInv /\ PoolInv /\ Inventory(p) /\ Hand(p) = {}
      /\ \A id \in DOMAIN entries : Kept(p, id) = Owned(id)
  BY QuietInventory
<1>2. {0, 1} \subseteq Used /\ O \subseteq Used /\ {0, 1} \cap O = {}
  BY <1>1 DEF Inventory
<1>3. ~hurt => Used = {0, 1} \cup O
  <2>1. ASSUME ~hurt, NEW b \in Used PROVE b \in {0, 1} \cup O
    BY <1>1, <2>1 DEF Inventory
  <2> QED
    BY <1>2, <2>1
<1>4. IsFiniteSet(O) /\ IsFiniteSet({0, 1})
  BY <1>1, <1>2, UsedIsCounted, FS_Subset
<1>5. Cardinality({0, 1}) = 2
  <2>1. Cardinality({0} \cup {1}) = 2
    <3>1. IsFiniteSet({0}) /\ Cardinality({0}) = 1 /\ 1 \notin {0}
      BY FS_Singleton
    <3>2. Cardinality({0} \cup {1}) = Cardinality({0}) + 1
      BY <3>1, FS_AddElement
    <3> QED
      BY <3>1, <3>2
  <2>2. {0} \cup {1} = {0, 1}
    OBVIOUS
  <2> QED
    BY <2>1, <2>2
<1> HIDE DEF O
<1>6. Cardinality(O) \in Nat /\ Cardinality({} ) = 0
  BY <1>4, FS_CardinalityType, FS_EmptySet
<1>7. /\ IsFiniteSet({0, 1} \cup O)
      /\ Cardinality({0, 1} \cup O) = 2 + Cardinality(O)
  BY <1>2, <1>4, <1>5, <1>6, FS_Union
<1> QED
  BY <1>2, <1>3, <1>6, <1>7 DEF O

\* size db is exact over any sequence of calls none of which was cut short since
\* the last install.
THEOREM SizeIsExact ==
  ASSUME OneCaller
  PROVE  Spec => []SizeExact
<1> PICK p : Procs = {p}
  BY DEF OneCaller
<1>1. ASSUME IInv(p), Quiet, ~hurt
      PROVE  UsedMemory = 2 + Cardinality(UNION {Owned(id) : id \in DOMAIN entries})
  <2>1. TypeInv /\ PoolInv
    BY <1>1 DEF IInv
  <2> QED
    BY <1>1, <2>1, OwnedIsCounted, UsedIsCounted
<1>2. IInv(p) => SizeExact
  BY <1>1 DEF SizeExact
<1> QED
  BY <1>2, Invariance, PTL

\* A kill can lose blocks; used_memory still covers the root headers and what
\* the names own, less what the killed calls were writing to, as in
\* NothingShared.
THEOREM SizeAlwaysCovers ==
  ASSUME OneCaller
  PROVE  Spec => []SizeCovers
<1> PICK p : Procs = {p}
  BY DEF OneCaller
<1>1. ASSUME IInv(p), Quiet
      PROVE  UsedMemory >= 2 + Cardinality(UNION {Owned(id) : id \in DOMAIN entries})
  <2> DEFINE O == UNION {Owned(id) : id \in DOMAIN entries}
  <2>1. IsFiniteSet(Used) /\ Cardinality(Used) = UsedMemory
    BY <1>1, UsedIsCounted DEF IInv
  <2>2. /\ Cardinality({0, 1} \cup O) = 2 + Cardinality(O)
        /\ {0, 1} \cup O \subseteq Used
        /\ Cardinality(O) \in Nat
    BY <1>1, OwnedIsCounted
  <2> HIDE DEF O
  <2>3. Cardinality({0, 1} \cup O) <= Cardinality(Used)
    BY <2>1, <2>2, FS_Subset
  <2>4. UsedMemory \in Int
    BY <1>1, TypedPool DEF IInv, UsedMemory
  <2>5. UsedMemory >= 2 + Cardinality(O)
    BY <2>1, <2>2, <2>3, <2>4
  <2> QED
    BY <2>5 DEF O
<1>2. IInv(p) => SizeCovers
  BY <1>1 DEF SizeCovers
<1> QED
  BY <1>2, Invariance, PTL

-----------------------------------------------------------------------------
(***************************************************************************)
(* The registry implements the catalog.  The steps that change what a      *)
(* caller can see are the last of a create, of a delete and of a put, the  *)
(* clearing of the files, and the kill of a call that had begun to write   *)
(* to a structure in use or to a root map.                                 *)
(***************************************************************************)
Known == {i \in DOMAIN entries : i[1] \notin ruined}

LEMMA ContentsFacts ==
  /\ bare => Contents = <<>> /\ Lost = {}
  /\ ~bare => /\ DOMAIN Contents = Known /\ Lost = ruined
              /\ Contents = [id \in Known |-> Contents[id]]
              /\ \A id \in torn \cap Known : Contents[id] = Damaged
              /\ \A id \in Sound :
                   Contents[id] = Cardinality(disk[BlockOf(id)].nodes)
  /\ Sound = Known \ torn
BY DEF Contents, Lost, Sound, Known

\* What it takes for a step to show nothing.
LEMMA ContentsStutter ==
  ASSUME bare' = bare,
         bare \/ /\ torn' = torn /\ ruined' = ruined
                 /\ DOMAIN entries' = DOMAIN entries
                 /\ \A id \in DOMAIN entries : BlockOf(id)' = BlockOf(id)
                 /\ \A id \in Sound : disk'[BlockOf(id)] = disk[BlockOf(id)]
  PROVE  UNCHANGED <<Contents, Lost>>
<1>1. CASE bare
  BY <1>1 DEF Contents, Lost
<1>2. CASE ~bare
  <2>1. Known' = Known
    BY <1>2 DEF Known
  <2>2. /\ \A id \in Known : BlockOf(id)' = BlockOf(id)
        /\ \A id \in Known \ torn : disk'[BlockOf(id)] = disk[BlockOf(id)]
    BY <1>2, ContentsFacts DEF Known
  <2>3. Contents' = [id \in Known |->
                       IF id \in torn THEN Damaged
                       ELSE Cardinality(disk'[BlockOf(id)'].nodes)]
    BY <1>2, <2>1 DEF Contents, Known
  <2>4. Contents = [id \in Known |->
                       IF id \in torn THEN Damaged
                       ELSE Cardinality(disk[BlockOf(id)].nodes)]
    BY <1>2 DEF Contents, Known
  <2>5. \A id \in Known :
          (IF id \in torn THEN Damaged ELSE Cardinality(disk'[BlockOf(id)'].nodes))
            = (IF id \in torn THEN Damaged ELSE Cardinality(disk[BlockOf(id)].nodes))
    BY <2>2
  <2> QED
    BY <1>2, <2>3, <2>4, <2>5 DEF Lost
<1> QED
  BY <1>1, <1>2

\* The nodes of a map or list are finitely many, and a new one counts once.
LEMMA NodesCounted ==
  ASSUME TypeInv, NEW id \in DOMAIN entries
  PROVE  LET nodes == disk[BlockOf(id)].nodes
         IN  /\ IsFiniteSet(nodes) /\ Cardinality(nodes) \in Nat
             /\ \A b : b \notin nodes =>
                  Cardinality(nodes \cup {b}) = Cardinality(nodes) + 1
<1> DEFINE nodes == disk[BlockOf(id)].nodes
<1>1. nodes \subseteq Blocks
  BY DEF TypeInv, Records, Entries, BlockOf
<1>2. IsFiniteSet(Blocks)
  <2>1. MaxBlocks - 1 \in Int
    BY RegistryAssumption
  <2> QED
    BY <2>1, FS_Interval DEF Blocks
<1>3. IsFiniteSet(nodes)
  BY <1>1, <1>2, FS_Subset
<1> HIDE DEF nodes
<1> QED
  BY <1>3, FS_CardinalityType, FS_AddElement DEF nodes

LEMMA AddHangShows ==
  ASSUME NEW p, Procs = {p}, IInv(p), AddHang(p)
  PROVE  Promise!Next
<1> USE DEF IInv
<1> PICK id \in Ids, h \in Blocks, leaf \in Blocks :
      /\ ~bare /\ Inventory(p) /\ At(p, "hang") /\ Available >= 0
      /\ id = job[p].id /\ h = job[p].blk /\ job[p].left = {leaf}
      /\ h # leaf /\ Hand(p) = {h, leaf}
      /\ id \notin DOMAIN entries /\ id[1] \notin ruined
      /\ disk[h] = Header(id, {})
      /\ disk' = [disk EXCEPT ![leaf] = Node]
      /\ entries' = [i \in DOMAIN entries \cup {id} |->
                       IF i = id THEN [node |-> leaf, blk |-> h] ELSE entries[i]]
      /\ UNCHANGED <<frontier, stack, roots, torn, ruined, hurt, bare>>
  BY Hanging
<1>1. \A c \in Blocks \ {leaf} : disk'[c] = disk[c]
  BY DEF TypeInv
<1>2. \A i \in DOMAIN entries \ torn : disk'[BlockOf(i)] = disk[BlockOf(i)]
  BY <1>1, HeaderIsKept DEF At, Dropping
<1>3. /\ DOMAIN entries' = DOMAIN entries \cup {id}
      /\ \A i \in DOMAIN entries : BlockOf(i)' = BlockOf(i)
      /\ BlockOf(id)' = h /\ disk'[h].nodes = {}
  BY <1>1 DEF BlockOf, Header
<1>4. id \notin torn /\ id \notin Known /\ Known' = Known \cup {id}
  BY <1>3 DEF Inventory, Known
<1>5. Contents' = [i \in DOMAIN Contents \cup {id} |->
                     IF i = id THEN 0 ELSE Contents[i]]
  <2>1. Contents' = [i \in Known' |->
                       IF i \in torn THEN Damaged
                       ELSE Cardinality(disk'[BlockOf(i)'].nodes)]
    BY DEF Contents, Known
  <2>2. Cardinality(disk'[BlockOf(id)'].nodes) = 0
    BY <1>3, FS_EmptySet
  <2>3. ASSUME NEW i \in Known'
        PROVE  (IF i \in torn THEN Damaged ELSE Cardinality(disk'[BlockOf(i)'].nodes))
                 = IF i = id THEN 0 ELSE Contents[i]
    <3>1. CASE i = id
      BY <1>4, <2>2, <3>1
    <3>2. CASE i # id
      <4>1. i \in Known /\ BlockOf(i)' = BlockOf(i)
        BY <1>3, <1>4, <3>2 DEF Known
      <4>2. i \notin torn => /\ i \in Sound
                             /\ disk'[BlockOf(i)] = disk[BlockOf(i)]
        BY <1>2, <4>1 DEF Sound, Known
      <4> QED
        BY <3>2, <4>1, <4>2, ContentsFacts
    <3> QED
      BY <3>1, <3>2
  <2> QED
    BY <1>4, <2>1, <2>3, ContentsFacts
<1>6. id \notin DOMAIN Contents /\ id[1] \notin Lost /\ Lost' = Lost
  BY <1>4, ContentsFacts DEF Lost
<1> QED
  BY <1>5, <1>6 DEF Promise!Next, Promise!Create, Promise!Existing

LEMMA DropSaveShows ==
  ASSUME NEW p, Procs = {p}, IInv(p), DropSave(p)
  PROVE  Promise!Next
<1> USE DEF IInv
<1>0. ~bare /\ Inventory(p) /\ At(p, "top")
  BY Installed DEF DropSave, At, Using
<1> PICK id \in Sound : id = job[p].id
  BY <1>0 DEF CallInv, At, Using
<1>1. /\ torn' = torn /\ UNCHANGED <<ruined, bare, disk>>
      /\ entries' = [i \in DOMAIN entries \ {id} |-> entries[i]]
      /\ id \in DOMAIN entries /\ id \in Known
  BY DEF DropSave, Sound, Known
<1>2. Contents' = [i \in DOMAIN Contents \ {id} |-> Contents[i]]
  <2>1. /\ Known' = Known \ {id}
        /\ \A i \in Known' : BlockOf(i)' = BlockOf(i)
    BY <1>1 DEF BlockOf, Known
  <2>2. Contents' = [i \in Known' |->
                       IF i \in torn THEN Damaged
                       ELSE Cardinality(disk[BlockOf(i)'].nodes)]
    BY <1>0, <1>1 DEF Contents, Known
  <2>3. Contents = [i \in Known |->
                      IF i \in torn THEN Damaged
                      ELSE Cardinality(disk[BlockOf(i)].nodes)]
    BY <1>0 DEF Contents, Known
  <2> QED
    BY <2>1, <2>2, <2>3
<1>3. Contents[id] # Damaged
  <2>1. Contents[id] \in Nat
    BY <1>0, <1>1, ContentsFacts, NodesCounted
  <2> QED
    BY <2>1, RegistryAssumption
<1>4. id \in DOMAIN Contents /\ Lost' = Lost
  BY <1>0, <1>1, ContentsFacts DEF Lost
<1> QED
  BY <1>2, <1>3, <1>4 DEF Promise!Next, Promise!Delete, Promise!Existing

LEMMA PutLinkShows ==
  ASSUME NEW p, Procs = {p}, IInv(p), PutLink(p)
  PROVE  Promise!Next
<1> USE DEF IInv
<1> PICK id \in Sound, h \in Blocks, b \in Blocks :
      /\ ~bare /\ Inventory(p) /\ At(p, "link") /\ ~Dropping(p)
      /\ id = job[p].id /\ h = BlockOf(id) /\ Hand(p) = {b}
      /\ h # b /\ h \in Used \ roots /\ b \in Used \ roots
      /\ Body(p, id) = {h} \cup disk[h].nodes
      /\ disk' \in [Blocks -> Records]
      /\ disk'[h].nodes = disk[h].nodes \cup {b} /\ disk'[h].id = disk[h].id
      /\ \A i \in (DOMAIN entries \ torn) \ {id} : disk'[BlockOf(i)] = disk[BlockOf(i)]
      /\ UNCHANGED <<frontier, stack, roots, entries, torn, ruined, hurt, bare>>
  BY Linking
<1>1. id \in DOMAIN entries \ torn /\ id \in Known /\ b \notin disk[h].nodes
  <2>1. id \in DOMAIN entries
    BY DEF Sound
  <2> QED
    BY <2>1 DEF Sound, Known, Inventory, Kept
<1>2. /\ Contents[id] \in Nat
      /\ Cardinality(disk'[h].nodes) = Contents[id] + 1
  <2>1. /\ Cardinality(disk[h].nodes) \in Nat
        /\ Cardinality(disk[h].nodes \cup {b}) = Cardinality(disk[h].nodes) + 1
    BY <1>1, NodesCounted
  <2> QED
    BY <2>1, ContentsFacts
<1>3. Contents' = [Contents EXCEPT ![id] = @ + 1]
  <2>1. Known' = Known /\ \A i : BlockOf(i)' = BlockOf(i)
    BY DEF BlockOf, Known
  <2>2. Contents' = [i \in Known |->
                       IF i \in torn THEN Damaged
                       ELSE Cardinality(disk'[BlockOf(i)].nodes)]
    BY <2>1 DEF Contents, Known
  <2>3. ASSUME NEW i \in Known
        PROVE  (IF i \in torn THEN Damaged ELSE Cardinality(disk'[BlockOf(i)].nodes))
                 = IF i = id THEN Contents[id] + 1 ELSE Contents[i]
    <3>1. CASE i = id
      BY <1>1, <1>2, <3>1
    <3>2. CASE i # id
      <4>1. i \notin torn => /\ i \in Sound
                             /\ disk'[BlockOf(i)] = disk[BlockOf(i)]
        BY <3>2 DEF Sound, Known
      <4> QED
        BY <3>2, <4>1, ContentsFacts
    <3> QED
      BY <3>1, <3>2
  <2>4. [Contents EXCEPT ![id] = @ + 1]
          = [i \in Known |-> IF i = id THEN Contents[id] + 1 ELSE Contents[i]]
    BY ContentsFacts
  <2> QED
    BY <2>2, <2>3, <2>4
<1>4. Contents[id] # Damaged /\ id \in DOMAIN Contents /\ Lost' = Lost
  BY <1>1, <1>2, RegistryAssumption, ContentsFacts DEF Lost
<1> QED
  BY <1>3, <1>4 DEF Promise!Next, Promise!Put, Promise!Existing

\* A kill damages what the call was for, or loses the names of its kind, or
\* shows nothing.
LEMMA CrashShows ==
  ASSUME NEW p, Procs = {p}, IInv(p), Crash(p)
  PROVE  Promise!Next \/ UNCHANGED <<Contents, Lost>>
<1> USE DEF IInv
<1> PICK id : id = job[p].id
  OBVIOUS
<1>1. /\ UNCHANGED <<disk, entries, bare>>
      /\ torn' = torn \/ (~bare /\ id \in Sound /\ torn' = torn \cup {id})
      /\ ruined' = ruined \/ (~bare /\ id \in Ids /\ ruined' = ruined \cup {id[1]})
  BY Killed
<1>2. \A i : BlockOf(i)' = BlockOf(i)
  BY <1>1 DEF BlockOf
<1>3. ASSUME ~bare
      PROVE  /\ Contents = [i \in Known |->
                              IF i \in torn THEN Damaged
                              ELSE Cardinality(disk[BlockOf(i)].nodes)]
             /\ Contents' = [i \in Known' |->
                               IF i \in torn' THEN Damaged
                               ELSE Cardinality(disk[BlockOf(i)].nodes)]
             /\ DOMAIN Contents = Known /\ Lost = ruined /\ Lost' = ruined'
  BY <1>1, <1>2, <1>3 DEF Contents, Known, Lost
<1>4. CASE ruined' # ruined
  <2>1. ~bare /\ id \in Ids /\ ruined' = ruined \cup {id[1]}
    BY <1>1, <1>4
  <2>2. /\ Known' = {i \in Known : i[1] # id[1]}
        /\ \A i \in Known' : i \in torn' <=> i \in torn
    BY <1>1, <2>1 DEF Known
  <2>3. Contents' = [i \in {j \in Known : j[1] # id[1]} |-> Contents[i]]
    BY <1>3, <2>1, <2>2
  <2>4. id[1] \in Kinds
    BY <2>1, KindOfId
  <2> QED
    BY <1>3, <2>1, <2>3, <2>4 DEF Promise!Next, Promise!Lose, Promise!Existing
<1>5. CASE ruined' = ruined /\ torn' # torn
  <2>1. ~bare /\ id \in Sound /\ torn' = torn \cup {id}
    BY <1>1, <1>5
  <2>2. Known' = Known /\ id \in Known
    BY <1>1, <1>5, <2>1 DEF Known, Sound
  <2>3. Contents' = [Contents EXCEPT ![id] = Damaged]
    BY <1>3, <2>1, <2>2
  <2> QED
    BY <1>3, <1>5, <2>1, <2>2, <2>3 DEF Promise!Next, Promise!Damage, Promise!Existing
<1>6. CASE ruined' = ruined /\ torn' = torn
  BY <1>1, <1>2, <1>6, ContentsStutter
<1> QED
  BY <1>4, <1>5, <1>6

\* db_manage.h keeps what the catalog promises: a call changes the one map or
\* list it names, at one of its steps.  A killed call did so, or did not, or
\* damaged that one; or, killed while it was writing to a root map (db_map.h,
\* add and drop), it leaves nothing known of the names of that kind, and
\* everything of the other.
THEOREM RegistryImplementsCatalog ==
  ASSUME OneCaller
  PROVE  Spec => CatalogSpec
<1> PICK p : Procs = {p}
  BY DEF OneCaller
<1>1. Init => Promise!Init
  <2>1. ASSUME Init PROVE Contents = <<>> /\ Lost = {}
    <3>1. ~bare /\ DOMAIN entries = {} /\ ruined = {}
      BY <2>1 DEF Init
    <3> QED
      BY <3>1 DEF Contents, Lost
  <2> QED
    BY <2>1 DEF Promise!Init
<1>2. ASSUME IInv(p), [Next]_vars PROVE Promise!Next \/ UNCHANGED <<Contents, Lost>>
  <2>1. ASSUME NEW id \in Ids, CreateCall(p, id) \/ DeleteCall(p, id) \/ PutCall(p, id)
        PROVE  UNCHANGED <<Contents, Lost>>
    BY <2>1, ContentsStutter DEF CreateCall, DeleteCall, PutCall, history, BlockOf
  <2>2. CASE \/ CreateBlock(p) \/ AddDescend(p) \/ AddLeaf(p) \/ PutNew(p)
             \/ ReleaseNode(p) \/ ReleaseHeader(p) \/ DropUnhang(p)
    <3>1. UNCHANGED <<disk, entries, torn, ruined, bare>>
      BY <2>2 DEF CreateBlock, AddDescend, AddLeaf, PutNew, ReleaseNode,
                  ReleaseHeader, DropUnhang, history
    <3> QED
      BY <3>1, ContentsStutter DEF BlockOf
  <2>3. CASE CreateSave(p)
    <3>1. ~bare /\ Inventory(p) /\ TypeInv /\ At(p, "save") /\ Hand(p) = {job[p].blk}
      BY <1>2, <2>3, Installed DEF CreateSave, At, Hand, IInv, Naming
    <3>2. \A i \in Sound : disk'[BlockOf(i)] = disk[BlockOf(i)]
      <4>1. \A i \in Sound : BlockOf(i) \in Blocks /\ BlockOf(i) # job[p].blk
        BY <3>1, HeaderIsKept DEF Sound, At, Dropping
      <4> QED
        BY <2>3, <3>1, <4>1 DEF CreateSave, TypeInv
    <3> QED
      BY <2>3, <3>2, ContentsStutter DEF CreateSave, history, BlockOf
  <2>4. CASE DropFree(p)
    <3>1. /\ DOMAIN entries' = DOMAIN entries
          /\ \A i \in DOMAIN entries : BlockOf(i)' = BlockOf(i)
      BY <1>2, <2>4 DEF DropFree, BlockOf, IInv, TypeInv, Entries
    <3> QED
      BY <2>4, <3>1, ContentsStutter DEF DropFree, history
  <2>5. CASE AddHang(p) \/ DropSave(p) \/ PutLink(p)
    BY <1>2, <2>5, AddHangShows, DropSaveShows, PutLinkShows
  <2>6. CASE Clear(p)
    BY <2>6 DEF Clear, Contents, Lost, Promise!Next, Promise!Reset
  <2>7. CASE InstallRoot(p)
    <3>1. bare
      BY <1>2, <2>7 DEF InstallRoot, IInv, CallInv
    <3> QED
      BY <2>7, <3>1, ContentsStutter DEF InstallRoot, history
  <2>8. CASE InstallPoint(p)
    <3>1. bare /\ ~bare' /\ entries' = <<>> /\ ruined' = {}
      BY <1>2, <2>8 DEF InstallPoint, IInv, CallInv
    <3>2. DOMAIN entries' = {}
      BY <3>1
    <3> QED
      BY <3>1, <3>2 DEF Contents, Lost
  <2>9. CASE Crash(p)
    BY <1>2, <2>9, CrashShows
  <2>10. CASE UNCHANGED vars
    BY <2>10, ContentsStutter DEF vars, history, BlockOf
  <2> QED
    BY <1>2, <2>1, <2>2, <2>3, <2>4, <2>5, <2>6, <2>7, <2>8, <2>9, <2>10 DEF Next, Step
<1>3. IInv(p) /\ [Next]_vars => [Promise!Next]_<<Contents, Lost>>
  BY <1>2
<1> QED
  BY <1>1, <1>3, Invariance, PTL DEF Spec, CatalogSpec, Promise!Spec
=============================================================================
