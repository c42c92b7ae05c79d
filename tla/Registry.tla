------------------------------ MODULE Registry ------------------------------
(***************************************************************************)
(* db_manage.h: the names of all maps and lists, kept in two root maps     *)
(* whose headers db_root.dat points to.  The registry composes the layers  *)
(* below: every structure has a header block and node blocks from the      *)
(* allocator, every name a node of a root map.  A call of the allocator is *)
(* one step (NodeAllocator looks inside).  A call that adds to a tree or   *)
(* takes from it writes many blocks around one call of the allocator: what *)
(* it writes before that is one step, what it writes after is another, and *)
(* a process may be killed between any two.  The shape of a tree is not    *)
(* part of the model (Treap has it, without kills): killed between two     *)
(* writes to a tree that is not empty, a process leaves a tree of which    *)
(* nothing is assumed.                                                     *)
(***************************************************************************)
EXTENDS Integers, FiniteSets, SequencesExt

CONSTANTS Procs, MapNames, ListNames,
          MaxBlocks,    \* model bound: blocks ever taken from the frontier
          MaxNodes,     \* model bound: entries of one map or list
          Damaged       \* see Catalog

ASSUME RegistryAssumption ==
  /\ MaxBlocks \in Nat /\ MaxBlocks >= 2     \* an installed database fits
  /\ MaxNodes \in Nat
  /\ Damaged \notin Nat

Kinds == {"map", "list"}
Ids == ({"map"} \X MapNames) \cup ({"list"} \X ListNames)
Blocks == 0 .. MaxBlocks - 1
NoBlock == -1

VARIABLES frontier, stack,  \* the allocator: first fresh block, free blocks
          disk,     \* what was last written to each block
          roots,    \* db_root.dat: the header blocks of the two root maps
          entries,  \* the root maps: id -> its node and its value
          job,      \* what each process is in the middle of; after a create,
                    \* blk is the handle it returned
          torn,     \* history: ids whose map or list was left half written
                    \* or half freed when a call was cut short
          ruined,   \* history: kinds whose root map was left half written;
                    \* entries has what their names were before
          hurt,     \* history: a call was cut short since the last install
          bare      \* history: a reset was cut short, nothing is installed

pool == <<frontier, stack>>
history == <<torn, ruined, hurt, bare>>
vars == <<pool, disk, roots, entries, job, history>>

Nothing == [id |-> <<>>, nodes |-> {}]
Node == [id |-> <<"node">>, nodes |-> {}]
RootHeader == [id |-> <<"root">>, nodes |-> {}]
Header(id, nodes) == [id |-> id, nodes |-> nodes]

Resting == [pc |-> "idle", id |-> <<>>, blk |-> NoBlock, left |-> {}]
At(p, pc) == job[p].pc = pc
Idle(p) == At(p, "idle")
Goto(p, pc) == job' = [job EXCEPT ![p].pc = pc]
Return(p) == job' = [job EXCEPT ![p] = Resting]

(***************************************************************************)
(* The allocator, one call at a time.                                      *)
(***************************************************************************)
Fresh == IF stack = <<>> THEN frontier ELSE Last(stack)

\* New, growing the files even when a free block was taken.
AlwaysGrow == frontier' = frontier + 1 /\ UNCHANGED stack

\* New, leaving the free block it takes on the stack.
PeekOnly ==
  IF stack = <<>>
  THEN frontier' = frontier + 1 /\ UNCHANGED stack
  ELSE UNCHANGED pool

New ==
  IF stack = <<>>
  THEN frontier' = frontier + 1 /\ UNCHANGED stack
  ELSE stack' = Front(stack) /\ UNCHANGED frontier

Free(b) == stack' = Append(stack, b) /\ UNCHANGED frontier

UsedMemory == frontier - Len(stack)

Room(n) ==
  Len(stack) + MaxBlocks - frontier >= n + 2 * (Cardinality(Procs) - 1)

Init ==
  /\ frontier = 2
  /\ stack = <<>>
  /\ disk = [b \in Blocks |-> IF b < 2 THEN RootHeader ELSE Nothing]
  /\ roots = {0, 1}
  /\ entries = <<>>
  /\ job = [p \in Procs |-> Resting]
  /\ torn = {} /\ ruined = {} /\ hurt = FALSE /\ bare = FALSE

Exists(id) == id \in DOMAIN entries
BlockOf(id) == entries[id].blk             \* get_map, get_list
SameKind(id) == {i \in DOMAIN entries : i[1] = id[1]}

\* Assumed of the callers: calls are made on an installed database, and neither
\* a map or list that a kill left half written, nor a name of a kind whose root
\* map one did, is used again before a reset.
Call(p, id) ==
  /\ Idle(p)
  /\ ~bare
  /\ id \notin torn
  /\ id[1] \notin ruined

(***************************************************************************)
(* create_map, create_list: the types asked for are not part of the model. *)
(***************************************************************************)
CreateCall(p, id) ==
  /\ Call(p, id)
  /\ Room(2)                                                \* model bound
  /\ IF Exists(id)
     THEN job' = [job EXCEPT ![p] = [Resting EXCEPT !.blk = BlockOf(id)]]
     ELSE job' = [job EXCEPT ![p] = [Resting EXCEPT !.pc = "create", !.id = id]]
  /\ UNCHANGED <<pool, disk, roots, entries, history>>

CreateBlock(p) ==
  /\ At(p, "create")
  /\ New
  /\ job' = [job EXCEPT ![p].pc = "save", ![p].blk = Fresh]
  /\ UNCHANGED <<disk, roots, entries, history>>

\* CreateSave, without the save.
SaveNothing(p) ==
  /\ At(p, "save")
  /\ Goto(p, "add")
  /\ UNCHANGED <<pool, disk, roots, entries, history>>

CreateSave(p) ==
  /\ At(p, "save")
  /\ Goto(p, "add")
  /\ disk' = [disk EXCEPT ![job[p].blk] = Header(job[p].id, {})]
  /\ UNCHANGED <<pool, roots, entries, history>>

(***************************************************************************)
(* map1.add, map2.add: insert goes down the root map, counting the new     *)
(* node in the size of each node it passes, takes a block for the leaf,    *)
(* hangs it up and lifts it; the header, with the root, is saved last.     *)
(***************************************************************************)
AddDescend(p) ==
  /\ At(p, "add")
  /\ job' = [job EXCEPT ![p] = IF Exists(job[p].id)
                               THEN [Resting EXCEPT !.blk = job[p].blk]
                               ELSE [job[p] EXCEPT !.pc = "leaf"]]
  /\ UNCHANGED <<pool, disk, roots, entries, history>>

AddLeaf(p) ==
  /\ At(p, "leaf")
  /\ New
  /\ job' = [job EXCEPT ![p].pc = "hang", ![p].left = {Fresh}]
  /\ UNCHANGED <<disk, roots, entries, history>>

AddHang(p) ==
  /\ At(p, "hang")
  /\ job' = [job EXCEPT ![p] = [Resting EXCEPT !.blk = job[p].blk]]
  /\ \E leaf \in job[p].left :
       /\ disk' = [disk EXCEPT ![leaf] = Node]
       /\ entries' = [i \in DOMAIN entries \cup {job[p].id} |->
                        IF i = job[p].id THEN [node |-> leaf, blk |-> job[p].blk]
                        ELSE entries[i]]
  /\ UNCHANGED <<pool, roots, history>>

(***************************************************************************)
(* delete_map, delete_list.  The header is loaded once, its nodes are      *)
(* freed, then the header, then the name goes.  A missing name gives a     *)
(* null handle, and releasing that does nothing.                           *)
(***************************************************************************)
DeleteCall(p, id) ==
  /\ Call(p, id)
  /\ Exists(id)
  /\ job' = [job EXCEPT ![p] = [pc |-> "release", id |-> id, blk |-> BlockOf(id),
                                left |-> disk[BlockOf(id)].nodes]]
  /\ UNCHANGED <<pool, disk, roots, entries, history>>

\* ReleaseNode, forgetting what it has freed.
ReleaseNothing(p) ==
  /\ At(p, "release")
  /\ job[p].left # {}
  /\ job' = [job EXCEPT ![p].left = {}]
  /\ UNCHANGED <<pool, disk, roots, entries, history>>

ReleaseNode(p) ==
  /\ At(p, "release")
  /\ \E b \in job[p].left :
       /\ Free(b)
       /\ job' = [job EXCEPT ![p].left = @ \ {b}]
  /\ UNCHANGED <<disk, roots, entries, history>>

ReleaseHeader(p) ==
  /\ At(p, "release")
  /\ job[p].left = {}
  /\ Free(job[p].blk)
  /\ Goto(p, "drop")
  /\ UNCHANGED <<disk, roots, entries, history>>

(***************************************************************************)
(* map1.drop, map2.drop: remove finds the node of the name and takes a     *)
(* node out of the tree (the name's own, its son's or its successor's,     *)
(* whose data then move into the name's), frees that block, and counts     *)
(* down the sizes above it; the header is saved last.  The last name of a  *)
(* kind is only freed: what is written before changes nothing, and until   *)
(* the header is saved it names a free block.                              *)
(***************************************************************************)
DropUnhang(p) ==
  /\ At(p, "drop")
  /\ IF Exists(job[p].id) THEN Goto(p, "free") ELSE Return(p)
  /\ UNCHANGED <<pool, disk, roots, entries, history>>

DropFree(p) ==
  /\ At(p, "free")
  /\ \E other \in SameKind(job[p].id) :
       /\ Free(entries[other].node)
       /\ entries' = [entries EXCEPT ![other].node = entries[job[p].id].node,
                                     ![job[p].id].node = entries[other].node]
  /\ Goto(p, "top")
  /\ UNCHANGED <<disk, roots, history>>

\* DropSave, leaving the name behind.
DropNothing(p) ==
  /\ At(p, "top")
  /\ Return(p)
  /\ UNCHANGED <<pool, disk, roots, entries, history>>

DropSave(p) ==
  /\ At(p, "top")
  /\ Return(p)
  /\ entries' = [i \in DOMAIN entries \ {job[p].id} |-> entries[i]]
  /\ torn' = torn \ {job[p].id}
  /\ UNCHANGED <<pool, disk, roots, ruined, hurt, bare>>

(***************************************************************************)
(* A new key for a map, or an element for a list, that get_map or get_list *)
(* found: the block is taken on the way, its header is saved last.         *)
(***************************************************************************)
PutCall(p, id) ==
  /\ Call(p, id)
  /\ Exists(id)
  /\ Cardinality(disk[BlockOf(id)].nodes) < MaxNodes /\ Room(1) \* model bounds
  /\ job' = [job EXCEPT ![p] = [Resting EXCEPT !.pc = "grow", !.id = id,
                                               !.blk = BlockOf(id)]]
  /\ UNCHANGED <<pool, disk, roots, entries, history>>

PutNew(p) ==
  /\ At(p, "grow")
  /\ New
  /\ job' = [job EXCEPT ![p].pc = "link", ![p].left = {Fresh}]
  /\ UNCHANGED <<disk, roots, entries, history>>

PutLink(p) ==
  /\ At(p, "link")
  /\ Return(p)
  /\ disk' = [b \in Blocks |->
                IF b = job[p].blk
                THEN [disk[b] EXCEPT !.nodes = @ \cup job[p].left]
                ELSE IF b \in job[p].left THEN Node ELSE disk[b]]
  /\ UNCHANGED <<pool, roots, entries, history>>

(***************************************************************************)
(* reset: clear_all_nodes, then install.                                   *)
(***************************************************************************)
Clear(p) ==
  /\ Idle(p)
  /\ frontier' = 0
  /\ stack' = <<>>
  /\ bare' = TRUE
  /\ job' = [job EXCEPT ![p] = [Resting EXCEPT !.pc = "install"]]
  /\ UNCHANGED <<disk, roots, entries, torn, ruined, hurt>>

\* Create and save one root map, then the other.
InstallRoot(p) ==
  /\ At(p, "install") \/ At(p, "install2")
  /\ New
  /\ disk' = [disk EXCEPT ![Fresh] = RootHeader]
  /\ job' = [job EXCEPT ![p].pc = IF At(p, "install") THEN "install2" ELSE "point",
                        ![p].left = @ \cup {Fresh}]
  /\ UNCHANGED <<roots, entries, history>>

\* InstallPoint, without the last save.
PointNowhere(p) ==
  /\ At(p, "point")
  /\ Return(p)
  /\ torn' = {} /\ ruined' = {} /\ hurt' = FALSE /\ bare' = FALSE
  /\ UNCHANGED <<pool, disk, roots, entries>>

\* The last save: db_root.dat names the new root maps, which are empty.
InstallPoint(p) ==
  /\ At(p, "point")
  /\ Return(p)
  /\ roots' = job[p].left
  /\ entries' = <<>>
  /\ torn' = {} /\ ruined' = {} /\ hurt' = FALSE /\ bare' = FALSE
  /\ UNCHANGED <<pool, disk>>

(***************************************************************************)
(* A process is killed in the middle of a call.  Its death writes nothing; *)
(* what it had written and not finished stays.                             *)
(***************************************************************************)
\* Some of the blocks of the map or list are free, and its name still there.
HalfFreed(p) ==
  \/ job[p].pc \in {"drop", "free", "top"}
  \/ At(p, "release") /\ job[p].left # disk[job[p].blk].nodes

\* A first key or element is there when the header is, and not before.
HalfPut(p) ==
  job[p].pc \in {"grow", "link"} /\ disk[job[p].blk].nodes # {}

\* So is a first name.
HalfNamed(p) ==
  \/ job[p].pc \in {"leaf", "hang"} /\ SameKind(job[p].id) # {}
  \/ At(p, "free") /\ SameKind(job[p].id) # {job[p].id}
  \/ At(p, "top")

Crash(p) ==
  /\ ~Idle(p)
  /\ Return(p)
  /\ torn' = IF HalfFreed(p) \/ HalfPut(p) THEN torn \cup {job[p].id} ELSE torn
  /\ ruined' = IF HalfNamed(p) THEN ruined \cup {job[p].id[1]} ELSE ruined
  /\ hurt' = TRUE
  /\ UNCHANGED <<pool, disk, roots, entries, bare>>

Step(p) ==
  \/ \E id \in Ids : CreateCall(p, id) \/ DeleteCall(p, id) \/ PutCall(p, id)
  \/ CreateBlock(p) \/ CreateSave(p) \/ AddDescend(p) \/ AddLeaf(p) \/ AddHang(p)
  \/ ReleaseNode(p) \/ ReleaseHeader(p) \/ DropUnhang(p) \/ DropFree(p) \/ DropSave(p)
  \/ PutNew(p) \/ PutLink(p)
  \/ Clear(p) \/ InstallRoot(p) \/ InstallPoint(p)

Next == \E p \in Procs : Step(p) \/ Crash(p)

Spec == Init /\ [][Next]_vars

(***************************************************************************)
(* Properties                                                              *)
(***************************************************************************)
TypeOK ==
  /\ frontier \in 0 .. MaxBlocks
  /\ stack \in Seq(Blocks)
  /\ \A b \in Blocks : disk[b].nodes \subseteq Blocks
  /\ roots \subseteq Blocks
  /\ DOMAIN entries \subseteq Ids
  /\ \A id \in DOMAIN entries : {entries[id].node, entries[id].blk} \subseteq Blocks
  /\ \A p \in Procs :
       /\ job[p].id \in Ids \cup {<<>>}
       /\ job[p].blk \in Blocks \cup {NoBlock}
       /\ job[p].left \subseteq Blocks
  /\ torn \subseteq Ids /\ ruined \subseteq Kinds
  /\ hurt \in BOOLEAN /\ bare \in BOOLEAN

Quiet == ~bare /\ \A p \in Procs : Idle(p)
Sound == {id \in DOMAIN entries \ torn : id[1] \notin ruined}

\* The blocks an id is answerable for: its entry, its header, its nodes.  After
\* a kill, not those that may be free by then although a name or a root map
\* still leads to them: of a torn id the header and the nodes, of a ruined root
\* map the entries.
Owned(id) ==
  (IF id[1] \in ruined THEN {} ELSE {entries[id].node}) \cup
  (IF id \in torn THEN {} ELSE {BlockOf(id)} \cup disk[BlockOf(id)].nodes)

\* Every name leads to its own map or list, except, after a kill, the one the
\* killed call named, and the names of a kind whose root map it was writing
\* to: the names of the other kind never suffer.
NamesResolve == Quiet => \A id \in Sound : disk[BlockOf(id)].id = id

\* No block an id is answerable for belongs to another, to a root map as well,
\* or is at the same time free to be handed out.
NothingShared ==
  Quiet =>
    /\ \A id \in DOMAIN entries :
         /\ Owned(id) \cap roots = {}
         /\ Owned(id) \cap ToSet(stack) = {}
         /\ \A b \in Owned(id) : b < frontier
         /\ \A other \in DOMAIN entries \ {id} : Owned(id) \cap Owned(other) = {}
    /\ IsInjective(stack)

\* size db: with no call cut short since the last install, used_memory is the
\* two root headers, and for each name its entry, its header and its nodes.
SizeExact ==
  Quiet /\ ~hurt =>
    UsedMemory = 2 + Cardinality(UNION {Owned(id) : id \in DOMAIN entries})

\* Kills can lose blocks; used_memory still covers the root headers and all
\* that the ids are answerable for.
SizeCovers ==
  Quiet =>
    UsedMemory >= 2 + Cardinality(UNION {Owned(id) : id \in DOMAIN entries})

\* Each call does what it says to the one map or list it names, at one of its
\* steps.  A killed call did so, or not at all, or damaged the one it names,
\* or lost the names of that one's kind; it did nothing to the other kind.
Contents ==
  IF bare THEN <<>>
  ELSE [id \in {i \in DOMAIN entries : i[1] \notin ruined} |->
          IF id \in torn THEN Damaged ELSE Cardinality(disk[BlockOf(id)].nodes)]

Lost == IF bare THEN {} ELSE ruined

Promise == INSTANCE Catalog WITH contents <- Contents, lost <- Lost

CatalogSpec == Promise!Spec
=============================================================================
