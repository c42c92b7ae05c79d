------------------------------- MODULE DbMap -------------------------------
(***************************************************************************)
(* The maps of db_map.h.  Every map is a header block (root, hash_top) and *)
(* a treap of node blocks; all maps share the blocks of the database.  A   *)
(* program works on a map through handles, db_map variables that keep a    *)
(* copy of the header.  One action per call, from load to save: the        *)
(* library locks blocks, never maps, so callers make these calls one at a  *)
(* time, as the server does.                                               *)
(***************************************************************************)
EXTENDS Treap, FiniteSets

CONSTANTS Maps,       \* header blocks
          Blocks,     \* model bound: the node blocks of the database
          Handles,    \* db_map variables
          Keys,       \* keys, in the order of data_type2's operator <
          Values,
          Randoms,    \* what rand() returns
          MaxTop,     \* model bound: insertions into one map
          NONE        \* the answer -1: no such key

ASSUME ConstAssumption ==
  /\ NULL \notin Blocks
  /\ Keys \subseteq Int
  /\ Randoms \subseteq Nat

VARIABLES disk,       \* the node blocks in use
          header,     \* the header blocks in use: map -> [root, top]
          handle,     \* the copy in each db_map variable: [map, root, top]
          did         \* history: the last call and its answer

vars == <<disk, header, handle, did>>

NoMap == [map |-> NULL, root |-> NULL, top |-> 0]

Init ==
  /\ disk = <<>>
  /\ header = <<>>
  /\ handle = [h \in Handles |-> NoMap]
  /\ did = <<"none">>

\* TREAP::load: the tree of map m as it is on disk.
Load(m) == [node |-> disk, root |-> header[m].root, top |-> header[m].top]

\* What a handle believes the tree to be, without loading it first.
Believed(h) == [node |-> disk, root |-> handle[h].root, top |-> handle[h].top]

Hold(h, m, t) ==
  handle' = [handle EXCEPT ![h] = [map |-> m, root |-> t.root, top |-> t.top]]

\* TREAP::save through handle h, and the nodes written before it.
SaveMap(h, m, t) ==
  /\ disk' = t.node
  /\ header' = [header EXCEPT ![m] = [root |-> t.root, top |-> t.top]]
  /\ Hold(h, m, t)

\* The call changes nothing, but it loaded the header.
Loaded(h, m) ==
  /\ Hold(h, m, Load(m))
  /\ UNCHANGED <<disk, header>>

\* Handles of maps that were released are no longer used.
MapOf(h) == handle[h].map
Bound(h) == MapOf(h) \in DOMAIN header

\* Assumed of the callers of the calls that do not load the header first:
\* nothing was done through another handle since this one loaded it.
UpToDate(h) ==
  /\ Bound(h)
  /\ header[MapOf(h)] = [root |-> handle[h].root, top |-> handle[h].top]

(***************************************************************************)
(* Faults: see Treap.                                                      *)
(***************************************************************************)
\* Add, forgetting to save hash_top.
KeepTop(h, k, v) ==
  LET m == MapOf(h)
  IN \E b \in Blocks \ DOMAIN disk, r \in Randoms :
       /\ header[m].top < MaxTop
       /\ Find(Load(m), k) = NULL
       /\ SaveMap(h, m, [Insert(Load(m), [key |-> k, value |-> v, random |-> r], b)
                           EXCEPT !.top = header[m].top])
       /\ did' = <<"add", m, k, v>>

\* Clear, forgetting the nodes.
ForgetNodes(h) ==
  LET m == MapOf(h)
  IN /\ UpToDate(h)
     /\ SaveMap(h, m, [Believed(h) EXCEPT !.root = NULL])
     /\ did' = <<"clear", m>>

\* GetByKey, without loading the header first.
GetUnloaded(h, k) ==
  LET x == Find(Believed(h), k)
  IN /\ UNCHANGED <<disk, header, handle>>
     /\ did' = <<"get", MapOf(h), k, IF x = NULL THEN NONE ELSE disk[x].value>>

(***************************************************************************)
(* The calls                                                               *)
(***************************************************************************)
Create(h, m) ==
  /\ m \notin DOMAIN header
  /\ header' = [n \in DOMAIN header \cup {m} |->
                  IF n = m THEN [root |-> NULL, top |-> 0] ELSE header[n]]
  /\ Hold(h, m, EmptyTree)
  /\ did' = <<"create", m>>
  /\ UNCHANGED disk

\* db_struct::get_map: another variable for the same map.
GetMap(h, m) ==
  /\ m \in DOMAIN header
  /\ Loaded(h, m)
  /\ UNCHANGED did

Add(h, k, v) ==
  LET m == MapOf(h)
  IN /\ \/ /\ Find(Load(m), k) # NULL
           /\ Loaded(h, m)
        \/ /\ Find(Load(m), k) = NULL
           /\ header[m].top < MaxTop                        \* model bound
           /\ \E b \in Blocks \ DOMAIN disk, r \in Randoms :
                SaveMap(h, m, Insert(Load(m), [key |-> k, value |-> v, random |-> r], b))
     /\ did' = <<"add", m, k, v>>

Drop(h, k) ==
  LET m == MapOf(h)
  IN /\ \/ Find(Load(m), k) = NULL /\ Loaded(h, m)
        \/ Find(Load(m), k) # NULL /\ SaveMap(h, m, Remove(Load(m), k))
     /\ did' = <<"drop", m, k>>

Update(h, k, v) ==
  LET m == MapOf(h)
      x == Find(Load(m), k)
  IN \/ x = NULL /\ Loaded(h, m) /\ did' = <<"update", m, k, NONE>>
     \/ /\ x # NULL
        /\ SaveMap(h, m, [Load(m) EXCEPT !.node[x].value = v])
        /\ did' = <<"update", m, k, v>>

GetByKey(h, k) ==
  LET m == MapOf(h)
      x == Find(Load(m), k)
  IN /\ Loaded(h, m)
     /\ did' = <<"get", m, k, IF x = NULL THEN NONE ELSE disk[x].value>>

\* clear and release start from the root in the variable.
Clear(h) ==
  LET m == MapOf(h)
  IN /\ UpToDate(h)
     /\ SaveMap(h, m, [ReleaseNode(Believed(h), handle[h].root) EXCEPT !.root = NULL])
     /\ did' = <<"clear", m>>

Release(h) ==
  LET m == MapOf(h)
  IN /\ UpToDate(h)
     /\ disk' = ReleaseNode(Believed(h), handle[h].root).node
     /\ header' = [n \in DOMAIN header \ {m} |-> header[n]]
     /\ did' = <<"release", m>>
     /\ UNCHANGED handle

Next ==
  \E h \in Handles :
    \/ \E m \in Maps : Create(h, m) \/ GetMap(h, m)
    \/ /\ Bound(h)
       /\ \/ \E k \in Keys :
               \/ \E v \in Values : Add(h, k, v) \/ Update(h, k, v)
               \/ Drop(h, k)
               \/ GetByKey(h, k)
          \/ Clear(h)
          \/ Release(h)

Spec == Init /\ [][Next]_vars

(***************************************************************************)
(* Properties                                                              *)
(***************************************************************************)
Node == [left : Blocks \cup {NULL}, right : Blocks \cup {NULL}, size : Nat,
         hash : Nat, random : Randoms, key : Keys, value : Values]

TypeOK ==
  /\ DOMAIN disk \subseteq Blocks
  /\ \A b \in DOMAIN disk : disk[b] \in Node
  /\ DOMAIN header \subseteq Maps
  /\ \A m \in DOMAIN header : header[m] \in [root : Blocks \cup {NULL}, top : Nat]
  /\ handle \in [Handles -> [map : Maps \cup {NULL}, root : Blocks \cup {NULL}, top : Nat]]

NodesOf(m) == Below(disk)[header[m].root]
KeysIn(x) == {disk[b].key : b \in Below(disk)[x]}

\* The trees are search trees, so that Find misses no key, whatever order of
\* insertions, rotations and removals made them.
SearchOrder ==
  \A x \in DOMAIN disk :
    /\ \A k \in KeysIn(disk[x].left) : k < disk[x].key
    /\ \A k \in KeysIn(disk[x].right) : disk[x].key < k

\* The blocks in use are those of the trees, none of which is in two places:
\* no node is lost by a rotation or removal, and none is freed too early.
NodesOwned ==
  /\ DOMAIN disk = UNION {NodesOf(m) : m \in DOMAIN header}
  /\ \A x \in DOMAIN disk : Below(disk)[disk[x].left] \cap Below(disk)[disk[x].right] = {}
  /\ \A m, n \in DOMAIN header : m # n => NodesOf(m) \cap NodesOf(n) = {}

\* get_all_key writes every key once, in order, and into the array of the
\* caller, which has get_size entries.
KeysListed ==
  \A m \in DOMAIN header :
    LET a == GetAllKey(Load(m))
    IN /\ DOMAIN a = 0 .. Cardinality(NodesOf(m)) - 1
       /\ GetSize(Load(m)) = Cardinality(NodesOf(m))
       /\ {a[i] : i \in DOMAIN a} = KeysIn(header[m].root)
       /\ \A i, j \in DOMAIN a : i < j => a[i] < a[j]

\* HASH tells the nodes of one tree apart.
HashUnique ==
  \A m \in DOMAIN header : \A x, y \in NodesOf(m) :
    x # y => disk[x].hash # disk[y].hash

\* Each call does to the map what it says, and answers what the map holds.
Contents(m) ==
  LET nodes == NodesOf(m)
  IN [k \in {disk[b].key : b \in nodes} |->
        disk[CHOOSE b \in nodes : disk[b].key = k].value]

Store == INSTANCE MapStore WITH
  contents <- [m \in DOMAIN header |-> Contents(m)]

StoreSpec == Store!Spec

\* RANDOM keeps the tree balanced: no node has a larger RANDOM than its sons.
HeapOrder ==
  \A x \in DOMAIN disk : \A side \in {"left", "right"} :
    disk[x][side] # NULL => disk[x].random <= disk[disk[x][side]].random
=============================================================================
