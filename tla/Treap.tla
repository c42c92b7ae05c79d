------------------------------- MODULE Treap -------------------------------
(***************************************************************************)
(* The search tree of treap.h as operators on t = [node, root, top]: the   *)
(* node blocks in use by their location, the root, and hash_top.  A block  *)
(* is in DOMAIN t.node from create to release; reading it outside of that  *)
(* is an error of the model.                                               *)
(*                                                                         *)
(* The operators read and write the blocks in the order of the code.  What *)
(* matters is which copy of a node is used: a local variable keeps what    *)
(* was loaded while the block changes on disk.                             *)
(***************************************************************************)
EXTENDS Integers, Sequences

CONSTANT NULL         \* the null memory_location

EmptyTree == [node |-> <<>>, root |-> NULL, top |-> 0]

Other(side) == IF side = "left" THEN "right" ELSE "left"

\* node_class::save of a new or an existing block, and node_class::release.
Save(t, x, n) ==
  [t EXCEPT !.node = [b \in DOMAIN t.node \cup {x} |-> IF b = x THEN n ELSE t.node[b]]]

Discard(t, x) ==
  [t EXCEPT !.node = [b \in DOMAIN t.node \ {x} |-> t.node[b]]]

(***************************************************************************)
(* Faults: slips that would be easy to make in the code below.  No         *)
(* specification uses them; each is put in place of the definition its     *)
(* comment names to see that a property notices.                           *)
(***************************************************************************)
\* SizeOf, when load leaves the fields of a null node as they were.
SizeOfGarbage(t, x) == IF x = NULL THEN -1 ELSE t.node[x].size

\* Adapt, forgetting the node itself.
AdaptShort(t, x) ==
  LET size(y) == IF y = NULL THEN 0 ELSE t.node[y].size
  IN [t EXCEPT !.node[x].size = size(t.node[x].left) + size(t.node[x].right)]

\* Absorb, without releasing the child.
AbsorbAndKeep(t, x, child) == Save(t, x, t.node[child])

\* RemoveInner, taking over the key of the successor but not the value.
KeyOnly(t, x) ==
  LET y == t.node[x].right
  IN IF t.node[y].left = NULL
     THEN Discard([t EXCEPT !.node[x].key = t.node[y].key,
                            !.node[x].right = t.node[y].right,
                            !.node[x].size = @ - 1], y)
     ELSE t

\* Loading a null location gives size 0.
SizeOf(t, x) == IF x = NULL THEN 0 ELSE t.node[x].size

GetSize(t) == SizeOf(t, t.root)

Adapt(t, x) ==
  [t EXCEPT !.node[x].size = SizeOf(t, t.node[x].left) + SizeOf(t, t.node[x].right) + 1]

\* The pointer to x in its father leads to y from now on.
Redirect(t, fa, x, y) ==
  IF fa = NULL THEN t
  ELSE IF t.node[fa].left = x THEN [t EXCEPT !.node[fa].left = y]
                              ELSE [t EXCEPT !.node[fa].right = y]

\* Fault: Rotate, moving the outer grandchild instead of the inner one.
RotateOuter(t, fa, x, side) ==
  LET y == t.node[x][side]
      lifted == [t EXCEPT !.node[x][side] = t.node[y][side],
                          !.node[y][Other(side)] = x,
                          !.node[y].size = t.node[x].size]
      hung == Adapt(Redirect(lifted, fa, x, y), x)
  IN [hung EXCEPT !.root = IF @ = x THEN y ELSE @]

(***************************************************************************)
(* left_rot is Rotate(.., "right"), right_rot is Rotate(.., "left"): the   *)
(* child on that side is lifted over x.                                    *)
(***************************************************************************)
Rotate(t, fa, x, side) ==
  LET y == t.node[x][side]
      inner == t.node[y][Other(side)]
      lifted == [t EXCEPT !.node[x][side] = inner,
                          !.node[y][Other(side)] = x,
                          !.node[y].size = t.node[x].size]
      hung == Adapt(Redirect(lifted, fa, x, y), x)
  IN [hung EXCEPT !.root = IF @ = x THEN y ELSE @]

(***************************************************************************)
(* The walks of the code go down from a node, from z on to go[z], until    *)
(* they meet null: the least set of nodes that holds x and is closed under *)
(* go.                                                                     *)
(***************************************************************************)
Walk(go, x) ==
  {y \in DOMAIN go :
     \A S \in SUBSET DOMAIN go :
       (x \in S \cup {NULL} /\ \A z \in S : go[z] \in S \cup {NULL}) => y \in S}

Father(go, way, x) ==
  IF \E z \in way : go[z] = x THEN CHOOSE z \in way : go[z] = x ELSE NULL

\* node.size += i and save, for each node of a walk.
Resize(t, way, i) ==
  [t EXCEPT !.node = [x \in DOMAIN t.node |->
     IF x \in way THEN [t.node[x] EXCEPT !.size = @ + i] ELSE t.node[x]]]

(***************************************************************************)
(* insert(fa, x, data) for data = [key, value, random], where random is    *)
(* what rand() returns; new is the block that create() returns.            *)
(***************************************************************************)
Leaf(t, d) ==
  [left |-> NULL, right |-> NULL, size |-> 1, hash |-> t.top + 1,
   random |-> d.random, key |-> d.key, value |-> d.value]

InsertSide(t, d) ==
  [x \in DOMAIN t.node |->
     IF \/ d.key < t.node[x].key
        \/ d.key = t.node[x].key /\ t.node[x].hash > t.top + 1
     THEN "left" ELSE "right"]

InsertSon(t, d) == [x \in DOMAIN t.node |-> t.node[x][InsertSide(t, d)[x]]]

InsertWay(t, d) == Walk(InsertSon(t, d), t.root)

LastOf(go, way) == CHOOSE x \in way : go[x] = NULL

\* The calls go down, each making its node one larger, and the last one hangs
\* the leaf on its node.
Plant(t, d, new) ==
  LET way == InsertWay(t, d)
      last == LastOf(InsertSon(t, d), way)
  IN [Save(Resize(t, way, 1), new, Leaf(t, d))
        EXCEPT !.top = @ + 1, !.node[last][InsertSide(t, d)[last]] = new]

\* The tree when the call for node x returns.  x was loaded on the way down:
\* its son is the one of before, whatever was lifted over that meanwhile.
Climb(t, d, new) ==
  LET son == InsertSon(t, d)
      way == InsertWay(t, d)
      climb[x \in way] ==
        LET below == IF son[x] = NULL THEN Plant(t, d, new) ELSE climb[son[x]]
            child == IF son[x] = NULL THEN new ELSE son[x]
        IN IF t.node[x].random > below.node[child].random
           THEN Rotate(below, Father(son, way, x), x, InsertSide(t, d)[x])
           ELSE below
  IN climb

Insert(t, d, new) ==
  IF t.root = NULL
  THEN [Save(t, new, Leaf(t, d)) EXCEPT !.top = @ + 1, !.root = new]
  ELSE Climb(t, d, new)[t.root]

(***************************************************************************)
(* Find                                                                    *)
(***************************************************************************)
SearchSon(t, k) ==
  [x \in DOMAIN t.node |->
     IF t.node[x].key = k THEN NULL
     ELSE t.node[x][IF t.node[x].key < k THEN "right" ELSE "left"]]

SearchWay(t, k) == Walk(SearchSon(t, k), t.root)

Find(t, k) ==
  LET way == SearchWay(t, k)
  IN IF \E x \in way : t.node[x].key = k
     THEN CHOOSE x \in way : t.node[x].key = k ELSE NULL

(***************************************************************************)
(* remove(fa, x, data), at the node x that holds the key.                  *)
(***************************************************************************)
\* A node with one child takes over everything the child holds.
Absorb(t, x, child) == Discard(Save(t, x, t.node[child]), child)

RemoveLeaf(t, fa, x) ==
  Discard(Redirect([t EXCEPT !.root = IF @ = x THEN NULL ELSE @], fa, x, NULL), x)

\* A node with two children takes over the data of its successor ret, the
\* smallest node of the right subtree.
RemoveInner(t, x) ==
  LET son == [z \in DOMAIN t.node |-> t.node[z].left]
      way == Walk(son, t.node[x].right)
      ret == LastOf(son, way)
      smaller == Resize(t, {x} \cup (way \ {ret}), -1)
      unhung == IF ret = t.node[x].right
                THEN [smaller EXCEPT !.node[x].right = t.node[ret].right]
                ELSE [smaller EXCEPT !.node[Father(son, way, ret)].left = t.node[ret].right]
  IN Discard([unhung EXCEPT !.node[x].key = t.node[ret].key,
                            !.node[x].value = t.node[ret].value], ret)

\* The code passes the root as its own father.
RemoveAt(t, fa, x) ==
  LET n == t.node[x]
  IN CASE n.left # NULL /\ n.right = NULL -> Absorb(t, x, n.left)
       [] n.left = NULL /\ n.right # NULL -> Absorb(t, x, n.right)
       [] n.left = NULL /\ n.right = NULL -> RemoveLeaf(t, fa, x)
       [] OTHER -> RemoveInner(t, x)

\* The nodes above x become smaller when the calls return.
Remove(t, k) ==
  LET x == Find(t, k)
      way == SearchWay(t, k)
      fa == IF x = t.root THEN x ELSE Father(SearchSon(t, k), way, x)
  IN IF x = NULL THEN t ELSE Resize(RemoveAt(t, fa, x), way \ {x}, -1)

(***************************************************************************)
(* The nodes of each subtree, which is what release_node frees, the sons   *)
(* first; freeing null does nothing.                                       *)
(***************************************************************************)
Below(node) ==
  LET below[x \in DOMAIN node \cup {NULL}] ==
        IF x = NULL THEN {}
        ELSE below[node[x].left] \cup below[node[x].right] \cup {x}
  IN below

ReleaseNode(t, x) ==
  LET freed == Below(t.node)[x]
  IN [t EXCEPT !.node = [b \in DOMAIN t.node \ freed |-> t.node[b]]]

(***************************************************************************)
(* What db_map::get_key(x, a, num) writes into the array a, from index num *)
(* on.  The place of a node's key is found by the size of its left son.    *)
(***************************************************************************)
GetKey(t) ==
  LET keys[x \in DOMAIN t.node \cup {NULL}] ==
        IF x = NULL THEN <<>>
        ELSE LET lower == keys[t.node[x].left]
                 upper == keys[t.node[x].right]
                 at == SizeOf(t, t.node[x].left)
             IN [i \in DOMAIN lower \cup {at} \cup {at + 1 + j : j \in DOMAIN upper} |->
                   CASE i - at - 1 \in DOMAIN upper -> upper[i - at - 1]
                     [] i = at -> t.node[x].key
                     [] OTHER -> lower[i]]
  IN keys

GetAllKey(t) == GetKey(t)[t.root]
=============================================================================
