---------------------------- MODULE DbMapProofs ----------------------------
(***************************************************************************)
(* Proofs about DbMap, for any maps, blocks, variables, keys and values    *)
(* and any number of insertions.                                           *)
(*                                                                         *)
(* The invariant says which blocks belong to which map (own), that these   *)
(* blocks form a search tree under the root in the header, and that every  *)
(* block in use belongs to exactly one map.  A call exchanges the tree of  *)
(* one map (Regrown, from what TreapProofs shows of insert and remove) and *)
(* leaves the blocks of the others alone, so their trees stand.  What the  *)
(* new tree holds follows from the nodes that came, went or changed.       *)
(***************************************************************************)
EXTENDS TreapProofs

-----------------------------------------------------------------------------
(***************************************************************************)
(* The database: every block belongs to the tree of one map.               *)
(***************************************************************************)
TreeOf(node, top) == [node |-> node, root |-> top.root, top |-> top.top]

Heads == [root : Blocks \cup {NULL}, top : Nat]

Stored(node, head) ==
  /\ node \in Stores /\ IsFiniteSet(DOMAIN node)
  /\ DOMAIN head \subseteq Maps /\ head \in [DOMAIN head -> Heads]

\* own[m] are the blocks of map m.
Grove(node, head, own) ==
  /\ own \in [DOMAIN head -> SUBSET DOMAIN node]
  /\ \A m \in DOMAIN head : \E sub, up : Tree(TreeOf(node, head[m]), own[m], sub, up)
  /\ \A m, n \in DOMAIN head : m # n => own[m] \cap own[n] = {}
  /\ \A x \in DOMAIN node : \E m \in DOMAIN head : x \in own[m]

\* The tree a header leads to has the type of trees.
LEMMA TreeOfType ==
  ASSUME NEW node \in Stores, NEW top \in Heads
  PROVE  /\ TreeOf(node, top) \in TreeType /\ TreeOf(node, top).node = node
         /\ TreeOf(node, top).root = top.root /\ TreeOf(node, top).top = top.top
  BY DEF TreeOf, TreeType, Heads

\* What is known about the tree of one map.
LEMMA GroveHas ==
  ASSUME NEW node, NEW head, NEW own, Stored(node, head), Grove(node, head, own),
         NEW m \in DOMAIN head
  PROVE  /\ TreeOf(node, head[m]) \in TreeType /\ TreeOf(node, head[m]).node = node
         /\ TreeOf(node, head[m]).root = head[m].root /\ TreeOf(node, head[m]).top = head[m].top
         /\ head[m].root \in own[m] \cup {NULL} /\ head[m].root \in Blocks \cup {NULL}
         /\ head[m].top \in Nat
         /\ own[m] \subseteq DOMAIN node /\ DOMAIN node \subseteq Blocks
         /\ IsFiniteSet(own[m]) /\ NULL \notin own[m]
         /\ \E sub, up : Tree(TreeOf(node, head[m]), own[m], sub, up)
<1> DEFINE t == TreeOf(node, head[m])
<1>1. node \in Stores /\ head[m] \in Heads
  BY DEF Stored
<1>2. /\ t \in TreeType /\ t.node = node /\ t.root = head[m].root /\ t.top = head[m].top
  BY <1>1, TreeOfType
<1>3. \E sub, up : Tree(t, own[m], sub, up)
  BY DEF Grove
<1> HIDE DEF t
<1>4. PICK sub, up : Tree(t, own[m], sub, up)
  BY <1>3
<1>5. t.root \in own[m] \cup {NULL} /\ own[m] \subseteq DOMAIN t.node /\ IsFiniteSet(own[m])
      /\ NULL \notin own[m]
  BY <1>4, TreeHas
<1>6. DOMAIN t.node \subseteq Blocks /\ t.root \in Blocks \cup {NULL} /\ t.top \in Nat
  BY <1>2, StoreType
<1> QED
  BY <1>2, <1>3, <1>5, <1>6 DEF t

\* The sizes on disk lead the walks of release_node and get_key to an end.
LEMMA GroveIsGraded ==
  ASSUME NEW node, NEW head, NEW own, Stored(node, head), Grove(node, head, own)
  PROVE  Graded(node, Cardinality(DOMAIN node))
<1> DEFINE D == DOMAIN node
<1>1. node \in Stores /\ IsFiniteSet(D) /\ Cardinality(D) \in Nat
  BY FS_CardinalityType DEF Stored
<1>2. ASSUME NEW x \in D
      PROVE  /\ node[x].size \in Nat /\ node[x].size <= Cardinality(D)
             /\ node[x].left # NULL =>
                  node[x].left \in D /\ node[node[x].left].size < node[x].size
             /\ node[x].right # NULL =>
                  node[x].right \in D /\ node[node[x].right].size < node[x].size
  <2>1. PICK m \in DOMAIN head : x \in own[m]
    BY DEF Grove
  <2> DEFINE t == TreeOf(node, head[m])
  <2>2. t.node = node /\ own[m] \subseteq D /\ \E sub, up : Tree(t, own[m], sub, up)
    BY GroveHas
  <2> HIDE DEF t
  <2>3. PICK sub, up : Tree(t, own[m], sub, up)
    BY <2>2
  <2>4. /\ t.node[x].size \in Nat /\ sub[x] \subseteq own[m]
        /\ IsFiniteSet(sub[x]) /\ Cardinality(sub[x]) \in Nat
    BY <2>1, <2>3, NodeType
  <2>5. t.node[x].size = Cardinality(sub[x])
    BY <2>1, <2>3 DEF Tree, Sized
  <2>6. Cardinality(sub[x]) <= Cardinality(D)
    <3>1. sub[x] \subseteq D
      BY <2>2, <2>4
    <3> QED
      BY <1>1, <3>1, FS_Subset
  <2>7. t.node[x].left \in own[m] \cup {NULL} /\ t.node[x].right \in own[m] \cup {NULL}
    BY <2>1, <2>3 DEF Tree, Branching
  <2>8. ASSUME NEW c \in own[m], t.node[x].left = c \/ t.node[x].right = c
        PROVE  t.node[c].size < t.node[x].size
    BY <2>1, <2>3, <2>8, BelowSon
  <2> QED
    BY <2>2, <2>4, <2>5, <2>6, <2>7, <2>8
<1> QED
  BY <1>1, <1>2 DEF Graded

\* What the walks from the root of a map reach is what belongs to the map.
LEMMA NodesAreOwned ==
  ASSUME NEW node, NEW head, NEW own, Stored(node, head), Grove(node, head, own),
         NEW m \in DOMAIN head
  PROVE  Below(node)[head[m].root] = own[m]
<1> DEFINE t == TreeOf(node, head[m])
<1>1. t.node = node /\ t.root = head[m].root /\ \E sub, up : Tree(t, own[m], sub, up)
  BY GroveHas
<1>2. Graded(node, Cardinality(DOMAIN node))
  BY GroveIsGraded
<1> HIDE DEF t
<1>3. PICK sub, up : Tree(t, own[m], sub, up)
  BY <1>1
<1>4. t.root \in own[m] \cup {NULL} /\ sub[t.root] = own[m]
  <2> DEFINE N == own[m]
  <2>1. Tree(t, N, sub, up)
    BY <1>3
  <2> HIDE DEF N
  <2>2. t.root \in N \cup {NULL} /\ sub[t.root] = N
    BY <2>1, TreeHas
  <2> QED
    BY <2>2 DEF N
<1>5. Below(t.node)[t.root] = sub[t.root]
  BY <1>1, <1>2, <1>3, <1>4, BelowIs
<1> QED
  BY <1>1, <1>4, <1>5

\* What is done to the blocks of one map leaves the trees of the others alone.
LEMMA TreeOfOther ==
  ASSUME NEW node, NEW head, NEW own, Stored(node, head), Grove(node, head, own),
         NEW n \in DOMAIN head, NEW node2 \in Stores, own[n] \subseteq DOMAIN node2,
         \A z \in own[n] : node2[z] = node[z]
  PROVE  \E sub, up : Tree(TreeOf(node2, head[n]), own[n], sub, up)
<1> DEFINE t == TreeOf(node, head[n])
           r == TreeOf(node2, head[n])
<1>1. /\ t.node = node /\ t.root = head[n].root /\ t.top = head[n].top /\ head[n].top \in Nat
      /\ \E sub, up : Tree(t, own[n], sub, up)
  BY GroveHas
<1>2. head[n] \in Heads
  BY DEF Stored
<1>3. /\ r \in TreeType /\ r.node = node2 /\ r.root = head[n].root /\ r.top = head[n].top
  BY <1>2, TreeOfType
<1> HIDE DEF t, r
<1>4. PICK sub, up : Tree(t, own[n], sub, up)
  BY <1>1
<1>5. Tree(r, own[n], sub, up)
  <2>1. r.root = t.root /\ r.top >= t.top /\ own[n] \subseteq DOMAIN r.node
    BY <1>1, <1>3
  <2>2. \A x \in own[n] : r.node[x] = t.node[x]
    BY <1>1, <1>3
  <2>3. \A x \in own[n] :
          /\ r.node[x].left = t.node[x].left /\ r.node[x].right = t.node[x].right
          /\ r.node[x].size = t.node[x].size /\ r.node[x].key = t.node[x].key
          /\ r.node[x].hash = t.node[x].hash
    BY <2>2
  <2> QED
    BY <1>3, <1>4, <2>1, <2>3, TreeKept
<1> QED
  BY <1>5 DEF r

\* The new trees and header of one map, after a call on it.
Regrown(node, head, own, m, t, M) ==
  /\ \E sub, up : Tree(t, M, sub, up)
  /\ DOMAIN t.node = (DOMAIN node \ own[m]) \cup M
  /\ M \cap (DOMAIN node \ own[m]) = {}
  /\ \A z \in DOMAIN node \ own[m] : t.node[z] = node[z]

\* The other trees stand when one of them is exchanged.
LEMMA RegrownIsGrove ==
  ASSUME NEW node, NEW head, NEW own, Stored(node, head), Grove(node, head, own),
         NEW m \in DOMAIN head, NEW t, NEW M, Regrown(node, head, own, m, t, M),
         NEW head2, head2 = [head EXCEPT ![m] = [root |-> t.root, top |-> t.top]],
         NEW own2, own2 = [own EXCEPT ![m] = M]
  PROVE  Stored(t.node, head2) /\ Grove(t.node, head2, own2)
<1> DEFINE new == [root |-> t.root, top |-> t.top]
<1>1. PICK sub, up : Tree(t, M, sub, up)
  BY DEF Regrown
<1>2. /\ DOMAIN t.node = (DOMAIN node \ own[m]) \cup M
      /\ M \cap (DOMAIN node \ own[m]) = {}
      /\ \A z \in DOMAIN node \ own[m] : t.node[z] = node[z]
  BY DEF Regrown
<1>3. t \in TreeType /\ IsFiniteSet(M)
  BY <1>1, TreeHas
<1>4. t.node \in Stores /\ new \in Heads /\ new.root = t.root /\ new.top = t.top
  BY <1>3 DEF TreeType, Heads
<1>5. TreeOf(t.node, new) = t
  BY <1>3, <1>4 DEF TreeOf, TreeType
<1>6. /\ head \in [DOMAIN head -> Heads] /\ DOMAIN head \subseteq Maps /\ IsFiniteSet(DOMAIN node)
      /\ own \in [DOMAIN head -> SUBSET DOMAIN node]
      /\ \A i, j \in DOMAIN head : i # j => own[i] \cap own[j] = {}
      /\ \A x \in DOMAIN node : \E i \in DOMAIN head : x \in own[i]
  BY DEF Stored, Grove
<1> HIDE DEF new
<1>7. /\ DOMAIN head2 = DOMAIN head /\ DOMAIN own2 = DOMAIN head
      /\ head2[m] = new /\ own2[m] = M
      /\ \A n \in DOMAIN head \ {m} : head2[n] = head[n] /\ own2[n] = own[n]
      /\ head2 = [n \in DOMAIN head |-> head2[n]] /\ own2 = [n \in DOMAIN head |-> own2[n]]
  BY <1>6 DEF new
<1>8. head2 \in [DOMAIN head -> Heads]
  BY <1>4, <1>6, <1>7
<1>9. IsFiniteSet(DOMAIN t.node)
  <2>1. IsFiniteSet(DOMAIN node \ own[m])
    BY <1>6, FS_Difference
  <2> QED
    BY <1>2, <1>3, <2>1, FS_Union
<1>10. \A n \in DOMAIN head \ {m} : own2[n] \subseteq DOMAIN node \ own[m]
  BY <1>6, <1>7
<1>11. own2 \in [DOMAIN head -> SUBSET DOMAIN t.node]
  BY <1>2, <1>7, <1>10
<1>12. ASSUME NEW n \in DOMAIN head
       PROVE  \E sub2, up2 : Tree(TreeOf(t.node, head2[n]), own2[n], sub2, up2)
  <2>1. CASE n = m
    BY <1>1, <1>5, <1>7, <2>1
  <2>2. CASE n # m
    <3>1. own[n] \subseteq DOMAIN t.node /\ \A z \in own[n] : t.node[z] = node[z]
      BY <1>2, <1>7, <1>10, <2>2
    <3>2. \E sub2, up2 : Tree(TreeOf(t.node, head[n]), own[n], sub2, up2)
      BY <1>4, <3>1, TreeOfOther
    <3> QED
      BY <1>7, <2>2, <3>2
  <2> QED
    BY <2>1, <2>2
<1>13. \A i, j \in DOMAIN head : i # j => own2[i] \cap own2[j] = {}
  BY <1>2, <1>6, <1>7, <1>10
<1>14. \A x \in DOMAIN t.node : \E i \in DOMAIN head : x \in own2[i]
  <2> TAKE x \in DOMAIN t.node
  <2>1. CASE x \in M
    BY <1>7, <2>1
  <2>2. CASE x \in DOMAIN node \ own[m]
    BY <1>6, <1>7, <2>2
  <2> QED
    BY <1>2, <2>1, <2>2
<1> QED
  BY <1>4, <1>6, <1>7, <1>8, <1>9, <1>11, <1>12, <1>13, <1>14 DEF Stored, Grove

\* A tree without nodes.
LEMMA EmptyIsTree ==
  ASSUME NEW t \in TreeType, t.root = NULL
  PROVE  \E sub, up : Tree(t, {}, sub, up)
<1> DEFINE sub == [z \in {NULL} |-> {}]
           up == [z \in {} |-> NULL]
<1>1. Rooted(t, {}, sub, up)
  <2>1. sub \in [{} \cup {NULL} -> SUBSET {}] /\ up \in [{} -> {} \cup {NULL}]
    OBVIOUS
  <2>2. sub[NULL] = {} /\ IsFiniteSet({})
    BY FS_EmptySet
  <2> HIDE DEF sub, up
  <2> QED
    BY <2>1, <2>2 DEF Rooted
<1>2. Branching(t, {}, sub) /\ Fathered(t, {}, up) /\ Sized(t, {}, sub) /\ Ordered(t, {}, sub)
      /\ Hashed(t, {})
  BY DEF Branching, Fathered, Sized, Ordered, Hashed
<1> HIDE DEF sub, up
<1>3. Tree(t, {}, sub, up)
  BY <1>1, <1>2 DEF Tree
<1> QED
  BY <1>3

\* A new map has an empty tree.
LEMMA MapAdded ==
  ASSUME NEW node, NEW head, NEW own, Stored(node, head), Grove(node, head, own),
         NEW m \in Maps, m \notin DOMAIN head,
         NEW head2, head2 = [n \in DOMAIN head \cup {m} |->
                               IF n = m THEN [root |-> NULL, top |-> 0] ELSE head[n]],
         NEW own2, own2 = [n \in DOMAIN head \cup {m} |-> IF n = m THEN {} ELSE own[n]]
  PROVE  Stored(node, head2) /\ Grove(node, head2, own2)
<1> DEFINE new == [root |-> NULL, top |-> 0]
           t == TreeOf(node, new)
<1>1. /\ node \in Stores /\ IsFiniteSet(DOMAIN node)
      /\ head \in [DOMAIN head -> Heads] /\ DOMAIN head \subseteq Maps
      /\ own \in [DOMAIN head -> SUBSET DOMAIN node]
      /\ \A i, j \in DOMAIN head : i # j => own[i] \cap own[j] = {}
      /\ \A x \in DOMAIN node : \E i \in DOMAIN head : x \in own[i]
      /\ \A n \in DOMAIN head : \E sub, up : Tree(TreeOf(node, head[n]), own[n], sub, up)
  BY DEF Stored, Grove
<1>2. new \in Heads
  BY DEF Heads
<1>3. t \in TreeType /\ t.root = NULL
  BY <1>1, <1>2, TreeOfType
<1>4. \E sub, up : Tree(t, {}, sub, up)
  <2> HIDE DEF t
  <2> QED
    BY <1>3, EmptyIsTree
<1>5. /\ DOMAIN head2 = DOMAIN head \cup {m} /\ head2[m] = new
      /\ \A n \in DOMAIN head : head2[n] = head[n]
      /\ head2 \in [DOMAIN head2 -> Heads]
  BY <1>1, <1>2
<1>6. /\ DOMAIN own2 = DOMAIN head \cup {m} /\ own2[m] = {}
      /\ \A n \in DOMAIN head : own2[n] = own[n]
      /\ own2 \in [DOMAIN head2 -> SUBSET DOMAIN node]
  BY <1>1, <1>5
<1>7. \A n \in DOMAIN head2 : \E sub, up : Tree(TreeOf(node, head2[n]), own2[n], sub, up)
  BY <1>1, <1>4, <1>5, <1>6
<1>8. \A i, j \in DOMAIN head2 : i # j => own2[i] \cap own2[j] = {}
  BY <1>1, <1>5, <1>6
<1>9. \A x \in DOMAIN node : \E i \in DOMAIN head2 : x \in own2[i]
  BY <1>1, <1>5, <1>6
<1>10. DOMAIN head2 \subseteq Maps
  BY <1>1, <1>5
<1> QED
  BY <1>1, <1>5, <1>6, <1>7, <1>8, <1>9, <1>10 DEF Stored, Grove

\* When the blocks of a map are freed with its header, the others stand.
LEMMA MapRemoved ==
  ASSUME NEW node, NEW head, NEW own, Stored(node, head), Grove(node, head, own),
         NEW m \in DOMAIN head, NEW node2 \in Stores, DOMAIN node2 = DOMAIN node \ own[m],
         \A z \in DOMAIN node \ own[m] : node2[z] = node[z],
         NEW head2, head2 = [n \in DOMAIN head \ {m} |-> head[n]],
         NEW own2, own2 = [n \in DOMAIN head \ {m} |-> own[n]]
  PROVE  Stored(node2, head2) /\ Grove(node2, head2, own2)
<1>1. /\ head \in [DOMAIN head -> Heads] /\ DOMAIN head \subseteq Maps /\ IsFiniteSet(DOMAIN node)
      /\ own \in [DOMAIN head -> SUBSET DOMAIN node]
      /\ \A i, j \in DOMAIN head : i # j => own[i] \cap own[j] = {}
      /\ \A x \in DOMAIN node : \E i \in DOMAIN head : x \in own[i]
  BY DEF Stored, Grove
<1>2. /\ DOMAIN head2 = DOMAIN head \ {m} /\ head2 \in [DOMAIN head2 -> Heads]
      /\ \A n \in DOMAIN head2 : head2[n] = head[n] /\ own2[n] = own[n]
      /\ own2 = [n \in DOMAIN head2 |-> own2[n]]
  BY <1>1
<1>3. \A n \in DOMAIN head2 : own2[n] \subseteq DOMAIN node2
  BY <1>1, <1>2
<1>4. own2 \in [DOMAIN head2 -> SUBSET DOMAIN node2]
  BY <1>2, <1>3
<1>5. ASSUME NEW n \in DOMAIN head2
      PROVE  \E sub, up : Tree(TreeOf(node2, head2[n]), own2[n], sub, up)
  <2>1. n \in DOMAIN head /\ own[n] \subseteq DOMAIN node2 /\ \A z \in own[n] : node2[z] = node[z]
    BY <1>1, <1>2, <1>3
  <2>2. \E sub, up : Tree(TreeOf(node2, head[n]), own[n], sub, up)
    BY <2>1, TreeOfOther
  <2> QED
    BY <1>2, <2>2
<1>6. \A i, j \in DOMAIN head2 : i # j => own2[i] \cap own2[j] = {}
  BY <1>1, <1>2
<1>7. \A x \in DOMAIN node2 : \E i \in DOMAIN head2 : x \in own2[i]
  BY <1>1, <1>2
<1>8. IsFiniteSet(DOMAIN node2)
  <2>1. IsFiniteSet(DOMAIN node \ own[m])
    BY <1>1, FS_Difference
  <2> QED
    BY <2>1
<1> QED
  BY <1>1, <1>2, <1>4, <1>5, <1>6, <1>7, <1>8 DEF Stored, Grove

-----------------------------------------------------------------------------
(***************************************************************************)
(* What the maps hold.                                                     *)
(***************************************************************************)
\* f is the function from the keys of the nodes N to their values.
Holds(node, N, f) ==
  /\ DOMAIN f = {node[b].key : b \in N} /\ f = [k \in DOMAIN f |-> f[k]]
  /\ \A b \in N : f[node[b].key] = node[b].value

PairsOf(node, N) ==
  [k \in {node[b].key : b \in N} |-> node[CHOOSE b \in N : node[b].key = k].value]

Answers(node, head) ==
  [m \in DOMAIN head |-> PairsOf(node, Below(node)[head[m].root])]

\* There is one such function.
LEMMA HoldsOne ==
  ASSUME NEW node, NEW N, NEW f, NEW g, Holds(node, N, f), Holds(node, N, g)
  PROVE  f = g
<1>1. DOMAIN f = DOMAIN g /\ \A k \in DOMAIN f : f[k] = g[k]
  BY DEF Holds
<1>2. f = [k \in DOMAIN f |-> f[k]] /\ g = [k \in DOMAIN g |-> g[k]]
  BY DEF Holds
<1> QED
  BY <1>1, <1>2

\* What Contents reads from the nodes is that function.
LEMMA PairsHold ==
  ASSUME NEW node, NEW N, \A x, y \in N : node[x].key = node[y].key => x = y
  PROVE  Holds(node, N, PairsOf(node, N))
<1> DEFINE f == PairsOf(node, N)
<1>1. DOMAIN f = {node[b].key : b \in N} /\ f = [k \in DOMAIN f |-> f[k]]
  BY DEF PairsOf
<1>2. ASSUME NEW b \in N PROVE f[node[b].key] = node[b].value
  <2> DEFINE c == CHOOSE x \in N : node[x].key = node[b].key
  <2>1. c \in N /\ node[c].key = node[b].key
    OBVIOUS
  <2>2. f[node[b].key] = node[c].value
    BY DEF PairsOf
  <2> HIDE DEF c, f
  <2> QED
    BY <2>1, <2>2
<1> HIDE DEF f
<1> QED
  BY <1>1, <1>2 DEF Holds, f

\* The same nodes give the same function.
LEMMA HoldsStill ==
  ASSUME NEW node, NEW node2, NEW N, NEW f, Holds(node, N, f),
         \A z \in N : node2[z].key = node[z].key /\ node2[z].value = node[z].value
  PROVE  Holds(node2, N, f)
<1>1. {node2[b].key : b \in N} = {node[b].key : b \in N}
  OBVIOUS
<1> QED
  BY <1>1 DEF Holds

\* Contents is the function of the blocks that belong to the map.
LEMMA AnswersAre ==
  ASSUME NEW node, NEW head, NEW own, Stored(node, head), Grove(node, head, own),
         NEW m \in DOMAIN head
  PROVE  Holds(node, own[m], Answers(node, head)[m])
<1> DEFINE t == TreeOf(node, head[m])
           N == own[m]
<1>1. t.node = node /\ \E sub, up : Tree(t, N, sub, up)
  BY GroveHas
<1>2. Below(node)[head[m].root] = N
  BY NodesAreOwned
<1> HIDE DEF t, N
<1>3. PICK sub, up : Tree(t, N, sub, up)
  BY <1>1
<1>4. \A x, y \in N : t.node[x].key = t.node[y].key => x = y
  BY <1>3, KeysDiffer
<1>5. Holds(node, N, PairsOf(node, N))
  BY <1>1, <1>4, PairsHold
<1>6. Answers(node, head)[m] = PairsOf(node, N)
  BY <1>2 DEF Answers
<1> QED
  BY <1>5, <1>6 DEF N

Replace(g, m, f) == [g EXCEPT ![m] = f]

TopOf(t) == [root |-> t.root, top |-> t.top]

\* A call that exchanges one tree changes the contents of one map.
LEMMA AnswersChange ==
  ASSUME NEW node, NEW head, NEW own, Stored(node, head), Grove(node, head, own),
         NEW m \in DOMAIN head, NEW t, NEW M, Regrown(node, head, own, m, t, M),
         NEW head2, head2 = Replace(head, m, TopOf(t)), NEW f, Holds(t.node, M, f)
  PROVE  Answers(t.node, head2) = Replace(Answers(node, head), m, f)
<1> DEFINE own2 == [own EXCEPT ![m] = M]
           node2 == t.node
           a == Answers(node, head)
           b == Answers(node2, head2)
<1>1. Stored(node2, head2) /\ Grove(node2, head2, own2)
  BY RegrownIsGrove DEF Replace, TopOf
<1>2. DOMAIN head2 = DOMAIN head /\ DOMAIN own = DOMAIN head
  <2>1. head \in [DOMAIN head -> Heads] /\ own \in [DOMAIN head -> SUBSET DOMAIN node]
    BY DEF Stored, Grove
  <2> QED
    BY <2>1 DEF Replace
<1>3. own2[m] = M /\ \A n \in DOMAIN head \ {m} : own2[n] = own[n]
  BY <1>2
<1> HIDE DEF own2, node2
<1>4. \A n \in DOMAIN head : Holds(node2, own2[n], b[n])
  BY <1>1, <1>2, AnswersAre
<1>5. \A n \in DOMAIN head : Holds(node, own[n], a[n])
  BY AnswersAre
<1>6. b[m] = f
  BY <1>3, <1>4, HoldsOne DEF node2
<1>7. ASSUME NEW n \in DOMAIN head \ {m} PROVE b[n] = a[n]
  <2>1. own[n] \subseteq DOMAIN node \ own[m]
    BY DEF Grove
  <2>2. \A z \in own[n] : node2[z].key = node[z].key /\ node2[z].value = node[z].value
    BY <2>1 DEF Regrown, node2
  <2>3. Holds(node2, own[n], a[n])
    BY <1>5, <2>2, HoldsStill
  <2>4. Holds(node2, own[n], b[n])
    BY <1>3, <1>4
  <2> QED
    BY <2>3, <2>4, HoldsOne
<1>8. a = [n \in DOMAIN head |-> a[n]] /\ b = [n \in DOMAIN head |-> b[n]]
  BY <1>2 DEF Answers
<1> HIDE DEF a, b
<1>9. b = [a EXCEPT ![m] = f]
  BY <1>6, <1>7, <1>8
<1> QED
  BY <1>9 DEF a, b, node2, Replace

With(f, k, v) == Store!With(f, k, v)

Without(f, k) == [j \in DOMAIN f \ {k} |-> f[j]]

\* The key is there exactly if Find leads to a node.
LEMMA FoundIs ==
  ASSUME NEW node, NEW head, NEW own, Stored(node, head), Grove(node, head, own),
         NEW m \in DOMAIN head, NEW f, Holds(node, own[m], f), NEW k
  PROVE  LET x == Find(TreeOf(node, head[m]), k)
         IN /\ x = NULL => k \notin DOMAIN f
            /\ x # NULL => x \in own[m] /\ node[x].key = k /\ k \in DOMAIN f /\ f[k] = node[x].value
<1> DEFINE t == TreeOf(node, head[m])
           N == own[m]
           x == Find(t, k)
<1>1. t.node = node /\ NULL \notin N /\ \E sub, up : Tree(t, N, sub, up)
  BY GroveHas
<1>2. DOMAIN f = {node[b].key : b \in N} /\ \A b \in N : f[node[b].key] = node[b].value
  BY DEF Holds
<1> HIDE DEF t, N
<1>3. PICK sub, up : Tree(t, N, sub, up)
  BY <1>1
<1>4. /\ x \in N \cup {NULL} /\ (x # NULL => t.node[x].key = k)
      /\ \A y \in N : t.node[y].key = k => x = y
  BY <1>3, FindIs
<1> HIDE DEF x
<1>5. x = NULL => k \notin DOMAIN f
  BY <1>1, <1>2, <1>4
<1>6. x # NULL => x \in N /\ node[x].key = k /\ k \in DOMAIN f /\ f[k] = node[x].value
  BY <1>1, <1>2, <1>4
<1> QED
  BY <1>5, <1>6 DEF x, t, N

\* add, of a key that is not there: one pair more.
LEMMA AddIs ==
  ASSUME NEW node, NEW head, NEW own, Stored(node, head), Grove(node, head, own),
         NEW m \in DOMAIN head, NEW f, Holds(node, own[m], f),
         NEW d \in Data, NEW b \in Blocks, b \notin DOMAIN node,
         Find(TreeOf(node, head[m]), d.key) = NULL
  PROVE  LET r == Insert(TreeOf(node, head[m]), d, b)
         IN /\ Regrown(node, head, own, m, r, own[m] \cup {b})
            /\ Holds(r.node, own[m] \cup {b}, With(f, d.key, d.value))
<1> DEFINE t == TreeOf(node, head[m])
           N == own[m]
           r == Insert(t, d, b)
           k == d.key
           g == With(f, k, d.value)
<1>1. /\ t.node = node /\ NULL \notin N /\ N \subseteq DOMAIN node
      /\ \E sub, up : Tree(t, N, sub, up)
  BY GroveHas
<1>2. /\ DOMAIN f = {node[z].key : z \in N} /\ (\A z \in N : f[node[z].key] = node[z].value)
      /\ k \notin DOMAIN f
  <2>1. k \notin DOMAIN f
    BY FoundIs
  <2> QED
    BY <2>1 DEF Holds
<1> HIDE DEF t, N
<1>3. PICK sub, up : Tree(t, N, sub, up)
  BY <1>1
<1>4. \A z \in N : t.node[z].key # d.key
  BY <1>1, <1>2
<1>5. b \notin DOMAIN t.node
  BY <1>1
<1>6. Grown(t, r, N, d, b) /\ \E sub2, up2 : Tree(r, N \cup {b}, sub2, up2)
  BY <1>3, <1>4, <1>5, InsertIs
<1> HIDE DEF r
<1>7. /\ DOMAIN r.node = DOMAIN node \cup {b} /\ r.node[b].key = k /\ r.node[b].value = d.value
      /\ \A z \in N : r.node[z].key = node[z].key /\ r.node[z].value = node[z].value
      /\ \A z \in DOMAIN node \ N : r.node[z] = node[z]
  BY <1>1, <1>6 DEF Grown
<1>8. Regrown(node, head, own, m, r, N \cup {b})
  <2>1. DOMAIN r.node = (DOMAIN node \ N) \cup (N \cup {b}) /\ (N \cup {b}) \cap (DOMAIN node \ N) = {}
    BY <1>1, <1>7
  <2> QED
    BY <1>6, <1>7, <2>1 DEF Regrown, N
<1>9. g = [j \in DOMAIN f \cup {k} |-> IF j \in DOMAIN f THEN f[j] ELSE d.value]
  BY DEF With, Store!With
<1> HIDE DEF g
<1>10. Holds(r.node, N \cup {b}, g)
  <2>1. DOMAIN g = {r.node[z].key : z \in N \cup {b}}
    <3>1. {r.node[z].key : z \in N \cup {b}} = {node[z].key : z \in N} \cup {k}
      BY <1>7
    <3> QED
      BY <1>2, <1>9, <3>1
  <2>2. g = [j \in DOMAIN g |-> g[j]]
    BY <1>9
  <2>3. \A z \in N \cup {b} : g[r.node[z].key] = r.node[z].value
    <3> TAKE z \in N \cup {b}
    <3>1. CASE z = b
      BY <1>2, <1>7, <1>9, <3>1
    <3>2. CASE z \in N
      BY <1>2, <1>7, <1>9, <3>2
    <3> QED
      BY <3>1, <3>2
  <2> QED
    BY <2>1, <2>2, <2>3 DEF Holds
<1> QED
  BY <1>8, <1>10 DEF r, t, N, g

\* remove, of a key that is there: one pair less.
LEMMA DropIs ==
  ASSUME NEW node, NEW head, NEW own, Stored(node, head), Grove(node, head, own),
         NEW m \in DOMAIN head, NEW f, Holds(node, own[m], f), NEW k,
         Find(TreeOf(node, head[m]), k) # NULL
  PROVE  LET r == Remove(TreeOf(node, head[m]), k)
         IN \E M : Regrown(node, head, own, m, r, M) /\ Holds(r.node, M, Without(f, k))
<1> DEFINE t == TreeOf(node, head[m])
           N == own[m]
           r == Remove(t, k)
           g == Without(f, k)
<1>1. /\ t.node = node /\ NULL \notin N /\ N \subseteq DOMAIN node
      /\ \E sub, up : Tree(t, N, sub, up)
  BY GroveHas
<1>2. /\ DOMAIN f = {node[z].key : z \in N} /\ (\A z \in N : f[node[z].key] = node[z].value)
  BY DEF Holds
<1> HIDE DEF t, N
<1>3. PICK sub, up : Tree(t, N, sub, up)
  BY <1>1
<1>4. Find(t, k) # NULL
  BY DEF t
<1>5. PICK M : Shrunk(t, r, N, M, k) /\ \E sub2, up2 : Tree(r, M, sub2, up2)
  BY <1>3, <1>4, RemoveIs
<1> HIDE DEF r
<1>6. /\ M \subseteq N /\ DOMAIN r.node = (DOMAIN node \ N) \cup M
      /\ \A z \in DOMAIN node \ N : r.node[z] = node[z]
      /\ \A z \in M : \E w \in N : /\ node[w].key # k /\ r.node[z].key = node[w].key
                                   /\ r.node[z].value = node[w].value
      /\ \A w \in N : node[w].key # k =>
           \E z \in M : r.node[z].key = node[w].key /\ r.node[z].value = node[w].value
  BY <1>1, <1>5 DEF Shrunk
<1>7. Regrown(node, head, own, m, r, M)
  <2>1. M \cap (DOMAIN node \ N) = {}
    BY <1>6
  <2> QED
    BY <1>5, <1>6, <2>1 DEF Regrown, N
<1>8. DOMAIN g = DOMAIN f \ {k} /\ g = [j \in DOMAIN g |-> g[j]] /\ \A j \in DOMAIN g : g[j] = f[j]
  BY DEF Without
<1> HIDE DEF g
<1>9. DOMAIN g = {r.node[z].key : z \in M}
  <2>1. ASSUME NEW j \in DOMAIN g PROVE j \in {r.node[z].key : z \in M}
    BY <1>2, <1>6, <1>8, <2>1
  <2>2. ASSUME NEW z \in M PROVE r.node[z].key \in DOMAIN g
    BY <1>2, <1>6, <1>8, <2>2
  <2> QED
    BY <2>1, <2>2
<1>10. ASSUME NEW z \in M PROVE g[r.node[z].key] = r.node[z].value
  <2>1. PICK w \in N : /\ node[w].key # k /\ r.node[z].key = node[w].key
                       /\ r.node[z].value = node[w].value
    BY <1>6
  <2> QED
    BY <1>2, <1>8, <2>1
<1>11. Holds(r.node, M, g)
  BY <1>8, <1>9, <1>10 DEF Holds
<1> QED
  BY <1>7, <1>11 DEF r, t, g

\* update, of a key that is there: another value.
LEMMA UpdateIs ==
  ASSUME NEW node, NEW head, NEW own, Stored(node, head), Grove(node, head, own),
         NEW m \in DOMAIN head, NEW f, Holds(node, own[m], f), NEW k, NEW v \in Values,
         Find(TreeOf(node, head[m]), k) # NULL
  PROVE  LET t == TreeOf(node, head[m])
             r == [t EXCEPT !.node[Find(t, k)].value = v]
         IN Regrown(node, head, own, m, r, own[m]) /\ Holds(r.node, own[m], [f EXCEPT ![k] = v])
<1> DEFINE t == TreeOf(node, head[m])
           N == own[m]
           x == Find(t, k)
           r == [t EXCEPT !.node[x].value = v]
           n == [t.node[x] EXCEPT !.value = v]
           g == [f EXCEPT ![k] = v]
<1>1. /\ t \in TreeType /\ t.node = node /\ NULL \notin N /\ N \subseteq DOMAIN node
      /\ \E sub, up : Tree(t, N, sub, up)
  BY GroveHas
<1>2. /\ DOMAIN f = {node[z].key : z \in N} /\ (\A z \in N : f[node[z].key] = node[z].value)
      /\ f = [j \in DOMAIN f |-> f[j]]
      /\ x \in N /\ node[x].key = k /\ k \in DOMAIN f
  <2>1. x \in N /\ node[x].key = k /\ k \in DOMAIN f
    BY FoundIs
  <2> HIDE DEF x
  <2> QED
    BY <2>1 DEF Holds
<1> HIDE DEF t, N, x
<1>3. PICK sub, up : Tree(t, N, sub, up)
  BY <1>1
<1>4. x \in DOMAIN t.node /\ t.node[x] \in Node
  BY <1>1, <1>2, StoreType
<1>5. /\ n \in Node /\ n.key = k /\ n.value = v /\ n.left = t.node[x].left
      /\ n.right = t.node[x].right /\ n.size = t.node[x].size /\ n.hash = t.node[x].hash
  BY <1>1, <1>2, <1>4 DEF Node
<1>6. r = Put(t, x, n)
  BY <1>1, <1>4 DEF Put, TreeType
<1> HIDE DEF n, r
<1>7. /\ r \in TreeType /\ DOMAIN r.node = DOMAIN t.node /\ r.root = t.root /\ r.top = t.top
      /\ r.node[x] = n /\ \A z \in DOMAIN t.node \ {x} : r.node[z] = t.node[z]
  BY <1>1, <1>4, <1>5, <1>6, PutIs
<1>8. ASSUME NEW z \in N
      PROVE  /\ r.node[z].left = t.node[z].left /\ r.node[z].right = t.node[z].right
             /\ r.node[z].size = t.node[z].size /\ r.node[z].key = t.node[z].key
             /\ r.node[z].hash = t.node[z].hash
             /\ r.node[z].value = IF z = x THEN v ELSE t.node[z].value
  <2>1. CASE z = x
    BY <1>1, <1>2, <1>5, <1>7, <2>1
  <2>2. CASE z # x
    <3>1. z \in DOMAIN t.node \ {x}
      BY <1>1, <2>2
    <3> QED
      BY <1>7, <2>2, <3>1
  <2> QED
    BY <2>1, <2>2
<1>9. Tree(r, N, sub, up)
  <2>1. N \subseteq DOMAIN r.node /\ r.root = t.root /\ r.top >= t.top
    <3>1. t.top \in Nat
      BY <1>1, StoreType
    <3> QED
      BY <1>1, <1>7, <3>1
  <2> QED
    BY <1>3, <1>7, <1>8, <2>1, TreeKept
<1>10. Regrown(node, head, own, m, r, N)
  <2>1. DOMAIN r.node = (DOMAIN node \ N) \cup N /\ N \cap (DOMAIN node \ N) = {}
    BY <1>1, <1>7
  <2>2. \A z \in DOMAIN node \ N : r.node[z] = node[z]
    BY <1>1, <1>2, <1>7
  <2> QED
    BY <1>9, <2>1, <2>2 DEF Regrown, N
<1>11. /\ DOMAIN g = DOMAIN f /\ g = [j \in DOMAIN g |-> g[j]] /\ g[k] = v
       /\ \A j \in DOMAIN f \ {k} : g[j] = f[j]
  BY <1>2
<1> HIDE DEF g
<1>12. {r.node[z].key : z \in N} = {node[z].key : z \in N}
  BY <1>1, <1>8
<1>13. ASSUME NEW z \in N PROVE g[r.node[z].key] = r.node[z].value
  <2>1. CASE z = x
    BY <1>1, <1>2, <1>8, <1>11, <2>1
  <2>2. CASE z # x
    <3>1. t.node[z].key # t.node[x].key
      BY <1>2, <1>3, <2>2, KeysDiffer
    <3> QED
      BY <1>1, <1>2, <1>8, <1>11, <2>2, <3>1
  <2> QED
    BY <2>1, <2>2
<1>14. Holds(r.node, N, g)
  BY <1>2, <1>11, <1>12, <1>13 DEF Holds
<1> QED
  BY <1>10, <1>14 DEF r, t, x, N, g

\* The empty tree holds nothing.
LEMMA HoldsNothing ==
  ASSUME NEW node
  PROVE  Holds(node, {}, <<>>)
<1>1. <<>> \in [{} -> {}]
  OBVIOUS
<1>2. DOMAIN <<>> = {} /\ <<>> = [j \in DOMAIN <<>> |-> <<>>[j]]
  BY <1>1
<1> DEFINE e == <<>>
<1> HIDE DEF e
<1>3. DOMAIN e = {} /\ e = [j \in DOMAIN e |-> e[j]]
  BY <1>2 DEF e
<1>4. {node[b].key : b \in {}} = {}
  OBVIOUS
<1>5. Holds(node, {}, e)
  BY <1>3, <1>4 DEF Holds
<1> QED
  BY <1>5 DEF e

\* clear: an empty tree.
LEMMA ClearIs ==
  ASSUME NEW node, NEW head, NEW own, Stored(node, head), Grove(node, head, own),
         NEW m \in DOMAIN head
  PROVE  LET t == TreeOf(node, head[m])
             r == [ReleaseNode(t, t.root) EXCEPT !.root = NULL]
         IN Regrown(node, head, own, m, r, {}) /\ Holds(r.node, {}, <<>>)
<1> DEFINE t == TreeOf(node, head[m])
           N == own[m]
           a == ReleaseNode(t, t.root)
           r == [a EXCEPT !.root = NULL]
<1>1. t.node = node /\ N \subseteq DOMAIN node /\ \E sub, up : Tree(t, N, sub, up)
  BY GroveHas
<1>2. Graded(node, Cardinality(DOMAIN node))
  BY GroveIsGraded
<1> HIDE DEF t, N
<1>3. PICK sub, up : Tree(t, N, sub, up)
  BY <1>1
<1>4. /\ a \in TreeType /\ DOMAIN a.node = DOMAIN t.node \ N
      /\ \A z \in DOMAIN t.node \ N : a.node[z] = t.node[z]
  BY <1>1, <1>2, <1>3, ReleaseNodeIs
<1> HIDE DEF a
<1>5. r \in TreeType /\ r.node = a.node /\ r.root = NULL
  BY <1>4 DEF TreeType
<1> HIDE DEF r
<1>6. \E sub2, up2 : Tree(r, {}, sub2, up2)
  BY <1>5, EmptyIsTree
<1>7. Regrown(node, head, own, m, r, {})
  <2>1. DOMAIN r.node = (DOMAIN node \ N) \cup {}
    BY <1>1, <1>4, <1>5
  <2> QED
    BY <1>1, <1>4, <1>5, <1>6, <2>1 DEF Regrown, N
<1>8. Holds(r.node, {}, <<>>)
  BY HoldsNothing
<1> QED
  BY <1>7, <1>8 DEF r, a, t

-----------------------------------------------------------------------------
(***************************************************************************)
(* The invariant.                                                          *)
(***************************************************************************)
Handled ==
  handle \in [Handles -> [map : Maps \cup {NULL}, root : Blocks \cup {NULL}, top : Nat]]

Inv == Handled /\ Stored(disk, header) /\ \E own : Grove(disk, header, own)

\* The contents of the maps, as the refinement maps them.
Held == [m \in DOMAIN header |-> Contents(m)]

\* The contents depend on the blocks and the headers only.
LEMMA HeldIs == Held = Answers(disk, header) /\ Held' = Answers(disk', header')
  BY DEF Held, Answers, Contents, PairsOf, NodesOf

\* load gives the tree of the header on disk.
LEMMA LoadIs ==
  ASSUME NEW m
  PROVE  Load(m) = TreeOf(disk, header[m])
  BY DEF Load, TreeOf

\* A call that saves the map: its tree and what it holds are the new ones.
LEMMA Saved ==
  ASSUME Inv, NEW own, Grove(disk, header, own), NEW h \in Handles, NEW m \in DOMAIN header,
         NEW t, NEW M, Regrown(disk, header, own, m, t, M), SaveMap(h, m, t),
         NEW f, Holds(t.node, M, f)
  PROVE  Inv' /\ Held' = Replace(Held, m, f)
<1> DEFINE own2 == [own EXCEPT ![m] = M]
<1>1. Stored(disk, header) /\ Grove(disk, header, own) /\ Handled
  BY DEF Inv
<1>2. disk' = t.node /\ header' = [header EXCEPT ![m] = [root |-> t.root, top |-> t.top]]
      /\ handle' = [handle EXCEPT ![h] = [map |-> m, root |-> t.root, top |-> t.top]]
  BY DEF SaveMap, Hold
<1>3. Stored(t.node, header') /\ Grove(t.node, header', own2)
  BY <1>1, <1>2, RegrownIsGrove
<1>4. m \in Maps /\ t.root \in Blocks \cup {NULL} /\ t.top \in Nat
  <2>1. m \in Maps
    BY <1>1 DEF Stored
  <2>2. \E sub, up : Tree(t, M, sub, up)
    BY DEF Regrown
  <2>3. t \in TreeType
    BY <2>2, TreeHas
  <2> QED
    BY <2>1, <2>3, StoreType
<1>5. Handled'
  BY <1>1, <1>2, <1>4 DEF Handled
<1>6. Stored(disk', header') /\ Grove(disk', header', own2)
  BY <1>2, <1>3
<1> HIDE DEF own2
<1>7. Inv'
  BY <1>5, <1>6 DEF Inv
<1>8. Answers(t.node, header') = Replace(Answers(disk, header), m, f)
  <2> DEFINE head2 == header'
  <2>1. head2 = Replace(header, m, TopOf(t))
    BY <1>2 DEF Replace, TopOf
  <2>2. Stored(disk, header)
    BY <1>1
  <2> HIDE DEF head2
  <2>3. Answers(t.node, head2) = Replace(Answers(disk, header), m, f)
    BY <2>1, <2>2, AnswersChange
  <2> QED
    BY <2>3 DEF head2
<1> QED
  BY <1>2, <1>7, <1>8, HeldIs

\* A call that only loads the map.
LEMMA OnlyLoaded ==
  ASSUME Inv, NEW h \in Handles, NEW m \in DOMAIN header, Loaded(h, m)
  PROVE  Inv' /\ Held' = Held
<1>1. PICK own : Grove(disk, header, own)
  BY DEF Inv
<1>2. Stored(disk, header) /\ Handled
  BY DEF Inv
<1>3. disk' = disk /\ header' = header
      /\ handle' = [handle EXCEPT ![h] = [map |-> m, root |-> Load(m).root, top |-> Load(m).top]]
  BY DEF Loaded, Hold
<1>4. m \in Maps /\ Load(m).root \in Blocks \cup {NULL} /\ Load(m).top \in Nat
  <2>1. m \in Maps /\ header[m] \in Heads
    BY <1>2 DEF Stored
  <2> QED
    BY <2>1 DEF Load, Heads
<1>5. Handled'
  BY <1>2, <1>3, <1>4 DEF Handled
<1>6. Inv'
  BY <1>1, <1>2, <1>3, <1>5 DEF Inv
<1>7. Held' = Held
  BY <1>3, HeldIs
<1> QED
  BY <1>6, <1>7

\* The contents of a map are the pairs in its nodes.
LEMMA HeldHolds ==
  ASSUME Inv, NEW own, Grove(disk, header, own), NEW m \in DOMAIN header
  PROVE  Holds(disk, own[m], Held[m])
<1>1. Stored(disk, header) /\ Held = Answers(disk, header)
  BY HeldIs DEF Inv
<1> QED
  BY <1>1, AnswersAre

\* What is in the map at k, and where.
LEMMA Found ==
  ASSUME Inv, NEW m \in DOMAIN header, NEW k
  PROVE  /\ Find(Load(m), k) = NULL => k \notin DOMAIN Held[m]
         /\ Find(Load(m), k) # NULL =>
              /\ k \in DOMAIN Held[m] /\ Held[m][k] = disk[Find(Load(m), k)].value
  <1>1. PICK own : Grove(disk, header, own)
    BY DEF Inv
  <1> DEFINE f == Held[m]
  <1>2. Holds(disk, own[m], f) /\ Stored(disk, header) /\ Load(m) = TreeOf(disk, header[m])
    BY <1>1, HeldHolds, LoadIs DEF Inv
  <1> HIDE DEF f
  <1> DEFINE x == Find(TreeOf(disk, header[m]), k)
  <1>3. /\ x = NULL => k \notin DOMAIN f
        /\ x # NULL => x \in own[m] /\ disk[x].key = k /\ k \in DOMAIN f /\ f[k] = disk[x].value
    BY <1>1, <1>2, FoundIs
  <1> QED
    BY <1>2, <1>3 DEF f

\* The calls in terms of the contents.
LEMMA StoreCalls ==
  ASSUME NEW m, NEW k, NEW v
  PROVE  /\ Store!Create(m) <=> /\ did' = <<"create", m>> /\ m \notin DOMAIN Held
                                /\ Held' = With(Held, m, <<>>)
         /\ Store!Add(m, k, v) <=> /\ did' = <<"add", m, k, v>>
                                   /\ Held' = Replace(Held, m, With(Held[m], k, v))
         /\ Store!Drop(m, k) <=> /\ did' = <<"drop", m, k>>
                                 /\ Held' = Replace(Held, m, Without(Held[m], k))
         /\ Store!Update(m, k, v) <=>
              \/ /\ did' = <<"update", m, k, v>> /\ k \in DOMAIN Held[m]
                 /\ Held' = Replace(Held, m, Replace(Held[m], k, v))
              \/ /\ did' = <<"update", m, k, NONE>> /\ k \notin DOMAIN Held[m]
                 /\ Held' = Held
         /\ Store!Get(m, k) <=>
              /\ did'[1] = "get"
              /\ did' = <<"get", m, k, IF k \in DOMAIN Held[m] THEN Held[m][k] ELSE NONE>>
              /\ Held' = Held
         /\ Store!Clear(m) <=> did' = <<"clear", m>> /\ Held' = Replace(Held, m, <<>>)
         /\ Store!Release(m) <=> did' = <<"release", m>> /\ Held' = Without(Held, m)
         /\ UNCHANGED Store!vars <=> Held' = Held /\ did' = did
  BY DEF Store!Create, Store!Add, Store!Drop, Store!Update, Store!Get, Store!Clear,
         Store!Release, Store!Become, Store!vars, Held, With, Without, Replace

\* Before the first call there is no map.
LEMMA InitInv == Init => Inv /\ Store!Init
<1> SUFFICES ASSUME Init PROVE Inv /\ Store!Init
  OBVIOUS
<1>1. disk = <<>> /\ header = <<>> /\ DOMAIN disk = {} /\ DOMAIN header = {}
  BY DEF Init
<1>2. disk \in [{} -> Node] /\ {} \in SUBSET Blocks
  BY <1>1
<1>3. Stored(disk, header)
  <2>1. disk \in Stores
    BY <1>2, IsStore
  <2>2. IsFiniteSet(DOMAIN disk)
    BY <1>1, FS_EmptySet
  <2>3. header \in [DOMAIN header -> Heads]
    BY <1>1
  <2> QED
    BY <1>1, <2>1, <2>2, <2>3 DEF Stored
<1> DEFINE own == [m \in {} |-> {}]
<1>4. Grove(disk, header, own)
  <2>1. own \in [DOMAIN header -> SUBSET DOMAIN disk]
    BY <1>1
  <2> HIDE DEF own
  <2> QED
    BY <1>1, <2>1 DEF Grove
<1>5. Handled
  <2>1. NoMap \in [map : Maps \cup {NULL}, root : Blocks \cup {NULL}, top : Nat]
    BY DEF NoMap
  <2> QED
    BY <2>1 DEF Init, Handled
<1>6. Inv
  BY <1>3, <1>4, <1>5 DEF Inv
<1>7. Store!Init
  <2>1. [m \in DOMAIN header |-> Contents(m)] = <<>>
    BY <1>1
  <2> QED
    BY <2>1 DEF Store!Init, Store!Idle, Init
<1> QED
  BY <1>6, <1>7

\* The calls, one by one: each keeps the invariant and is the call of the store.
LEMMA CreateStep ==
  ASSUME Inv, NEW h \in Handles, NEW m \in Maps, Create(h, m)
  PROVE  Inv' /\ Store!Create(m)
<1> DEFINE head2 == header'
<1>1. PICK own : Grove(disk, header, own)
  BY DEF Inv
<1>2. Stored(disk, header) /\ Handled
  BY DEF Inv
<1>3. /\ m \notin DOMAIN header /\ did' = <<"create", m>> /\ disk' = disk
      /\ head2 = [n \in DOMAIN header \cup {m} |->
                    IF n = m THEN [root |-> NULL, top |-> 0] ELSE header[n]]
      /\ handle' = [handle EXCEPT ![h] = [map |-> m, root |-> NULL, top |-> 0]]
  BY DEF Create, Hold, EmptyTree
<1> DEFINE own2 == [n \in DOMAIN header \cup {m} |-> IF n = m THEN {} ELSE own[n]]
<1> HIDE DEF head2
<1>4. Stored(disk, head2) /\ Grove(disk, head2, own2)
  BY <1>1, <1>2, <1>3, MapAdded
<1>5. Handled'
  BY <1>2, <1>3 DEF Handled
<1>6. /\ DOMAIN own2 = DOMAIN header \cup {m} /\ own2[m] = {}
      /\ \A n \in DOMAIN header : own2[n] = own[n]
  BY <1>3
<1> HIDE DEF own2
<1>7. Inv'
  BY <1>3, <1>4, <1>5 DEF Inv, head2
<1> DEFINE a == Answers(disk, header)
           b == Answers(disk, head2)
<1>8. /\ DOMAIN a = DOMAIN header /\ DOMAIN b = DOMAIN header \cup {m}
      /\ b = [n \in DOMAIN b |-> b[n]]
  BY <1>3 DEF Answers
<1>9. b[m] = <<>>
  <2>1. m \in DOMAIN head2
    BY <1>3
  <2>2. Holds(disk, own2[m], b[m])
    BY <1>4, <2>1, AnswersAre
  <2> DEFINE c == b[m]
  <2>3. Holds(disk, {}, c)
    BY <1>6, <2>2
  <2> HIDE DEF c
  <2>4. c = <<>>
    BY <2>3, HoldsNothing, HoldsOne
  <2> QED
    BY <2>4 DEF c
<1>10. ASSUME NEW n \in DOMAIN header PROVE b[n] = a[n]
  <2>1. n \in DOMAIN head2
    BY <1>3
  <2>2. Holds(disk, own2[n], b[n]) /\ Holds(disk, own[n], a[n])
    BY <1>1, <1>2, <1>4, <2>1, AnswersAre
  <2> HIDE DEF a, b
  <2> QED
    BY <1>6, <2>2, HoldsOne
<1> HIDE DEF a, b
<1>11. b = [n \in DOMAIN a \cup {m} |-> IF n \in DOMAIN a THEN a[n] ELSE <<>>]
  BY <1>3, <1>8, <1>9, <1>10
<1>12. Held = a /\ Held' = b
  BY <1>3, HeldIs DEF a, b, head2
<1>13. Held' = With(Held, m, <<>>)
  BY <1>11, <1>12 DEF With, Store!With
<1> QED
  BY <1>3, <1>7, <1>8, <1>12, <1>13, StoreCalls

\* A variable that is up to date has the root of the header.
LEMMA Up ==
  ASSUME NEW h, UpToDate(h)
  PROVE  MapOf(h) \in DOMAIN header /\ Believed(h) = TreeOf(disk, header[MapOf(h)])
         /\ handle[h].root = TreeOf(disk, header[MapOf(h)]).root
  BY DEF UpToDate, Bound, Believed, TreeOf

\* release takes the tree away instead of exchanging it.
LEMMA ReleaseStep ==
  ASSUME Inv, NEW h \in Handles, Release(h)
  PROVE  Inv' /\ Store!Release(MapOf(h))
<1> DEFINE m == MapOf(h)
           t == TreeOf(disk, header[m])
           r == ReleaseNode(t, t.root)
           head2 == header'
<1>1. PICK own : Grove(disk, header, own)
  BY DEF Inv
<1>2. Stored(disk, header) /\ Handled
  BY DEF Inv
<1>3. /\ m \in DOMAIN header /\ disk' = r.node /\ did' = <<"release", m>> /\ handle' = handle
      /\ head2 = [n \in DOMAIN header \ {m} |-> header[n]]
  BY Up DEF Release
<1> DEFINE N == own[m]
           own2 == [n \in DOMAIN header \ {m} |-> own[n]]
<1>4. t.node = disk /\ N \subseteq DOMAIN disk /\ \E sub, up : Tree(t, N, sub, up)
  BY <1>1, <1>2, <1>3, GroveHas
<1>5. Graded(disk, Cardinality(DOMAIN disk))
  BY <1>1, <1>2, GroveIsGraded
<1> HIDE DEF t, N, m, head2
<1>6. PICK sub, up : Tree(t, N, sub, up)
  BY <1>4
<1>7. /\ r \in TreeType /\ DOMAIN r.node = DOMAIN t.node \ N
      /\ \A z \in DOMAIN t.node \ N : r.node[z] = t.node[z]
  BY <1>4, <1>5, <1>6, ReleaseNodeIs
<1> HIDE DEF r
<1> DEFINE node2 == r.node
<1>8. /\ node2 \in Stores /\ DOMAIN node2 = DOMAIN disk \ own[m]
      /\ \A z \in DOMAIN disk \ own[m] : node2[z] = disk[z]
  BY <1>4, <1>7, StoreType DEF N, TreeType
<1> HIDE DEF node2
<1>9. Stored(node2, head2) /\ Grove(node2, head2, own2)
  BY <1>1, <1>2, <1>3, <1>8, MapRemoved
<1>10. \A n \in DOMAIN header \ {m} : own2[n] = own[n]
  OBVIOUS
<1> HIDE DEF own2
<1>11. Inv'
  <2>1. Handled'
    BY <1>2, <1>3 DEF Handled
  <2> QED
    BY <1>3, <1>9, <2>1 DEF Inv, head2, node2
<1> DEFINE a == Answers(disk, header)
           b == Answers(node2, head2)
<1>12. /\ DOMAIN a = DOMAIN header /\ DOMAIN b = DOMAIN header \ {m}
       /\ b = [n \in DOMAIN b |-> b[n]]
  BY <1>3 DEF Answers
<1>13. ASSUME NEW n \in DOMAIN header \ {m} PROVE b[n] = a[n]
  <2>1. n \in DOMAIN head2 /\ n \in DOMAIN header
    BY <1>3
  <2>2. Holds(node2, own2[n], b[n]) /\ Holds(disk, own[n], a[n])
    BY <1>1, <1>2, <1>9, <2>1, AnswersAre
  <2> HIDE DEF a, b
  <2>3. own[n] \subseteq DOMAIN disk \ own[m]
    BY <1>1, <1>3 DEF Grove
  <2>4. \A z \in own[n] : node2[z].key = disk[z].key /\ node2[z].value = disk[z].value
    BY <1>8, <2>3
  <2>5. Holds(node2, own[n], a[n]) /\ Holds(node2, own[n], b[n])
    BY <1>10, <2>2, <2>4, HoldsStill
  <2> QED
    BY <2>5, HoldsOne
<1> HIDE DEF a, b
<1>14. b = Without(a, m)
  BY <1>12, <1>13 DEF Without
<1>15. Held = a /\ Held' = b
  BY <1>3, HeldIs DEF a, b, head2, node2
<1>16. Held' = Without(Held, m)
  BY <1>14, <1>15
<1> QED
  BY <1>3, <1>11, <1>16, StoreCalls DEF m

\* What a function of the contents looks like.
LEMMA HeldType ==
  ASSUME Inv
  PROVE  /\ DOMAIN Held = DOMAIN header /\ Held = [n \in DOMAIN Held |-> Held[n]]
         /\ \A m \in DOMAIN header : Held[m] = [k \in DOMAIN Held[m] |-> Held[m][k]]
<1>1. PICK own : Grove(disk, header, own)
  BY DEF Inv
<1>2. DOMAIN Held = DOMAIN header /\ Held = [n \in DOMAIN Held |-> Held[n]]
  BY DEF Held
<1>3. ASSUME NEW m \in DOMAIN header PROVE Held[m] = [k \in DOMAIN Held[m] |-> Held[m][k]]
  <2> DEFINE f == Held[m]
  <2>1. Holds(disk, own[m], f)
    BY <1>1, HeldHolds
  <2> HIDE DEF f
  <2>2. f = [k \in DOMAIN f |-> f[k]]
    BY <2>1 DEF Holds
  <2> QED
    BY <2>2 DEF f
<1> QED
  BY <1>2, <1>3

LEMMA AddStep ==
  ASSUME Inv, NEW h \in Handles, Bound(h), NEW k \in Keys, NEW v \in Values, Add(h, k, v)
  PROVE  Inv' /\ Store!Add(MapOf(h), k, v)
<1> DEFINE m == MapOf(h)
           f == Held[m]
<1>1. PICK own : Grove(disk, header, own)
  BY DEF Inv
<1>2. Stored(disk, header) /\ m \in DOMAIN header /\ did' = <<"add", m, k, v>>
  BY DEF Inv, Bound, Add
<1>3. CASE Find(Load(m), k) # NULL /\ Loaded(h, m)
  <2> HIDE DEF m
  <2>1. Inv' /\ Held' = Held
    BY <1>2, <1>3, OnlyLoaded
  <2>2. k \in DOMAIN f
    BY <1>2, <1>3, Found
  <2>3. /\ Held = [n \in DOMAIN Held |-> Held[n]] /\ m \in DOMAIN Held
        /\ f = [j \in DOMAIN f |-> f[j]]
    BY <1>2, HeldType
  <2> HIDE DEF f
  <2>4. With(f, k, v) = f
    BY <2>2, <2>3 DEF With, Store!With
  <2>5. Held' = Replace(Held, m, f)
    BY <2>1, <2>3 DEF f, Replace
  <2> QED
    BY <1>2, <2>1, <2>4, <2>5, StoreCalls DEF f, m
<1>4. CASE /\ Find(Load(m), k) = NULL
           /\ \E b \in Blocks \ DOMAIN disk, r \in Randoms :
                SaveMap(h, m, Insert(Load(m), [key |-> k, value |-> v, random |-> r], b))
  <2>1. PICK b \in Blocks \ DOMAIN disk, r \in Randoms :
          SaveMap(h, m, Insert(Load(m), [key |-> k, value |-> v, random |-> r], b))
    BY <1>4
  <2> DEFINE d == [key |-> k, value |-> v, random |-> r]
             t == Insert(TreeOf(disk, header[m]), d, b)
             M == own[m] \cup {b}
             g == With(f, k, v)
  <2>2. d \in Data /\ d.key = k /\ d.value = v
    BY DEF Data
  <2>3. Load(m) = TreeOf(disk, header[m])
    BY LoadIs
  <2>4. SaveMap(h, m, t)
    BY <2>1, <2>3
  <2>5. Holds(disk, own[m], f)
    BY <1>1, <1>2, HeldHolds
  <2> HIDE DEF d, m, f
  <2>6. Regrown(disk, header, own, m, t, M) /\ Holds(t.node, M, With(f, d.key, d.value))
    BY <1>1, <1>2, <1>4, <2>2, <2>3, <2>5, AddIs
  <2>7. Holds(t.node, M, g)
    BY <2>2, <2>6
  <2> HIDE DEF t, M, g
  <2>8. Inv' /\ Held' = Replace(Held, m, g)
    BY <1>1, <1>2, <2>4, <2>6, <2>7, Saved
  <2> QED
    BY <1>2, <2>8, StoreCalls DEF g, f, m
<1> QED
  BY <1>3, <1>4 DEF Add

LEMMA DropStep ==
  ASSUME Inv, NEW h \in Handles, Bound(h), NEW k \in Keys, Drop(h, k)
  PROVE  Inv' /\ Store!Drop(MapOf(h), k)
<1> DEFINE m == MapOf(h)
           f == Held[m]
<1>1. PICK own : Grove(disk, header, own)
  BY DEF Inv
<1>2. Stored(disk, header) /\ m \in DOMAIN header /\ did' = <<"drop", m, k>>
  BY DEF Inv, Bound, Drop
<1>3. CASE Find(Load(m), k) = NULL /\ Loaded(h, m)
  <2> HIDE DEF m
  <2>1. Inv' /\ Held' = Held
    BY <1>2, <1>3, OnlyLoaded
  <2>2. k \notin DOMAIN f
    BY <1>2, <1>3, Found
  <2>3. /\ Held = [n \in DOMAIN Held |-> Held[n]] /\ m \in DOMAIN Held
        /\ f = [j \in DOMAIN f |-> f[j]]
    BY <1>2, HeldType
  <2> HIDE DEF f
  <2>4. Without(f, k) = f
    BY <2>2, <2>3 DEF Without
  <2>5. Held' = Replace(Held, m, f)
    BY <2>1, <2>3 DEF f, Replace
  <2> QED
    BY <1>2, <2>1, <2>4, <2>5, StoreCalls DEF f, m
<1>4. CASE Find(Load(m), k) # NULL /\ SaveMap(h, m, Remove(Load(m), k))
  <2> DEFINE t == Remove(TreeOf(disk, header[m]), k)
             g == Without(f, k)
  <2>1. Load(m) = TreeOf(disk, header[m])
    BY LoadIs
  <2>2. SaveMap(h, m, t)
    BY <1>4, <2>1
  <2>3. Holds(disk, own[m], f)
    BY <1>1, <1>2, HeldHolds
  <2> HIDE DEF m, f
  <2>4. PICK M : Regrown(disk, header, own, m, t, M) /\ Holds(t.node, M, g)
    BY <1>1, <1>2, <1>4, <2>1, <2>3, DropIs
  <2> HIDE DEF t, g
  <2>5. Inv' /\ Held' = Replace(Held, m, g)
    BY <1>1, <1>2, <2>2, <2>4, Saved
  <2> QED
    BY <1>2, <2>5, StoreCalls DEF g, f, m
<1> QED
  BY <1>3, <1>4 DEF Drop

LEMMA UpdateStep ==
  ASSUME Inv, NEW h \in Handles, Bound(h), NEW k \in Keys, NEW v \in Values, Update(h, k, v)
  PROVE  Inv' /\ Store!Update(MapOf(h), k, v)
<1> DEFINE m == MapOf(h)
           f == Held[m]
           x == Find(TreeOf(disk, header[m]), k)
<1>1. PICK own : Grove(disk, header, own)
  BY DEF Inv
<1>2. Stored(disk, header) /\ m \in DOMAIN header /\ Load(m) = TreeOf(disk, header[m])
  BY LoadIs DEF Inv, Bound
<1>3. CASE x = NULL /\ Loaded(h, m) /\ did' = <<"update", m, k, NONE>>
  <2> HIDE DEF m
  <2>1. Inv' /\ Held' = Held
    BY <1>2, <1>3, OnlyLoaded
  <2>2. k \notin DOMAIN Held[m]
    BY <1>2, <1>3, Found
  <2> QED
    BY <1>3, <2>1, <2>2, StoreCalls DEF m
<1>4. CASE /\ x # NULL /\ SaveMap(h, m, [Load(m) EXCEPT !.node[x].value = v])
           /\ did' = <<"update", m, k, v>>
  <2> DEFINE t == [TreeOf(disk, header[m]) EXCEPT !.node[x].value = v]
             g == Replace(f, k, v)
             M == own[m]
  <2>1. SaveMap(h, m, t)
    BY <1>2, <1>4
  <2>2. Holds(disk, own[m], f)
    BY <1>1, <1>2, HeldHolds
  <2>3. k \in DOMAIN f
    BY <1>2, <1>4, Found
  <2> HIDE DEF m, f
  <2>4. Regrown(disk, header, own, m, t, M) /\ Holds(t.node, M, g)
    BY <1>1, <1>2, <1>4, <2>2, UpdateIs DEF Replace
  <2> HIDE DEF t, g, M, x
  <2>5. Inv' /\ Held' = Replace(Held, m, g)
    BY <1>1, <1>2, <2>1, <2>4, Saved
  <2> QED
    BY <1>4, <2>3, <2>5, StoreCalls DEF g, f, m
<1> QED
  BY <1>2, <1>3, <1>4 DEF Update

LEMMA GetStep ==
  ASSUME Inv, NEW h \in Handles, Bound(h), NEW k \in Keys, GetByKey(h, k)
  PROVE  Inv' /\ Store!Get(MapOf(h), k)
<1> DEFINE m == MapOf(h)
           x == Find(Load(m), k)
<1>1. /\ m \in DOMAIN header /\ Loaded(h, m)
      /\ did' = <<"get", m, k, IF x = NULL THEN NONE ELSE disk[x].value>>
  BY DEF Bound, GetByKey
<1> HIDE DEF m
<1>2. Inv' /\ Held' = Held
  BY <1>1, OnlyLoaded
<1>3. /\ x = NULL => k \notin DOMAIN Held[m]
      /\ x # NULL => k \in DOMAIN Held[m] /\ Held[m][k] = disk[x].value
  BY <1>1, Found
<1> HIDE DEF x
<1>4. (IF x = NULL THEN NONE ELSE disk[x].value)
        = IF k \in DOMAIN Held[m] THEN Held[m][k] ELSE NONE
  BY <1>3
<1>5. did' = <<"get", m, k, IF k \in DOMAIN Held[m] THEN Held[m][k] ELSE NONE>> /\ did'[1] = "get"
  BY <1>1, <1>4
<1> QED
  BY <1>2, <1>5, StoreCalls DEF m

LEMMA ClearStep ==
  ASSUME Inv, NEW h \in Handles, Clear(h)
  PROVE  Inv' /\ Store!Clear(MapOf(h))
<1> DEFINE m == MapOf(h)
           t == TreeOf(disk, header[m])
           r == [ReleaseNode(t, t.root) EXCEPT !.root = NULL]
           M == {}
           g == <<>>
<1>1. PICK own : Grove(disk, header, own)
  BY DEF Inv
<1>2. Stored(disk, header) /\ m \in DOMAIN header /\ did' = <<"clear", m>>
  BY Up DEF Inv, Clear
<1>3. SaveMap(h, m, r)
  BY Up DEF Clear
<1> HIDE DEF m
<1>4. Regrown(disk, header, own, m, r, M) /\ Holds(r.node, M, g)
  BY <1>1, <1>2, ClearIs
<1> HIDE DEF r, g, M
<1>5. Inv' /\ Held' = Replace(Held, m, g)
  BY <1>1, <1>2, <1>3, <1>4, Saved
<1> QED
  BY <1>2, <1>5, StoreCalls DEF g, m

LEMMA GetMapStep ==
  ASSUME Inv, NEW h \in Handles, NEW m \in Maps, GetMap(h, m)
  PROVE  Inv' /\ UNCHANGED Store!vars
<1>1. m \in DOMAIN header /\ Loaded(h, m) /\ did' = did
  BY DEF GetMap
<1>2. Inv' /\ Held' = Held
  BY <1>1, OnlyLoaded
<1> QED
  BY <1>1, <1>2, StoreCalls

\* Every step keeps the invariant and is a call of the store, or nothing to it.
LEMMA Steps ==
  ASSUME Inv, [Next]_vars
  PROVE  Inv' /\ [Store!Next]_Store!vars
<1>1. \A m : m \in DOMAIN header => m \in DOMAIN Held
  BY DEF Held
<1>2. CASE UNCHANGED vars
  <2>1. disk' = disk /\ header' = header /\ handle' = handle /\ did' = did
    BY <1>2 DEF vars
  <2>2. Held' = Held
    BY <2>1, HeldIs
  <2>3. Inv'
    BY <2>1 DEF Inv, Handled
  <2>4. UNCHANGED Store!vars
    BY <2>1, <2>2, StoreCalls
  <2> QED
    BY <2>3, <2>4
<1>3. ASSUME NEW h \in Handles, NEW m \in Maps, Create(h, m) PROVE Inv' /\ Store!Next
  BY <1>3, CreateStep DEF Store!Next
<1>4. ASSUME NEW h \in Handles, NEW m \in Maps, GetMap(h, m) PROVE Inv' /\ UNCHANGED Store!vars
  BY <1>4, GetMapStep
<1>5. ASSUME NEW h \in Handles, Bound(h), NEW k \in Keys, NEW v \in Values,
             Add(h, k, v) \/ Update(h, k, v)
      PROVE  Inv' /\ Store!Next
  <2>1. MapOf(h) \in DOMAIN Held
    BY <1>1, <1>5 DEF Bound
  <2>2. Inv' /\ (Store!Add(MapOf(h), k, v) \/ Store!Update(MapOf(h), k, v))
    BY <1>5, AddStep, UpdateStep
  <2> QED
    BY <2>1, <2>2 DEF Store!Next, Held
<1>6. ASSUME NEW h \in Handles, Bound(h), NEW k \in Keys, Drop(h, k) \/ GetByKey(h, k)
      PROVE  Inv' /\ Store!Next
  <2>1. MapOf(h) \in DOMAIN Held
    BY <1>1, <1>6 DEF Bound
  <2>2. Inv' /\ (Store!Drop(MapOf(h), k) \/ Store!Get(MapOf(h), k))
    BY <1>6, DropStep, GetStep
  <2> QED
    BY <2>1, <2>2 DEF Store!Next, Held
<1>7. ASSUME NEW h \in Handles, Bound(h), Clear(h) \/ Release(h)
      PROVE  Inv' /\ Store!Next
  <2>1. MapOf(h) \in DOMAIN Held
    BY <1>1, <1>7 DEF Bound
  <2>2. Inv' /\ (Store!Clear(MapOf(h)) \/ Store!Release(MapOf(h)))
    BY <1>7, ClearStep, ReleaseStep
  <2> QED
    BY <2>1, <2>2 DEF Store!Next, Held
<1> QED
  BY <1>2, <1>3, <1>4, <1>5, <1>6, <1>7 DEF Next

\* The tree that a block in use belongs to.
LEMMA HasTree ==
  ASSUME Inv, NEW own, Grove(disk, header, own), NEW m \in DOMAIN header
  PROVE  /\ NodesOf(m) = own[m] /\ own[m] \subseteq DOMAIN disk
         /\ Load(m).node = disk /\ Load(m).root = header[m].root
         /\ Graded(disk, Cardinality(DOMAIN disk))
         /\ \E sub, up : Tree(Load(m), own[m], sub, up)
<1>1. Stored(disk, header) /\ Load(m) = TreeOf(disk, header[m])
  BY LoadIs DEF Inv
<1>2. NodesOf(m) = own[m]
  BY <1>1, NodesAreOwned DEF NodesOf
<1>3. Graded(disk, Cardinality(DOMAIN disk))
  BY <1>1, GroveIsGraded
<1>4. /\ own[m] \subseteq DOMAIN disk
      /\ TreeOf(disk, header[m]).node = disk /\ TreeOf(disk, header[m]).root = header[m].root
      /\ \E sub, up : Tree(TreeOf(disk, header[m]), own[m], sub, up)
  BY <1>1, GroveHas
<1> QED
  BY <1>1, <1>2, <1>3, <1>4

LEMMA InvTypeOK == Inv => TypeOK
<1> SUFFICES ASSUME Inv PROVE TypeOK
  OBVIOUS
<1>1. disk \in Stores /\ DOMAIN header \subseteq Maps /\ header \in [DOMAIN header -> Heads]
  BY DEF Inv, Stored
<1>2. PICK D \in SUBSET Blocks : disk \in [D -> Node]
  BY <1>1 DEF Stores
<1>3. DOMAIN disk \subseteq Blocks /\ \A b \in DOMAIN disk : disk[b] \in Node
  BY <1>2
<1>4. \A m \in DOMAIN header : header[m] \in [root : Blocks \cup {NULL}, top : Nat]
  BY <1>1 DEF Heads
<1> QED
  BY <1>1, <1>3, <1>4 DEF TypeOK, Inv, Handled

LEMMA InvSearchOrder == Inv => SearchOrder
<1> SUFFICES ASSUME Inv, NEW x \in DOMAIN disk
             PROVE  /\ \A k \in KeysIn(disk[x].left) : k < disk[x].key
                    /\ \A k \in KeysIn(disk[x].right) : disk[x].key < k
  BY DEF SearchOrder
<1>1. PICK own : Grove(disk, header, own)
  BY DEF Inv
<1>2. PICK m \in DOMAIN header : x \in own[m]
  BY <1>1 DEF Grove
<1> DEFINE t == Load(m)
           N == own[m]
<1>3. /\ t.node = disk /\ x \in N /\ Graded(disk, Cardinality(DOMAIN disk))
      /\ \E sub, up : Tree(t, N, sub, up)
  BY <1>1, <1>2, HasTree
<1> HIDE DEF t, N
<1>4. PICK sub, up : Tree(t, N, sub, up)
  BY <1>3
<1>5. disk[x].left \in N \cup {NULL} /\ disk[x].right \in N \cup {NULL}
  BY <1>3, <1>4 DEF Tree, Branching
<1>6. /\ Below(disk)[disk[x].left] = sub[disk[x].left]
      /\ Below(disk)[disk[x].right] = sub[disk[x].right]
  BY <1>3, <1>4, <1>5, BelowIs
<1>7. /\ \A y \in sub[disk[x].left] : disk[y].key < disk[x].key
      /\ \A y \in sub[disk[x].right] : disk[x].key < disk[y].key
  BY <1>3, <1>4 DEF Tree, Ordered
<1> QED
  BY <1>6, <1>7 DEF KeysIn

LEMMA InvNodesOwned == Inv => NodesOwned
<1> SUFFICES ASSUME Inv PROVE NodesOwned
  OBVIOUS
<1>1. PICK own : Grove(disk, header, own)
  BY DEF Inv
<1>2. \A m \in DOMAIN header : NodesOf(m) = own[m] /\ own[m] \subseteq DOMAIN disk
  BY <1>1, HasTree
<1>3. DOMAIN disk = UNION {NodesOf(m) : m \in DOMAIN header}
  <2>1. \A x \in DOMAIN disk : \E m \in DOMAIN header : x \in own[m]
    BY <1>1 DEF Grove
  <2> QED
    BY <1>2, <2>1
<1>4. \A m, n \in DOMAIN header : m # n => NodesOf(m) \cap NodesOf(n) = {}
  <2>1. \A m, n \in DOMAIN header : m # n => own[m] \cap own[n] = {}
    BY <1>1 DEF Grove
  <2> QED
    BY <1>2, <2>1
<1>5. ASSUME NEW x \in DOMAIN disk
      PROVE  Below(disk)[disk[x].left] \cap Below(disk)[disk[x].right] = {}
  <2>1. PICK m \in DOMAIN header : x \in own[m]
    BY <1>1 DEF Grove
  <2> DEFINE t == Load(m)
             N == own[m]
  <2>2. /\ t.node = disk /\ x \in N /\ Graded(disk, Cardinality(DOMAIN disk))
        /\ \E sub, up : Tree(t, N, sub, up)
    BY <1>1, <2>1, HasTree
  <2> HIDE DEF t, N
  <2>3. PICK sub, up : Tree(t, N, sub, up)
    BY <2>2
  <2>4. disk[x].left \in N \cup {NULL} /\ disk[x].right \in N \cup {NULL}
    BY <2>2, <2>3 DEF Tree, Branching
  <2>5. /\ Below(disk)[disk[x].left] = sub[disk[x].left]
        /\ Below(disk)[disk[x].right] = sub[disk[x].right]
    BY <2>2, <2>3, <2>4, BelowIs
  <2>6. sub[disk[x].left] \cap sub[disk[x].right] = {}
    BY <2>2, <2>3 DEF Tree, Branching
  <2> QED
    BY <2>5, <2>6
<1> QED
  BY <1>3, <1>4, <1>5 DEF NodesOwned

LEMMA InvKeysListed == Inv => KeysListed
<1> SUFFICES ASSUME Inv, NEW m \in DOMAIN header
             PROVE  LET a == GetAllKey(Load(m))
                    IN /\ DOMAIN a = 0 .. Cardinality(NodesOf(m)) - 1
                       /\ GetSize(Load(m)) = Cardinality(NodesOf(m))
                       /\ {a[i] : i \in DOMAIN a} = KeysIn(header[m].root)
                       /\ \A i, j \in DOMAIN a : i < j => a[i] < a[j]
  BY DEF KeysListed
<1>1. PICK own : Grove(disk, header, own)
  BY DEF Inv
<1> DEFINE t == Load(m)
           N == own[m]
           a == GetAllKey(t)
<1>2. /\ t.node = disk /\ t.root = header[m].root /\ NodesOf(m) = N
      /\ Graded(disk, Cardinality(DOMAIN disk)) /\ \E sub, up : Tree(t, N, sub, up)
  BY <1>1, HasTree
<1> HIDE DEF t, N
<1>3. PICK sub, up : Tree(t, N, sub, up)
  BY <1>2
<1>4. t.root \in N \cup {NULL} /\ sub[t.root] = N /\ NULL \notin N
  BY <1>3, TreeHas
<1>5. Lists(a, {t.node[y].key : y \in sub[t.root]}, Cardinality(sub[t.root]))
  BY <1>2, <1>3, <1>4, KeysAreListed DEF GetAllKey
<1>6. KeysIn(header[m].root) = {disk[b].key : b \in N}
  BY <1>2 DEF KeysIn, NodesOf
<1>7. GetSize(t) = Cardinality(N)
  <2>1. CASE t.root = NULL
    <3>1. N = {}
      BY <1>3, <1>4, <2>1, TreeHas
    <3> QED
      BY <2>1, <3>1, FS_EmptySet DEF GetSize, SizeOf
  <2>2. CASE t.root # NULL
    <3>1. t.root \in N
      BY <1>4, <2>2
    <3>2. t.node[t.root].size = Cardinality(sub[t.root])
      BY <1>3, <3>1 DEF Tree, Sized
    <3> QED
      BY <1>4, <2>2, <3>2 DEF GetSize, SizeOf
  <2> QED
    BY <2>1, <2>2
<1> HIDE DEF a
<1>8. /\ DOMAIN a = 0 .. Cardinality(N) - 1 /\ {a[i] : i \in DOMAIN a} = {disk[y].key : y \in N}
      /\ \A i, j \in DOMAIN a : i < j => a[i] < a[j]
  BY <1>2, <1>4, <1>5 DEF Lists
<1> QED
  BY <1>2, <1>6, <1>7, <1>8 DEF a, t

LEMMA InvHashUnique == Inv => HashUnique
<1> SUFFICES ASSUME Inv, NEW m \in DOMAIN header, NEW x \in NodesOf(m), NEW y \in NodesOf(m), x # y
             PROVE  disk[x].hash # disk[y].hash
  BY DEF HashUnique
<1>1. PICK own : Grove(disk, header, own)
  BY DEF Inv
<1>2. /\ Load(m).node = disk /\ NodesOf(m) = own[m]
      /\ \E sub, up : Tree(Load(m), own[m], sub, up)
  BY <1>1, HasTree
<1> QED
  BY <1>2 DEF Tree, Hashed

-----------------------------------------------------------------------------
(***************************************************************************)
(* The theorems.                                                           *)
(***************************************************************************)
\* The invariant holds in every reachable state: every block in use is in the
\* search tree of exactly one map, whatever calls were made.
THEOREM Invariance == Spec => []Inv
<1>1. Init => Inv
  BY InitInv
<1>2. Inv /\ [Next]_vars => Inv'
  BY Steps
<1> QED
  BY <1>1, <1>2, PTL DEF Spec

\* The blocks, the headers and the copies in the db_map variables keep their
\* shapes through every sequence of calls.
THEOREM TypeCorrect == Spec => []TypeOK
  BY Invariance, InvTypeOK, PTL

\* Find misses no key: whatever the insertions, rotations and removals were,
\* smaller keys are on the left of a node and larger ones on the right.
THEOREM KeysInOrder == Spec => []SearchOrder
  BY Invariance, InvSearchOrder, PTL

\* Every block in use is a node of one map, at one place: insert, remove, clear
\* and release lose no node and free none that is still linked.
THEOREM OneOwner == Spec => []NodesOwned
  BY Invariance, InvNodesOwned, PTL

\* get_all_key writes every key once and in order, into the get_size entries
\* that the caller made room for.
THEOREM AllKeysListed == Spec => []KeysListed
  BY Invariance, InvKeysListed, PTL

\* HASH tells the nodes of one tree apart, as hash_top is saved with the header.
THEOREM HashesDiffer == Spec => []HashUnique
  BY Invariance, InvHashUnique, PTL

\* Each call of db_map changes the contents of its map as MapStore says, and
\* leaves every other map alone.
THEOREM MapsImplementStore == Spec => StoreSpec
<1>1. Init => Store!Init
  BY InitInv
<1>2. Inv /\ [Next]_vars => [Store!Next]_Store!vars
  BY Steps
<1> QED
  BY <1>1, <1>2, Invariance, PTL DEF Spec, StoreSpec, Store!Spec
=============================================================================
