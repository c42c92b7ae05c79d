---------------------------- MODULE TreapProofs ----------------------------
(***************************************************************************)
(* Lemmas about the operators of Treap, for trees of any size: what each   *)
(* of them makes of a search tree.                                         *)
(*                                                                         *)
(* A tree is given by its nodes N, by the nodes below each node (sub) and  *)
(* by the father of each node (up).  sub and up are not in the code: with  *)
(* them a tree is a condition on every node by itself (Tree), and for each *)
(* operation it is enough to name the new sub and up.                      *)
(***************************************************************************)
EXTENDS DbMap, FiniteSetTheorems, WellFoundedInduction, TLAPS

-----------------------------------------------------------------------------
(***************************************************************************)
(* Induction.  A tree shrinks on the way down, so what is shown for the    *)
(* natural numbers carries over to its nodes.                              *)
(***************************************************************************)
LEMMA LessIsWellFounded == IsWellFoundedOn({ss \in Nat \X Nat : ss[1] < ss[2]}, Nat)
  BY NatLessThanWellFounded DEF OpToRel

\* A set of natural numbers has a least element.
LEMMA LeastExists ==
  ASSUME NEW T, T \subseteq Nat, T # {}
  PROVE  \E n \in T : \A k \in T : n <= k
<1> DEFINE R == {ss \in Nat \X Nat : ss[1] < ss[2]}
<1>1. \E n \in T : \A k \in T : <<k, n>> \notin R
  <2>1. IsWellFoundedOn(R, Nat)
    BY LessIsWellFounded
  <2> HIDE DEF R
  <2> QED
    BY <2>1, WFMin
<1>2. PICK n \in T : \A k \in T : <<k, n>> \notin R
  BY <1>1
<1>3. \A k \in T : ~(k < n)
  <2> TAKE k \in T
  <2>1. <<k, n>> \in Nat \X Nat /\ <<k, n>>[1] = k /\ <<k, n>>[2] = n
    OBVIOUS
  <2> QED
    BY <1>2, <2>1
<1> QED
  BY <1>3

\* Induction, from the least number that would be left out.
LEMMA AllNaturals ==
  ASSUME NEW T, T \subseteq Nat, 0 \in T, \A n \in T : n + 1 \in T
  PROVE  T = Nat
<1> SUFFICES ASSUME Nat \ T # {} PROVE FALSE
  OBVIOUS
<1>1. PICK n \in Nat \ T : \A k \in Nat \ T : n <= k
  BY LeastExists
<1>2. n # 0 /\ n - 1 \in Nat
  BY <1>1
<1>3. n - 1 \in T
  BY <1>1, <1>2
<1> QED
  BY <1>1, <1>2, <1>3

\* A function that is given by its values on smaller arguments exists.
Recurring(V, S, rank, bound, step) ==
  /\ rank \in [V -> Nat] /\ bound \in Nat /\ \A x \in V : rank[x] <= bound
  /\ step \in [V \X [V -> S] -> S]
  /\ \A x \in V : \A g, h \in [V -> S] :
       (\A y \in V : rank[y] < rank[x] => g[y] = h[y])
         => step[<<x, g>>] = step[<<x, h>>]

Recursive(V, S, step) == \E f \in [V -> S] : \A x \in V : f[x] = step[<<x, f>>]

\* The functions that agree with step up to n exist for every n, and the ranks
\* are bounded.
LEMMA Recursion ==
  ASSUME NEW V, NEW S, NEW s0 \in S, NEW rank, NEW bound, NEW step,
         Recurring(V, S, rank, bound, step)
  PROVE  Recursive(V, S, step)
<1>0. /\ rank \in [V -> Nat] /\ bound \in Nat /\ \A x \in V : rank[x] <= bound
      /\ step \in [V \X [V -> S] -> S]
      /\ \A x \in V : \A g, h \in [V -> S] :
           (\A y \in V : rank[y] < rank[x] => g[y] = h[y])
             => step[<<x, g>>] = step[<<x, h>>]
  BY DEF Recurring
<1> USE <1>0
<1> DEFINE Upto(n, f) == \A x \in V : rank[x] < n => f[x] = step[<<x, f>>]
           T == {n \in Nat : \E f \in [V -> S] : Upto(n, f)}
<1>1. 0 \in T
  <2>1. [x \in V |-> s0] \in [V -> S]
    OBVIOUS
  <2>2. Upto(0, [x \in V |-> s0])
    OBVIOUS
  <2> QED
    BY <2>1, <2>2
<1>2. ASSUME NEW n \in T PROVE n + 1 \in T
  <2>1. PICK f \in [V -> S] : Upto(n, f)
    OBVIOUS
  <2> DEFINE g == [x \in V |-> IF rank[x] < n THEN f[x] ELSE step[<<x, f>>]]
  <2>2. \A x \in V : <<x, f>> \in V \X [V -> S]
    OBVIOUS
  <2>3. g \in [V -> S]
    BY <2>2
  <2>4. \A x \in V : g[x] = step[<<x, f>>]
    BY <2>1
  <2>5. \A x \in V : rank[x] < n => g[x] = f[x]
    OBVIOUS
  <2>6. ASSUME NEW x \in V, rank[x] < n + 1 PROVE g[x] = step[<<x, g>>]
    <3>1. \A y \in V : rank[y] < rank[x] => f[y] = g[y]
      <4> TAKE y \in V
      <4>1. rank[y] \in Nat /\ rank[x] \in Nat /\ n \in Nat
        OBVIOUS
      <4> QED
        BY <4>1, <2>5, <2>6
    <3> HIDE DEF g
    <3> QED
      BY <3>1, <2>3, <2>4
  <2> HIDE DEF g
  <2>7. Upto(n + 1, g)
    BY <2>6
  <2> QED
    BY <2>3, <2>7
<1> HIDE DEF T
<1>3. T \subseteq Nat
  BY DEF T
<1>4. T = Nat
  BY <1>1, <1>2, <1>3, AllNaturals
<1>5. PICK f \in [V -> S] : Upto(bound + 1, f)
  <2>1. bound + 1 \in T
    BY <1>4
  <2> QED
    BY <2>1 DEF T
<1>6. \A x \in V : rank[x] < bound + 1
  OBVIOUS
<1> QED
  BY <1>5, <1>6 DEF Recursive

-----------------------------------------------------------------------------
(***************************************************************************)
(* Trees.  N is the set of nodes of the tree t, sub gives the nodes below  *)
(* each node, itself included, and up the father.                          *)
(***************************************************************************)
Sides == {"left", "right"}

Stores == UNION {[D -> Node] : D \in SUBSET Blocks}

TreeType == [node : Stores, root : Blocks \cup {NULL}, top : Nat]

Rooted(t, N, sub, up) ==
  /\ t \in TreeType /\ N \subseteq DOMAIN t.node /\ IsFiniteSet(N)
  /\ t.root \in N \cup {NULL}
  /\ sub \in [N \cup {NULL} -> SUBSET N] /\ up \in [N -> N \cup {NULL}]
  /\ sub[NULL] = {} /\ sub[t.root] = N

Branching(t, N, sub) ==
  \A x \in N :
    /\ t.node[x].left \in N \cup {NULL} /\ t.node[x].right \in N \cup {NULL}
    /\ sub[x] = {x} \cup sub[t.node[x].left] \cup sub[t.node[x].right]
    /\ x \notin sub[t.node[x].left] /\ x \notin sub[t.node[x].right]
    /\ sub[t.node[x].left] \cap sub[t.node[x].right] = {}

Fathered(t, N, up) ==
  \A x \in N :
    /\ t.node[x].left # NULL => up[t.node[x].left] = x
    /\ t.node[x].right # NULL => up[t.node[x].right] = x
    /\ x = t.root => up[x] = NULL
    /\ x # t.root => /\ up[x] \in N
                     /\ t.node[up[x]].left = x \/ t.node[up[x]].right = x

Sized(t, N, sub) == \A x \in N : t.node[x].size = Cardinality(sub[x])

Ordered(t, N, sub) ==
  \A x \in N :
    /\ \A y \in sub[t.node[x].left] : t.node[y].key < t.node[x].key
    /\ \A y \in sub[t.node[x].right] : t.node[x].key < t.node[y].key

Hashed(t, N) ==
  /\ \A x \in N : t.node[x].hash <= t.top
  /\ \A x, y \in N : x # y => t.node[x].hash # t.node[y].hash

Tree(t, N, sub, up) ==
  /\ Rooted(t, N, sub, up)
  /\ Branching(t, N, sub)
  /\ Fathered(t, N, up)
  /\ Sized(t, N, sub)
  /\ Ordered(t, N, sub)
  /\ Hashed(t, N)

\* What the shape of a tree variable says of its blocks.
LEMMA StoreType ==
  ASSUME NEW t \in TreeType
  PROVE  /\ t.node \in [DOMAIN t.node -> Node] /\ DOMAIN t.node \subseteq Blocks
         /\ t.root \in Blocks \cup {NULL} /\ t.top \in Nat
         /\ NULL \notin DOMAIN t.node
<1>1. t.node \in Stores /\ t.root \in Blocks \cup {NULL} /\ t.top \in Nat
  BY DEF TreeType
<1>2. PICK D \in SUBSET Blocks : t.node \in [D -> Node]
  BY <1>1 DEF Stores
<1> QED
  BY <1>1, <1>2, ConstAssumption

\* A function from some blocks to nodes is a store.
LEMMA IsStore ==
  ASSUME NEW D \in SUBSET Blocks, NEW f \in [D -> Node]
  PROVE  f \in Stores /\ DOMAIN f = D
  BY DEF Stores

\* A tree and what is known about any node of it.
LEMMA NodeType ==
  ASSUME NEW t, NEW N, NEW sub, NEW up, Tree(t, N, sub, up), NEW x \in N
  PROVE  /\ t \in TreeType /\ x \in DOMAIN t.node /\ x # NULL /\ x \in Blocks
         /\ t.node[x] \in Node /\ t.node[x].key \in Int /\ t.node[x].size \in Nat
         /\ x \in sub[x] /\ sub[x] \subseteq N /\ IsFiniteSet(sub[x])
         /\ Cardinality(sub[x]) \in Nat
<1>1. t \in TreeType /\ x \in DOMAIN t.node
  BY DEF Tree, Rooted
<1>2. t.node[x] \in Node /\ x # NULL /\ x \in Blocks
  BY <1>1, StoreType
<1>3. t.node[x].key \in Int /\ t.node[x].size \in Nat
  BY <1>2, ConstAssumption DEF Node
<1>4. x \in sub[x] /\ sub[x] \subseteq N
  BY DEF Tree, Branching, Rooted
<1>5. IsFiniteSet(sub[x]) /\ Cardinality(sub[x]) \in Nat
  BY <1>4, FS_Subset, FS_CardinalityType DEF Tree, Rooted
<1> QED
  BY <1>1, <1>2, <1>3, <1>4, <1>5

\* adapt: the size of a node comes from those of its sons.
LEMMA SizesAdd ==
  ASSUME NEW t, NEW N, NEW sub, NEW up, Tree(t, N, sub, up), NEW x \in N
  PROVE  /\ SizeOf(t, t.node[x].left) = Cardinality(sub[t.node[x].left])
         /\ SizeOf(t, t.node[x].right) = Cardinality(sub[t.node[x].right])
         /\ SizeOf(t, t.node[x].left) \in Nat /\ SizeOf(t, t.node[x].right) \in Nat
         /\ t.node[x].size = SizeOf(t, t.node[x].left) + SizeOf(t, t.node[x].right) + 1
<1> DEFINE l == t.node[x].left
           r == t.node[x].right
<1>1. l \in N \cup {NULL} /\ r \in N \cup {NULL}
  BY DEF Tree, Branching
<1>2. \A y \in N \cup {NULL} :
        /\ SizeOf(t, y) = Cardinality(sub[y]) /\ SizeOf(t, y) \in Nat
        /\ IsFiniteSet(sub[y])
  <2> TAKE y \in N \cup {NULL}
  <2>1. CASE y = NULL
    BY <2>1, FS_EmptySet DEF SizeOf, Tree, Rooted
  <2>2. CASE y # NULL
    BY <2>2, NodeType DEF SizeOf, Tree, Sized
  <2> QED
    BY <2>1, <2>2
<1>3. Cardinality(sub[l] \cup sub[r]) = Cardinality(sub[l]) + Cardinality(sub[r])
  <2>1. sub[l] \cap sub[r] = {}
    BY DEF Tree, Branching
  <2>2. Cardinality(sub[l] \cap sub[r]) = 0
    BY <2>1, FS_EmptySet
  <2> HIDE DEF l, r
  <2>3. IsFiniteSet(sub[l]) /\ IsFiniteSet(sub[r])
    BY <1>1, <1>2
  <2>4. Cardinality(sub[l] \cup sub[r])
          = Cardinality(sub[l]) + Cardinality(sub[r]) - Cardinality(sub[l] \cap sub[r])
    BY <2>3, FS_Union
  <2>5. Cardinality(sub[l]) \in Nat /\ Cardinality(sub[r]) \in Nat
    BY <2>3, FS_CardinalityType
  <2> QED
    BY <2>2, <2>4, <2>5
<1>4. IsFiniteSet(sub[l] \cup sub[r])
  <2> HIDE DEF l, r
  <2> QED
    BY <1>1, <1>2, FS_Union
<1>5. Cardinality(sub[x]) = Cardinality(sub[l] \cup sub[r]) + 1
  <2>1. sub[x] = (sub[l] \cup sub[r]) \cup {x} /\ x \notin sub[l] \cup sub[r]
    BY DEF Tree, Branching
  <2> HIDE DEF l, r
  <2> QED
    BY <2>1, <1>4, FS_AddElement
<1>6. t.node[x].size = Cardinality(sub[x])
  BY DEF Tree, Sized
<1> HIDE DEF l, r
<1>7. t.node[x].size = SizeOf(t, l) + SizeOf(t, r) + 1
  BY <1>1, <1>2, <1>3, <1>5, <1>6
<1> QED
  BY <1>1, <1>2, <1>7 DEF l, r

\* Bottom up: what holds of a node whenever it holds of its sons.
LEMMA UpwardInduction ==
  ASSUME NEW t, NEW N, NEW sub, NEW up, Tree(t, N, sub, up), NEW T,
         \A x \in N : (t.node[x].left \in T \cup {NULL} /\ t.node[x].right \in T \cup {NULL})
                        => x \in T
  PROVE  N \subseteq T
<1> SUFFICES ASSUME N \ T # {} PROVE FALSE
  OBVIOUS
<1> DEFINE S == {t.node[x].size : x \in N \ T}
<1>1. S \subseteq Nat /\ S # {}
  BY NodeType
<1>2. PICK x \in N \ T : \A y \in N \ T : t.node[x].size <= t.node[y].size
  <2>1. PICK n \in S : \A k \in S : n <= k
    <3> HIDE DEF S
    <3> QED
      BY <1>1, LeastExists
  <2> QED
    BY <2>1
<1>3. ASSUME NEW y \in N, y = t.node[x].left \/ y = t.node[x].right PROVE y \in T
  <2>1. SizeOf(t, y) = t.node[y].size
    BY NodeType DEF SizeOf
  <2>2. t.node[y].size < t.node[x].size
    BY <1>3, <2>1, SizesAdd
  <2> QED
    BY <1>2, <2>2, NodeType
<1>4. t.node[x].left \in N \cup {NULL} /\ t.node[x].right \in N \cup {NULL}
  BY DEF Tree, Branching
<1> QED
  BY <1>2, <1>3, <1>4

\* Top down: what holds of the root, and of a node whenever of its father.
LEMMA DownwardInduction ==
  ASSUME NEW t, NEW N, NEW sub, NEW up, Tree(t, N, sub, up), NEW T,
         t.root \in T \cup {NULL},
         \A x \in N : x # t.root /\ up[x] \in T => x \in T
  PROVE  N \subseteq T
<1> SUFFICES ASSUME N \ T # {} PROVE FALSE
  OBVIOUS
<1> DEFINE C == Cardinality(N)
           S == {C - t.node[x].size : x \in N \ T}
<1>1. C \in Nat /\ \A x \in N : C - t.node[x].size \in Nat /\ t.node[x].size \in Nat
  <2>1. IsFiniteSet(N) /\ C \in Nat
    BY FS_CardinalityType DEF Tree, Rooted
  <2>2. \A x \in N : Cardinality(sub[x]) <= C /\ t.node[x].size = Cardinality(sub[x])
    BY <2>1, NodeType, FS_Subset DEF Tree, Sized
  <2> QED
    BY <2>1, <2>2, NodeType
<1>2. PICK x \in N \ T : \A y \in N \ T : C - t.node[x].size <= C - t.node[y].size
  <2>1. S \subseteq Nat /\ S # {}
    BY <1>1
  <2>2. PICK n \in S : \A k \in S : n <= k
    <3> HIDE DEF S
    <3> QED
      BY <2>1, LeastExists
  <2> QED
    BY <2>2
<1>3. x # t.root
  BY NodeType
<1>4. up[x] \in N /\ (t.node[up[x]].left = x \/ t.node[up[x]].right = x)
  BY <1>3 DEF Tree, Fathered
<1>5. t.node[x].size < t.node[up[x]].size
  <2>1. SizeOf(t, x) = t.node[x].size
    BY NodeType DEF SizeOf
  <2> QED
    BY <1>4, <2>1, SizesAdd
<1>6. up[x] \in T
  BY <1>1, <1>2, <1>4, <1>5
<1> QED
  BY <1>3, <1>6
\* What is below a node below x is below x.
LEMMA Transitive ==
  ASSUME NEW t, NEW N, NEW sub, NEW up, Tree(t, N, sub, up), NEW x \in N, NEW y \in sub[x]
  PROVE  sub[y] \subseteq sub[x]
<1> DEFINE T == {z \in N : \A w \in sub[z] : sub[w] \subseteq sub[z]}
<1>1. ASSUME NEW z \in N, t.node[z].left \in T \cup {NULL}, t.node[z].right \in T \cup {NULL}
      PROVE  z \in T
  <2>1. sub[z] = {z} \cup sub[t.node[z].left] \cup sub[t.node[z].right]
    BY DEF Tree, Branching
  <2>2. ASSUME NEW c \in T \cup {NULL}, NEW w \in sub[c] PROVE sub[w] \subseteq sub[c]
    BY <2>2 DEF Tree, Rooted
  <2> QED
    BY <1>1, <2>1, <2>2
<1>2. N \subseteq T
  <2> HIDE DEF T
  <2> QED
    BY <1>1, UpwardInduction
<1> QED
  BY <1>2

\* Two nodes below each other are one.
LEMMA Antisymmetric ==
  ASSUME NEW t, NEW N, NEW sub, NEW up, Tree(t, N, sub, up),
         NEW x \in N, NEW y \in N, x \in sub[y], y \in sub[x]
  PROVE  x = y
<1> SUFFICES ASSUME x # y PROVE FALSE
  OBVIOUS
<1>1. sub[x] = {x} \cup sub[t.node[x].left] \cup sub[t.node[x].right]
      /\ x \notin sub[t.node[x].left] /\ x \notin sub[t.node[x].right]
      /\ t.node[x].left \in N \cup {NULL} /\ t.node[x].right \in N \cup {NULL}
  BY DEF Tree, Branching
<1>2. ASSUME NEW c \in N \cup {NULL}, y \in sub[c] PROVE x \in sub[c]
  <2>1. c \in N
    BY <1>2 DEF Tree, Rooted
  <2> QED
    BY <1>2, <2>1, Transitive
<1> QED
  BY <1>1, <1>2

\* The father of a node that is strictly below x is below x.
LEMMA FatherBelow ==
  ASSUME NEW t, NEW N, NEW sub, NEW up, Tree(t, N, sub, up),
         NEW x \in N, NEW y \in sub[x], y # x
  PROVE  up[y] \in sub[x] /\ y # t.root
<1> DEFINE T == {z \in N : \A w \in sub[z] : w # z => up[w] \in sub[z]}
<1>1. ASSUME NEW z \in N, t.node[z].left \in T \cup {NULL}, t.node[z].right \in T \cup {NULL}
      PROVE  z \in T
  <2>1. sub[z] = {z} \cup sub[t.node[z].left] \cup sub[t.node[z].right]
    BY DEF Tree, Branching
  <2>2. ASSUME NEW c \in T \cup {NULL}, NEW w \in sub[c], c # NULL => up[c] = z
        PROVE  up[w] \in sub[c] \cup {z}
    BY <2>2 DEF Tree, Rooted
  <2>3. ASSUME NEW c, c = t.node[z].left \/ c = t.node[z].right
        PROVE  c # NULL => up[c] = z
    BY <2>3 DEF Tree, Fathered
  <2> QED
    BY <1>1, <2>1, <2>2, <2>3
<1>2. N \subseteq T
  <2> HIDE DEF T
  <2> QED
    BY <1>1, UpwardInduction
<1>3. y \in N
  BY NodeType
<1>4. y # t.root
  <2> SUFFICES ASSUME y = t.root PROVE FALSE
    OBVIOUS
  <2>1. x \in sub[y]
    BY DEF Tree, Rooted
  <2> QED
    BY <1>3, <2>1, Antisymmetric
<1> QED
  BY <1>2, <1>4

\* What is below x and not x is below one of its sons.
LEMMA BelowSon ==
  ASSUME NEW t, NEW N, NEW sub, NEW up, Tree(t, N, sub, up),
         NEW x \in N, NEW c \in N, t.node[x].left = c \/ t.node[x].right = c
  PROVE  /\ up[c] = x /\ sub[c] \subseteq sub[x] \ {x} /\ c # x /\ c # t.root
         /\ t.node[c].size < t.node[x].size
<1>1. c # NULL /\ c \in sub[c]
  BY NodeType
<1>2. up[c] = x
  BY <1>1 DEF Tree, Fathered
<1>3. sub[c] \subseteq sub[x] /\ x \notin sub[c]
  BY DEF Tree, Branching
<1>4. c # t.root
  BY <1>1, <1>3, FatherBelow
<1>5. t.node[c].size < t.node[x].size
  <2>1. SizeOf(t, c) = t.node[c].size
    BY <1>1 DEF SizeOf
  <2> QED
    BY <2>1, SizesAdd
<1> QED
  BY <1>1, <1>2, <1>3, <1>4, <1>5

\* A key is in a search tree once.
LEMMA KeysDiffer ==
  ASSUME NEW t, NEW N, NEW sub, NEW up, Tree(t, N, sub, up),
         NEW x \in N, NEW y \in N, t.node[x].key = t.node[y].key
  PROVE  x = y
<1> DEFINE T == {z \in N : \A v, w \in sub[z] : t.node[v].key = t.node[w].key => v = w}
<1>1. ASSUME NEW z \in N, t.node[z].left \in T \cup {NULL}, t.node[z].right \in T \cup {NULL}
      PROVE  z \in T
  <2> DEFINE l == t.node[z].left
             r == t.node[z].right
  <2>1. sub[z] = {z} \cup sub[l] \cup sub[r] /\ sub[z] \subseteq N
    BY NodeType DEF Tree, Branching
  <2>2. \A v \in sub[l] : t.node[v].key < t.node[z].key
    BY DEF Tree, Ordered
  <2>3. \A v \in sub[r] : t.node[z].key < t.node[v].key
    BY DEF Tree, Ordered
  <2>4. \A v, w \in sub[l] : t.node[v].key = t.node[w].key => v = w
    BY <1>1 DEF Tree, Rooted
  <2>5. \A v, w \in sub[r] : t.node[v].key = t.node[w].key => v = w
    BY <1>1 DEF Tree, Rooted
  <2>6. \A v \in sub[z] : t.node[v].key \in Int
    BY <2>1, NodeType
  <2> HIDE DEF l, r
  <2>7. ASSUME NEW v \in sub[z], NEW w \in sub[z], t.node[v].key = t.node[w].key PROVE v = w
    <3>1. CASE v \in sub[l] /\ w \in sub[l]
      BY <3>1, <2>7, <2>4
    <3>2. CASE v \in sub[r] /\ w \in sub[r]
      BY <3>2, <2>7, <2>5
    <3>3. CASE v = z /\ w = z
      BY <3>3
    <3>4. CASE ~(v \in sub[l] /\ w \in sub[l]) /\ ~(v \in sub[r] /\ w \in sub[r]) /\ ~(v = z /\ w = z)
      <4> HIDE <1>1
      <4>1. z \in sub[z]
        BY <2>1
      <4>2. t.node[v].key \in Int /\ t.node[w].key \in Int /\ t.node[z].key \in Int
        BY <2>6, <4>1
      <4>3. t.node[v].key < t.node[z].key \/ t.node[v].key > t.node[z].key \/ v = z
        BY <2>1, <2>2, <2>3
      <4>4. t.node[w].key < t.node[z].key \/ t.node[w].key > t.node[z].key \/ w = z
        BY <2>1, <2>2, <2>3
      <4> QED
        BY <2>7, <3>4, <2>1, <2>2, <2>3, <4>2
    <3> QED
      BY <3>1, <3>2, <3>3, <3>4
  <2> QED
    BY <2>7
<1>2. N \subseteq T
  <2> HIDE DEF T
  <2> QED
    BY <1>1, UpwardInduction
<1>3. t.root \in N /\ sub[t.root] = N
  BY DEF Tree, Rooted
<1> QED
  BY <1>2, <1>3
-----------------------------------------------------------------------------
(***************************************************************************)
(* Walks.                                                                  *)
(***************************************************************************)
LEMMA WalkIs ==
  ASSUME NEW go, NULL \notin DOMAIN go, NEW x, NEW S \in SUBSET DOMAIN go,
         x \in S \cup {NULL}, \A z \in S : go[z] \in S \cup {NULL}
  PROVE  /\ Walk(go, x) \subseteq S
         /\ x \in Walk(go, x) \cup {NULL}
         /\ \A z \in Walk(go, x) : go[z] \in Walk(go, x) \cup {NULL}
         /\ \A z \in Walk(go, x) : z # x => \E w \in Walk(go, x) : go[w] = z
         /\ \A R : x \in R \cup {NULL} /\ (\A z \in R \cap Walk(go, x) : go[z] \in R \cup {NULL})
                   => Walk(go, x) \subseteq R
<1> DEFINE W == Walk(go, x)
           Closed(R) == x \in R \cup {NULL} /\ \A z \in R : go[z] \in R \cup {NULL}
<1>1. \A y : y \in W <=> y \in DOMAIN go /\ \A R \in SUBSET DOMAIN go : Closed(R) => y \in R
  BY DEF Walk
<1> HIDE DEF W
<1>2. W \subseteq S
  BY <1>1
<1>3. x \in W \cup {NULL}
  BY <1>1
<1>4. ASSUME NEW z \in W PROVE go[z] \in W \cup {NULL}
  <2>1. z \in S /\ go[z] \in S \cup {NULL}
    BY <1>2
  <2>2. ASSUME NEW R \in SUBSET DOMAIN go, Closed(R), go[z] # NULL PROVE go[z] \in R
    BY <1>1, <2>2
  <2> QED
    BY <1>1, <2>1, <2>2
<1>5. ASSUME NEW R, x \in R \cup {NULL}, \A z \in R \cap W : go[z] \in R \cup {NULL}
      PROVE  W \subseteq R
  <2>1. R \cap W \in SUBSET DOMAIN go
    BY <1>2
  <2>2. Closed(R \cap W)
    BY <1>3, <1>4, <1>5
  <2> QED
    BY <1>1, <2>1, <2>2
<1>6. ASSUME NEW z \in W, z # x, \A w \in W : go[w] # z PROVE FALSE
  <2>1. W \subseteq W \ {z}
    <3>1. x \in (W \ {z}) \cup {NULL}
      BY <1>3, <1>6
    <3>2. \A w \in (W \ {z}) \cap W : go[w] \in (W \ {z}) \cup {NULL}
      BY <1>4, <1>6
    <3> QED
      BY <1>5, <3>1, <3>2
  <2> QED
    BY <2>1
<1> QED
  BY <1>2, <1>3, <1>4, <1>5, <1>6 DEF W

\* A walk in a tree goes down from s; what it passes is what lies above its end.
Descending(t, N, go) ==
  /\ DOMAIN go = DOMAIN t.node
  /\ \A z \in N : go[z] \in {t.node[z].left, t.node[z].right, NULL}

\* A walk stays below its start, and comes to each node from its father.
LEMMA WalkDown ==
  ASSUME NEW t, NEW N, NEW sub, NEW up, Tree(t, N, sub, up),
         NEW go, Descending(t, N, go), NEW s \in N
  PROVE  /\ s \in Walk(go, s) /\ Walk(go, s) \subseteq sub[s]
         /\ \A z \in Walk(go, s) : go[z] \in Walk(go, s) \cup {NULL}
         /\ \A z \in Walk(go, s) : z # s => up[z] \in Walk(go, s) /\ go[up[z]] = z
         /\ \A R : s \in R /\ (\A z \in R \cap Walk(go, s) : go[z] \in R \cup {NULL})
                   => Walk(go, s) \subseteq R
<1>1. s \in sub[s] /\ sub[s] \subseteq N /\ N \subseteq DOMAIN go /\ s # NULL /\ NULL \notin DOMAIN go
  <2>1. s \in sub[s] /\ sub[s] \subseteq N /\ s # NULL /\ t \in TreeType
    BY NodeType
  <2>2. N \subseteq DOMAIN t.node /\ DOMAIN go = DOMAIN t.node
    BY DEF Descending, Tree, Rooted
  <2>3. NULL \notin DOMAIN t.node
    BY <2>1, StoreType
  <2> QED
    BY <2>1, <2>2, <2>3
<1>2. ASSUME NEW z \in sub[s], go[z] # NULL PROVE go[z] \in sub[s] /\ up[go[z]] = z
  <2>1. z \in N /\ go[z] \in {t.node[z].left, t.node[z].right}
    BY <1>1, <1>2 DEF Descending
  <2>2. go[z] \in N
    BY <2>1, <1>2 DEF Tree, Branching
  <2>3. up[go[z]] = z /\ sub[go[z]] \subseteq sub[z] /\ go[z] \in sub[go[z]]
    BY <2>1, <2>2, BelowSon, NodeType
  <2> QED
    BY <2>1, <2>3, Transitive
<1>3. sub[s] \in SUBSET DOMAIN go
  BY <1>1
<1>4. \A z \in sub[s] : go[z] \in sub[s] \cup {NULL}
  BY <1>2
<1>5. /\ Walk(go, s) \subseteq sub[s]
      /\ s \in Walk(go, s) \cup {NULL}
      /\ \A z \in Walk(go, s) : go[z] \in Walk(go, s) \cup {NULL}
      /\ \A z \in Walk(go, s) : z # s => \E w \in Walk(go, s) : go[w] = z
      /\ \A R : s \in R \cup {NULL} /\ (\A z \in R \cap Walk(go, s) : go[z] \in R \cup {NULL})
                => Walk(go, s) \subseteq R
  BY <1>1, <1>3, <1>4, WalkIs
<1>6. ASSUME NEW z \in Walk(go, s), z # s PROVE up[z] \in Walk(go, s) /\ go[up[z]] = z
  <2>1. PICK w \in Walk(go, s) : go[w] = z
    BY <1>5, <1>6
  <2>2. z # NULL /\ w \in sub[s]
    BY <1>1, <1>5
  <2> QED
    BY <1>2, <2>1, <2>2
<1> QED
  BY <1>1, <1>5, <1>6

\* Every walk comes to an end.
LEMMA WalkEnds ==
  ASSUME NEW t, NEW N, NEW sub, NEW up, Tree(t, N, sub, up),
         NEW go, Descending(t, N, go), NEW s \in N
  PROVE  \E last \in Walk(go, s) : go[last] = NULL
<1> DEFINE W == Walk(go, s)
           S == {t.node[x].size : x \in W}
<1>1. s \in W /\ W \subseteq N /\ \A z \in W : go[z] \in W \cup {NULL}
  BY WalkDown, NodeType
<1> HIDE DEF W
<1>2. S \subseteq Nat /\ S # {}
  BY <1>1, NodeType
<1>3. PICK x \in W : \A y \in W : t.node[x].size <= t.node[y].size
  <2>1. PICK n \in S : \A k \in S : n <= k
    <3> HIDE DEF S
    <3> QED
      BY <1>2, LeastExists
  <2> QED
    BY <2>1
<1>4. SUFFICES ASSUME go[x] # NULL PROVE FALSE
  BY <1>1 DEF W
<1>5. go[x] \in W /\ x \in N /\ go[x] \in N
  BY <1>1, <1>4
<1>6. t.node[go[x]].size < t.node[x].size
  BY <1>4, <1>5, BelowSon DEF Descending
<1> QED
  BY <1>3, <1>5, <1>6, NodeType

\* Of the nodes of a walk, the ones below z are below the next one.
LEMMA WalkNarrows ==
  ASSUME NEW t, NEW N, NEW sub, NEW up, Tree(t, N, sub, up),
         NEW go, Descending(t, N, go), NEW s \in N,
         NEW z \in Walk(go, s), NEW w \in Walk(go, s), w \in sub[z], w # z
  PROVE  go[z] \in N /\ w \in sub[go[z]]
<1> DEFINE W == Walk(go, s)
           R == {v \in W : \A y \in W : v \in sub[y] /\ v # y => go[y] \in N /\ v \in sub[go[y]]}
<1>1. /\ s \in W /\ W \subseteq sub[s] /\ W \subseteq N
      /\ \A y \in W : go[y] \in W \cup {NULL}
      /\ \A y \in W : y # s => up[y] \in W /\ go[up[y]] = y
  BY WalkDown, NodeType
<1> HIDE DEF W
<1>2. s \in R
  BY <1>1, Antisymmetric
<1>3. ASSUME NEW v \in R, go[v] # NULL PROVE go[v] \in R
  <2>1. v \in W /\ go[v] \in W /\ go[v] \in N /\ v \in N
    BY <1>1, <1>3
  <2>2. up[go[v]] = v /\ go[v] \in sub[v] /\ go[v] \in sub[go[v]]
    BY <1>3, <2>1, BelowSon, NodeType DEF Descending
  <2>3. ASSUME NEW y \in W, go[v] \in sub[y], go[v] # y
        PROVE  go[y] \in N /\ go[v] \in sub[go[y]]
    <3>1. y \in N /\ v \in sub[y]
      BY <1>1, <2>2, <2>3, FatherBelow
    <3>2. CASE v = y
      BY <3>2, <2>1, <2>2
    <3>3. CASE v # y
      <4>1. go[y] \in N /\ v \in sub[go[y]]
        BY <3>1, <3>3
      <4> QED
        BY <4>1, <2>2, Transitive
    <3> QED
      BY <3>2, <3>3
  <2> QED
    BY <2>1, <2>3
<1>4. W \subseteq R
  <2>1. \A y \in R \cap W : go[y] \in R \cup {NULL}
    BY <1>3
  <2> HIDE DEF R
  <2> QED
    BY <1>2, <2>1, WalkDown DEF W
<1> QED
  BY <1>4 DEF W

\* A walk passes the nodes above its end, and no others below its start.
LEMMA WalkIsAbove ==
  ASSUME NEW t, NEW N, NEW sub, NEW up, Tree(t, N, sub, up),
         NEW go, Descending(t, N, go), NEW s \in N
  PROVE  /\ LastOf(go, Walk(go, s)) \in Walk(go, s) /\ go[LastOf(go, Walk(go, s))] = NULL
         /\ \A z \in Walk(go, s) : go[z] = NULL => z = LastOf(go, Walk(go, s))
         /\ \A z \in sub[s] : z \in Walk(go, s) <=> LastOf(go, Walk(go, s)) \in sub[z]
<1> DEFINE W == Walk(go, s)
           last == LastOf(go, W)
<1>1. last \in W /\ go[last] = NULL
  BY WalkEnds DEF LastOf
<1>2. /\ s \in W /\ W \subseteq sub[s] /\ W \subseteq N /\ sub[s] \subseteq N
      /\ \A y \in W : go[y] \in W \cup {NULL}
      /\ \A y \in W : y # s => up[y] \in W /\ go[up[y]] = y
  BY WalkDown, NodeType
<1> HIDE DEF W, last
<1>3. \A z \in W : last \in sub[z]
  <2> DEFINE R == {z \in W : last \in sub[z]}
  <2>1. s \in R
    BY <1>1, <1>2
  <2>2. \A z \in R \cap W : go[z] \in R \cup {NULL}
    BY <1>1, <1>2, WalkNarrows DEF W
  <2>3. W \subseteq R
    <3> HIDE DEF R
    <3> QED
      BY <2>1, <2>2, WalkDown DEF W
  <2> QED
    BY <2>3
<1>4. ASSUME NEW z \in W, go[z] = NULL PROVE z = last
  <2> SUFFICES ASSUME z # last PROVE FALSE
    OBVIOUS
  <2>1. go[z] \in N
    BY <1>1, <1>3, WalkNarrows DEF W
  <2> QED
    BY <1>4, <2>1, NodeType
<1>5. ASSUME NEW z \in sub[s], last \in sub[z] PROVE z \in W
  <2> DEFINE T == {y \in N : y \in sub[s] /\ last \in sub[y] => y \in W}
  <2>1. t.root \in T \cup {NULL}
    <3>1. CASE t.root = s
      BY <1>2, <3>1
    <3>2. CASE t.root # s
      <4>1. t.root \notin sub[s]
        BY <3>2, FatherBelow
      <4>2. t.root \in N \cup {NULL}
        BY DEF Tree, Rooted
      <4> QED
        BY <4>1, <4>2
    <3> QED
      BY <3>1, <3>2
  <2>2. ASSUME NEW y \in N, y # t.root, up[y] \in T PROVE y \in T
    <3> SUFFICES ASSUME y \in sub[s], last \in sub[y], y # s PROVE y \in W
      BY <1>2
    <3> DEFINE f == up[y]
    <3>1. f \in N /\ (t.node[f].left = y \/ t.node[f].right = y)
      BY <2>2 DEF Tree, Fathered
    <3>2. f \in sub[s]
      BY FatherBelow
    <3>3. sub[y] \subseteq sub[f] \ {f}
      BY <3>1, BelowSon
    <3>4. f \in W /\ last # f /\ last \in sub[f]
      BY <2>2, <3>2, <3>3
    <3>5. go[f] \in N /\ last \in sub[go[f]]
      BY <3>4, <1>1, WalkNarrows DEF W
    <3>6. go[f] = t.node[f].left \/ go[f] = t.node[f].right
      BY <3>1, <3>5, NodeType DEF Descending
    <3>7. go[f] = y
      BY <3>1, <3>5, <3>6 DEF Tree, Branching
    <3> QED
      BY <3>4, <3>7, <1>2, NodeType
  <2>3. N \subseteq T
    <3> HIDE DEF T
    <3> QED
      BY <2>1, <2>2, DownwardInduction
  <2> QED
    BY <1>2, <1>5, <2>3
<1> QED
  BY <1>1, <1>3, <1>4, <1>5 DEF W, last

\* The node from which a walk comes to z is the father of z.
LEMMA FatherIs ==
  ASSUME NEW t, NEW N, NEW sub, NEW up, Tree(t, N, sub, up),
         NEW go, Descending(t, N, go), NEW s \in N, NEW z \in Walk(go, s)
  PROVE  Father(go, Walk(go, s), z) = IF z = s THEN NULL ELSE up[z]
<1> DEFINE W == Walk(go, s)
<1>1. /\ W \subseteq N /\ W \subseteq sub[s] /\ z \in N
      /\ \A y \in W : y # s => up[y] \in W /\ go[up[y]] = y
  BY WalkDown, NodeType
<1>2. \A w \in W : go[w] = z => up[z] = w /\ z # s
  <2> TAKE w \in W
  <2> HAVE go[w] = z
  <2>1. up[z] = w /\ sub[z] \subseteq sub[w] \ {w} /\ z \in sub[z] /\ w \in sub[s]
    BY <1>1, BelowSon, NodeType DEF Descending
  <2> QED
    BY <2>1
<1> HIDE DEF W
<1>3. CASE z = s
  BY <1>2, <1>3 DEF Father, W
<1>4. CASE z # s
  BY <1>1, <1>2, <1>4 DEF Father, W
<1> QED
  BY <1>3, <1>4
-----------------------------------------------------------------------------
(***************************************************************************)
(* Find.                                                                   *)
(***************************************************************************)
LEMMA SearchDescends ==
  ASSUME NEW t, NEW N, NEW sub, NEW up, Tree(t, N, sub, up), NEW k
  PROVE  Descending(t, N, SearchSon(t, k))
  BY DEF Tree, Rooted, Descending, SearchSon

\* The search for the key of x ends at x, past all nodes above it.
LEMMA SearchReaches ==
  ASSUME NEW t, NEW N, NEW sub, NEW up, Tree(t, N, sub, up), NEW x \in N
  PROVE  LET k == t.node[x].key
             way == SearchWay(t, k)
         IN /\ x \in way /\ t.root \in N
            /\ \A z \in N : z \in way <=> x \in sub[z]
            /\ \A z \in way : (SearchSon(t, k)[z] = NULL) <=> (z = x)
<1> DEFINE k == t.node[x].key
           go == SearchSon(t, k)
           W == Walk(go, t.root)
           last == LastOf(go, W)
<1>1. Descending(t, N, go)
  BY SearchDescends
<1>2. t.root \in N /\ sub[t.root] = N
  BY DEF Tree, Rooted
<1>3. t.root \in W /\ W \subseteq N /\ \A z \in W : go[z] \in W \cup {NULL}
  <2> HIDE DEF go
  <2> QED
    BY <1>1, <1>2, WalkDown
<1>4. ASSUME NEW z \in N, x \in sub[z], z # x PROVE go[z] \in N /\ x \in sub[go[z]]
  <2>1. t.node[z].key # k
    BY <1>4, KeysDiffer
  <2>2. z \in DOMAIN t.node
    BY NodeType
  <2>3. go[z] = t.node[z][IF t.node[z].key < k THEN "right" ELSE "left"]
    BY <2>1, <2>2 DEF SearchSon
  <2>4. sub[z] = {z} \cup sub[t.node[z].left] \cup sub[t.node[z].right]
        /\ t.node[z].left \in N \cup {NULL} /\ t.node[z].right \in N \cup {NULL}
    BY DEF Tree, Branching
  <2>5. t.node[z].key \in Int /\ k \in Int
    BY NodeType
  <2>6. CASE x \in sub[t.node[z].left]
    <3>1. k < t.node[z].key
      BY <2>6 DEF Tree, Ordered
    <3>2. go[z] = t.node[z].left
      BY <2>3, <2>5, <3>1
    <3> QED
      BY <2>4, <2>6, <3>2 DEF Tree, Rooted
  <2>7. CASE x \in sub[t.node[z].right]
    <3>1. t.node[z].key < k
      BY <2>7 DEF Tree, Ordered
    <3>2. go[z] = t.node[z].right
      BY <2>3, <2>5, <3>1
    <3> QED
      BY <2>4, <2>7, <3>2 DEF Tree, Rooted
  <2> QED
    BY <1>4, <2>4, <2>6, <2>7
<1>5. go[x] = NULL
  BY NodeType DEF SearchSon
<1> HIDE DEF go, k
<1>6. last \in W /\ go[last] = NULL /\ (\A z \in W : go[z] = NULL => z = last)
      /\ \A z \in N : z \in W <=> last \in sub[z]
  BY <1>1, <1>2, WalkIsAbove
<1> HIDE DEF last, W
<1>7. \A z \in W : x \in sub[z]
  <2> DEFINE R == {z \in W : x \in sub[z]}
  <2>1. t.root \in R
    BY <1>2, <1>3
  <2>2. \A z \in R \cap W : go[z] \in R \cup {NULL}
    BY <1>3, <1>4, <1>5
  <2>3. W \subseteq R
    <3> HIDE DEF R
    <3> QED
      BY <1>1, <1>2, <2>1, <2>2, WalkDown DEF W
  <2> QED
    BY <2>3
<1>8. x = last
  <2> SUFFICES ASSUME x # last PROVE FALSE
    OBVIOUS
  <2>1. go[last] \in N
    BY <1>3, <1>4, <1>6, <1>7
  <2> QED
    BY <1>6, <2>1, NodeType
<1> QED
  BY <1>2, <1>5, <1>6, <1>8 DEF W, go, k, SearchWay

\* Find leads to the node with the key, and to null if there is none.
LEMMA FindIs ==
  ASSUME NEW t, NEW N, NEW sub, NEW up, Tree(t, N, sub, up), NEW k
  PROVE  /\ Find(t, k) \in N \cup {NULL}
         /\ Find(t, k) # NULL => t.node[Find(t, k)].key = k
         /\ \A x \in N : t.node[x].key = k => Find(t, k) = x
<1> DEFINE W == SearchWay(t, k)
<1>1. W \subseteq N
  <2>1. CASE t.root = NULL
    <3> DEFINE go == SearchSon(t, k)
               none == {}
    <3>1. NULL \notin DOMAIN go
      <4>1. t \in TreeType
        BY DEF Tree, Rooted
      <4>2. NULL \notin DOMAIN t.node
        BY <4>1, StoreType
      <4> QED
        BY <4>2 DEF SearchSon
    <3>2. none \in SUBSET DOMAIN go /\ t.root \in none \cup {NULL}
          /\ \A z \in none : go[z] \in none \cup {NULL}
      BY <2>1
    <3> HIDE DEF go, none
    <3>3. Walk(go, t.root) \subseteq none
      BY <3>1, <3>2, WalkIs
    <3> QED
      BY <3>3 DEF SearchWay, go, none
  <2>2. CASE t.root # NULL
    <3>1. t.root \in N /\ sub[t.root] = N
      BY <2>2 DEF Tree, Rooted
    <3> QED
      BY <3>1, SearchDescends, WalkDown DEF SearchWay
  <2> QED
    BY <2>1, <2>2
<1>2. \A x \in N : t.node[x].key = k => x \in W
  BY SearchReaches
<1>3. \A x, y \in W : t.node[x].key = k /\ t.node[y].key = k => x = y
  BY <1>1, KeysDiffer
<1> HIDE DEF W
<1>4. Find(t, k) = IF \E x \in W : t.node[x].key = k
                   THEN CHOOSE x \in W : t.node[x].key = k ELSE NULL
  BY DEF Find, W
<1> QED
  BY <1>1, <1>2, <1>3, <1>4

-----------------------------------------------------------------------------
(***************************************************************************)
(* The recursive functions on the nodes.  Graded: sons are smaller than    *)
(* their fathers, which is what the recursion ends by.                     *)
(***************************************************************************)
Graded(node, bound) ==
  /\ node \in Stores /\ bound \in Nat
  /\ \A x \in DOMAIN node :
       /\ node[x].size \in Nat /\ node[x].size <= bound
       /\ node[x].left # NULL =>
            node[x].left \in DOMAIN node /\ node[node[x].left].size < node[x].size
       /\ node[x].right # NULL =>
            node[x].right \in DOMAIN node /\ node[node[x].right].size < node[x].size

Rank(node) == [x \in DOMAIN node \cup {NULL} |-> IF x = NULL THEN 0 ELSE node[x].size + 1]

\* The stored size, with 0 for null, is a measure that falls from a node to its sons.
LEMMA RankIs ==
  ASSUME NEW node, NEW bound, Graded(node, bound)
  PROVE  LET V == DOMAIN node \cup {NULL}
         IN /\ NULL \notin DOMAIN node
            /\ Rank(node) \in [V -> Nat] /\ bound + 1 \in Nat
            /\ \A x \in V : Rank(node)[x] <= bound + 1
            /\ \A x \in DOMAIN node :
                 /\ node[x].left \in V /\ Rank(node)[node[x].left] < Rank(node)[x]
                 /\ node[x].right \in V /\ Rank(node)[node[x].right] < Rank(node)[x]
<1> DEFINE V == DOMAIN node \cup {NULL}
<1>1. NULL \notin DOMAIN node
  BY ConstAssumption DEF Graded, Stores
<1>2. Rank(node)[NULL] = 0 /\ \A x \in DOMAIN node : Rank(node)[x] = node[x].size + 1
  BY <1>1 DEF Rank
<1>3. Rank(node) \in [V -> Nat] /\ bound + 1 \in Nat
  BY DEF Graded, Rank
<1>4. \A x \in V : Rank(node)[x] <= bound + 1
  BY <1>2 DEF Graded
<1>5. ASSUME NEW x \in DOMAIN node, NEW c,
             c # NULL => c \in DOMAIN node /\ node[c].size < node[x].size
      PROVE  c \in V /\ Rank(node)[c] < Rank(node)[x]
  BY <1>2, <1>5 DEF Graded
<1>6. ASSUME NEW x \in DOMAIN node
      PROVE  /\ node[x].left \in V /\ Rank(node)[node[x].left] < Rank(node)[x]
             /\ node[x].right \in V /\ Rank(node)[node[x].right] < Rank(node)[x]
  <2>1. node[x].left # NULL => node[x].left \in DOMAIN node /\ node[node[x].left].size < node[x].size
    BY DEF Graded
  <2>2. node[x].right # NULL => node[x].right \in DOMAIN node /\ node[node[x].right].size < node[x].size
    BY DEF Graded
  <2> QED
    BY <2>1, <2>2, <1>5
<1> QED
  BY <1>1, <1>3, <1>4, <1>6

\* Below is the recursive function it is meant to be.
LEMMA BelowExists ==
  ASSUME NEW node, NEW bound, Graded(node, bound)
  PROVE  /\ Below(node)[NULL] = {}
         /\ \A x \in DOMAIN node :
              Below(node)[x] = Below(node)[node[x].left] \cup Below(node)[node[x].right] \cup {x}
<1> DEFINE D == DOMAIN node
           V == D \cup {NULL}
           S == SUBSET D
           rank == Rank(node)
           step == [p \in V \X [V -> S] |->
                      IF p[1] = NULL THEN {}
                      ELSE p[2][node[p[1]].left] \cup p[2][node[p[1]].right] \cup {p[1]}]
<1>1. /\ NULL \notin D /\ rank \in [V -> Nat] /\ bound + 1 \in Nat
      /\ \A x \in V : rank[x] <= bound + 1
      /\ \A x \in D : /\ node[x].left \in V /\ rank[node[x].left] < rank[x]
                      /\ node[x].right \in V /\ rank[node[x].right] < rank[x]
  BY RankIs
<1> HIDE DEF rank
<1>2. step \in [V \X [V -> S] -> S]
  BY <1>1
<1>3. \A x \in V : \A g \in [V -> S] :
        step[<<x, g>>] = IF x = NULL THEN {}
                         ELSE g[node[x].left] \cup g[node[x].right] \cup {x}
  OBVIOUS
<1> HIDE DEF step
<1>4. \A x \in V : \A g, h \in [V -> S] :
        (\A y \in V : rank[y] < rank[x] => g[y] = h[y]) => step[<<x, g>>] = step[<<x, h>>]
  <2> TAKE x \in V
  <2> TAKE g, h \in [V -> S]
  <2> HAVE \A y \in V : rank[y] < rank[x] => g[y] = h[y]
  <2>1. CASE x = NULL
    BY <1>3, <2>1
  <2>2. CASE x # NULL
    <3>1. x \in D /\ node[x].left \in V /\ node[x].right \in V
      BY <1>1, <2>2
    <3>2. g[node[x].left] = h[node[x].left] /\ g[node[x].right] = h[node[x].right]
      BY <1>1, <3>1
    <3>3. step[<<x, g>>] = g[node[x].left] \cup g[node[x].right] \cup {x}
      BY <1>3, <2>2
    <3>4. step[<<x, h>>] = h[node[x].left] \cup h[node[x].right] \cup {x}
      BY <1>3, <2>2
    <3> HIDE DEF V, S
    <3> QED
      BY <3>2, <3>3, <3>4
  <2> QED
    BY <2>1, <2>2
<1>5. {} \in S
  OBVIOUS
<1>6. \E f \in [V -> S] : \A x \in V : f[x] = step[<<x, f>>]
  <2>1. Recurring(V, S, rank, bound + 1, step)
    BY <1>1, <1>2, <1>4 DEF Recurring
  <2> HIDE DEF V, S
  <2> QED
    BY <2>1, <1>5, Recursion DEF Recursive
<1> HIDE DEF V, S
<1>11. PICK f \in [V -> S] : \A x \in V : f[x] = step[<<x, f>>]
  BY <1>6
<1>7. f = [x \in V |-> IF x = NULL THEN {} ELSE f[node[x].left] \cup f[node[x].right] \cup {x}]
  BY <1>3, <1>11
<1>8. Below(node) = [x \in V |-> IF x = NULL THEN {}
                       ELSE Below(node)[node[x].left] \cup Below(node)[node[x].right] \cup {x}]
  BY <1>7 DEF Below, V
<1>9. NULL \in V /\ D \subseteq V /\ NULL \notin D
  BY <1>1 DEF V
<1> HIDE DEF D
<1>10. \A x \in V : Below(node)[x] = IF x = NULL THEN {}
                       ELSE Below(node)[node[x].left] \cup Below(node)[node[x].right] \cup {x}
  BY <1>8
<1> QED
  BY <1>9, <1>10 DEF D

\* The nodes below x, as release_node and the properties collect them.
LEMMA BelowIs ==
  ASSUME NEW t, NEW N, NEW sub, NEW up, Tree(t, N, sub, up),
         NEW bound, Graded(t.node, bound), NEW x \in N \cup {NULL}
  PROVE  Below(t.node)[x] = sub[x]
<1> DEFINE T == {z \in N : Below(t.node)[z] = sub[z]}
<1>1. Below(t.node)[NULL] = {} /\ sub[NULL] = {}
  BY BelowExists DEF Tree, Rooted
<1>2. ASSUME NEW z \in N, t.node[z].left \in T \cup {NULL}, t.node[z].right \in T \cup {NULL}
      PROVE  z \in T
  <2>1. z \in DOMAIN t.node
    BY NodeType
  <2>2. Below(t.node)[z]
          = Below(t.node)[t.node[z].left] \cup Below(t.node)[t.node[z].right] \cup {z}
    BY <2>1, BelowExists
  <2>3. sub[z] = {z} \cup sub[t.node[z].left] \cup sub[t.node[z].right]
    BY DEF Tree, Branching
  <2> QED
    BY <1>1, <1>2, <2>2, <2>3
<1>3. N \subseteq T
  <2> HIDE DEF T
  <2> QED
    BY <1>2, UpwardInduction
<1> QED
  BY <1>1, <1>3
\* Arrays of keys; get_key never leaves a gap, but that is not needed here.
Arrays == UNION {[I -> Keys] : I \in SUBSET Nat}

\* What a node writes, given what its sons write.
Written(node, x, lower, upper, at) ==
  [i \in DOMAIN lower \cup {at} \cup {at + 1 + j : j \in DOMAIN upper} |->
     CASE i - at - 1 \in DOMAIN upper -> upper[i - at - 1]
       [] i = at -> node[x].key
       [] OTHER -> lower[i]]

Joined(a, key, lower, upper, at) ==
  /\ a \in Arrays /\ DOMAIN a \subseteq Nat
  /\ DOMAIN a = DOMAIN lower \cup {at} \cup {at + 1 + j : j \in DOMAIN upper}
  /\ \A i \in DOMAIN a :
       /\ i - at - 1 \in DOMAIN upper => a[i] = upper[i - at - 1]
       /\ i - at - 1 \notin DOMAIN upper /\ i = at => a[i] = key
       /\ i - at - 1 \notin DOMAIN upper /\ i # at => i \in DOMAIN lower /\ a[i] = lower[i]

\* The array of a node is made of those of its sons and its own key.
LEMMA WrittenIs ==
  ASSUME NEW node, NEW x, node[x].key \in Keys, NEW lower \in Arrays, NEW upper \in Arrays,
         NEW at \in Nat
  PROVE  Joined(Written(node, x, lower, upper, at), node[x].key, lower, upper, at)
<1> DEFINE a == Written(node, x, lower, upper, at)
           I == DOMAIN lower \cup {at} \cup {at + 1 + j : j \in DOMAIN upper}
<1>1. DOMAIN lower \subseteq Nat /\ \A i \in DOMAIN lower : lower[i] \in Keys
  BY DEF Arrays
<1>2. DOMAIN upper \subseteq Nat /\ \A i \in DOMAIN upper : upper[i] \in Keys
  BY DEF Arrays
<1>3. DOMAIN a = I /\ I \subseteq Nat
  BY <1>1, <1>2 DEF Written
<1>4. ASSUME NEW i \in I, i - at - 1 \notin DOMAIN upper, i # at PROVE i \in DOMAIN lower
  BY <1>1, <1>2, <1>4
<1>5. \A i \in I :
        /\ i - at - 1 \in DOMAIN upper => a[i] = upper[i - at - 1]
        /\ i - at - 1 \notin DOMAIN upper /\ i = at => a[i] = node[x].key
        /\ i - at - 1 \notin DOMAIN upper /\ i # at => a[i] = lower[i]
  <2> TAKE i \in I
  <2>1. a[i] = CASE i - at - 1 \in DOMAIN upper -> upper[i - at - 1]
                 [] i = at -> node[x].key
                 [] OTHER -> lower[i]
    BY DEF Written
  <2>2. CASE i - at - 1 \in DOMAIN upper
    <3>1. i # at
      BY <1>2, <2>2
    <3> QED
      BY <2>1, <2>2, <3>1
  <2>3. CASE i - at - 1 \notin DOMAIN upper
    BY <2>1, <2>3
  <2> QED
    BY <2>2, <2>3
<1>6. \A i \in I : a[i] \in Keys
  BY <1>1, <1>2, <1>4, <1>5
<1>7. a \in [I -> Keys]
  <2>1. a = [i \in I |-> a[i]]
    BY DEF Written
  <2> HIDE DEF a, I
  <2> QED
    BY <2>1, <1>6
<1>8. a \in Arrays
  <2> HIDE DEF a, I
  <2> QED
    BY <1>3, <1>7 DEF Arrays
<1> QED
  BY <1>3, <1>4, <1>5, <1>8 DEF Joined

\* GetKey is the recursive function it is meant to be.
LEMMA KeysExist ==
  ASSUME NEW t \in TreeType, NEW bound, Graded(t.node, bound)
  PROVE  /\ GetKey(t)[NULL] = <<>>
         /\ \A x \in DOMAIN t.node :
              GetKey(t)[x] = Written(t.node, x, GetKey(t)[t.node[x].left],
                                     GetKey(t)[t.node[x].right], SizeOf(t, t.node[x].left))
<1> DEFINE node == t.node
           D == DOMAIN t.node
           V == D \cup {NULL}
           rank == Rank(node)
           step == [p \in V \X [V -> Arrays] |->
                      IF p[1] = NULL THEN <<>>
                      ELSE Written(node, p[1], p[2][node[p[1]].left], p[2][node[p[1]].right],
                                   SizeOf(t, node[p[1]].left))]
<1>1. /\ NULL \notin D /\ rank \in [V -> Nat] /\ bound + 1 \in Nat
      /\ \A x \in V : rank[x] <= bound + 1
      /\ \A x \in D : /\ node[x].left \in V /\ rank[node[x].left] < rank[x]
                      /\ node[x].right \in V /\ rank[node[x].right] < rank[x]
  BY RankIs
<1> HIDE DEF rank
<1>2. <<>> \in Arrays
  <2>1. <<>> \in [{} -> Keys]
    OBVIOUS
  <2>2. {} \in SUBSET Nat
    OBVIOUS
  <2> QED
    BY <2>1, <2>2 DEF Arrays
<1>3. \A x \in D : node[x].key \in Keys /\ SizeOf(t, node[x].left) \in Nat
  <2> TAKE x \in D
  <2>1. node[x] \in Node
    BY StoreType
  <2>2. node[x].left \in V
    BY <1>1
  <2>3. node[x].left # NULL => node[node[x].left] \in Node
    BY <2>2, StoreType
  <2> QED
    BY <2>1, <2>3 DEF Node, SizeOf
<1>4. \A x \in V : \A g \in [V -> Arrays] :
        step[<<x, g>>] = IF x = NULL THEN <<>>
                         ELSE Written(node, x, g[node[x].left], g[node[x].right],
                                      SizeOf(t, node[x].left))
  OBVIOUS
<1>5. step \in [V \X [V -> Arrays] -> Arrays]
  <2> SUFFICES ASSUME NEW x \in V, NEW g \in [V -> Arrays] PROVE step[<<x, g>>] \in Arrays
    OBVIOUS
  <2> HIDE DEF step
  <2>1. CASE x = NULL
    BY <1>2, <1>4, <2>1
  <2>2. CASE x # NULL
    <3>1. x \in D /\ g[node[x].left] \in Arrays /\ g[node[x].right] \in Arrays
      BY <1>1, <2>2
    <3>2. Written(node, x, g[node[x].left], g[node[x].right], SizeOf(t, node[x].left)) \in Arrays
      BY <1>3, <3>1, WrittenIs DEF Joined
    <3> QED
      BY <1>4, <2>2, <3>2
  <2> QED
    BY <2>1, <2>2
<1> HIDE DEF step
<1>6. \A x \in V : \A g, h \in [V -> Arrays] :
        (\A y \in V : rank[y] < rank[x] => g[y] = h[y]) => step[<<x, g>>] = step[<<x, h>>]
  <2> TAKE x \in V
  <2> TAKE g, h \in [V -> Arrays]
  <2> HAVE \A y \in V : rank[y] < rank[x] => g[y] = h[y]
  <2>1. CASE x = NULL
    BY <1>4, <2>1
  <2>2. CASE x # NULL
    <3>1. x \in D /\ node[x].left \in V /\ node[x].right \in V
      BY <1>1, <2>2
    <3>2. g[node[x].left] = h[node[x].left] /\ g[node[x].right] = h[node[x].right]
      BY <1>1, <3>1
    <3>3. step[<<x, g>>] = Written(node, x, g[node[x].left], g[node[x].right],
                                   SizeOf(t, node[x].left))
      BY <1>4, <2>2
    <3>4. step[<<x, h>>] = Written(node, x, h[node[x].left], h[node[x].right],
                                   SizeOf(t, node[x].left))
      BY <1>4, <2>2
    <3> HIDE DEF V
    <3> QED
      BY <3>2, <3>3, <3>4
  <2> QED
    BY <2>1, <2>2
<1>7. \E f \in [V -> Arrays] : \A x \in V : f[x] = step[<<x, f>>]
  <2>1. Recurring(V, Arrays, rank, bound + 1, step)
    BY <1>1, <1>5, <1>6 DEF Recurring
  <2> HIDE DEF V
  <2>2. Recursive(V, Arrays, step)
    BY <1>2, <2>1, Recursion
  <2> QED
    BY <2>2 DEF Recursive
<1> HIDE DEF V
<1>8. PICK f \in [V -> Arrays] : \A x \in V : f[x] = step[<<x, f>>]
  BY <1>7
<1>9. f = [x \in V |-> IF x = NULL THEN <<>>
                       ELSE Written(node, x, f[node[x].left], f[node[x].right],
                                    SizeOf(t, node[x].left))]
  BY <1>4, <1>8
<1>10. GetKey(t) = [x \in V |-> IF x = NULL THEN <<>>
                       ELSE Written(node, x, GetKey(t)[node[x].left], GetKey(t)[node[x].right],
                                    SizeOf(t, node[x].left))]
  BY <1>9 DEF GetKey, V, Written
<1>11. NULL \in V /\ D \subseteq V /\ NULL \notin D
  BY <1>1 DEF V
<1> HIDE DEF D
<1>12. \A x \in V : GetKey(t)[x] = IF x = NULL THEN <<>>
                       ELSE Written(node, x, GetKey(t)[node[x].left], GetKey(t)[node[x].right],
                                    SizeOf(t, node[x].left))
  BY <1>10
<1> QED
  BY <1>11, <1>12 DEF D

\* get_key writes the keys below x in order, from the first index on, without a gap.
Lists(a, keys, n) ==
  /\ a \in Arrays /\ DOMAIN a = 0 .. n - 1
  /\ {a[i] : i \in DOMAIN a} = keys
  /\ \A i, j \in DOMAIN a : i < j => a[i] < a[j]

\* By induction from the sons to their father.
LEMMA KeysAreListed ==
  ASSUME NEW t, NEW N, NEW sub, NEW up, Tree(t, N, sub, up),
         NEW bound, Graded(t.node, bound), NEW x \in N \cup {NULL}
  PROVE  Lists(GetKey(t)[x], {t.node[y].key : y \in sub[x]}, Cardinality(sub[x]))
<1> DEFINE KeysOf(z) == {t.node[y].key : y \in sub[z]}
           T == {z \in N : Lists(GetKey(t)[z], KeysOf(z), Cardinality(sub[z]))}
<1>0. t \in TreeType /\ sub[NULL] = {}
  BY DEF Tree, Rooted
<1>1. Lists(GetKey(t)[NULL], KeysOf(NULL), Cardinality(sub[NULL]))
  <2>1. GetKey(t)[NULL] = <<>>
    BY <1>0, KeysExist
  <2>2. <<>> \in Arrays /\ DOMAIN <<>> = {}
    <3>1. <<>> \in [{} -> Keys] /\ {} \in SUBSET Nat
      OBVIOUS
    <3> QED
      BY <3>1 DEF Arrays
  <2>3. Cardinality(sub[NULL]) = 0 /\ KeysOf(NULL) = {} /\ 0 .. 0 - 1 = {}
    BY <1>0, FS_EmptySet
  <2> QED
    BY <2>1, <2>2, <2>3 DEF Lists
<1>2. ASSUME NEW z \in N, t.node[z].left \in T \cup {NULL}, t.node[z].right \in T \cup {NULL}
      PROVE  z \in T
  <2> DEFINE l == t.node[z].left
             r == t.node[z].right
             nl == Cardinality(sub[l])
             nr == Cardinality(sub[r])
             lower == GetKey(t)[l]
             upper == GetKey(t)[r]
             a == GetKey(t)[z]
             k == t.node[z].key
  <2>1. Lists(lower, KeysOf(l), nl) /\ Lists(upper, KeysOf(r), nr)
    BY <1>1, <1>2
  <2>2. /\ SizeOf(t, l) = nl /\ nl \in Nat /\ nr \in Nat
        /\ Cardinality(sub[z]) = nl + nr + 1
    BY SizesAdd DEF Tree, Sized
  <2>3. sub[z] = {z} \cup sub[l] \cup sub[r]
    BY DEF Tree, Branching
  <2>4. (\A q \in KeysOf(l) : q < k) /\ (\A q \in KeysOf(r) : k < q)
    BY DEF Tree, Ordered
  <2>5. KeysOf(z) = KeysOf(l) \cup {k} \cup KeysOf(r)
    BY <2>3
  <2>6. a = Written(t.node, z, lower, upper, nl)
    <3>1. z \in DOMAIN t.node
      BY NodeType
    <3>2. a = Written(t.node, z, lower, upper, SizeOf(t, l))
      BY <1>0, <3>1, KeysExist
    <3> HIDE DEF a, lower, upper, l, nl
    <3> QED
      BY <2>2, <3>2
  <2>7. k \in Keys /\ lower \in Arrays /\ upper \in Arrays
    BY <2>1, NodeType DEF Lists, Node
  <2>20. t.node[z].key = k
    OBVIOUS
  <2> HIDE DEF KeysOf, l, r, nl, nr, lower, upper, a, T, k
  <2>8. /\ a \in Arrays /\ DOMAIN a \subseteq Nat
        /\ DOMAIN a = DOMAIN lower \cup {nl} \cup {nl + 1 + j : j \in DOMAIN upper}
        /\ \A i \in DOMAIN a :
             /\ i - nl - 1 \in DOMAIN upper => a[i] = upper[i - nl - 1]
             /\ i - nl - 1 \notin DOMAIN upper /\ i = nl => a[i] = k
             /\ i - nl - 1 \notin DOMAIN upper /\ i # nl => i \in DOMAIN lower /\ a[i] = lower[i]
    <3> DEFINE node == t.node
    <3>1. node[z].key = k
      BY <2>20
    <3>2. a = Written(node, z, lower, upper, nl)
      BY <2>6
    <3> HIDE DEF node
    <3>3. Joined(a, k, lower, upper, nl)
      BY <2>2, <3>1, <3>2, <2>7, WrittenIs
    <3> QED
      BY <3>3 DEF Joined
  <2>9. DOMAIN lower = 0 .. nl - 1 /\ DOMAIN upper = 0 .. nr - 1
    BY <2>1 DEF Lists
  <2>10. DOMAIN a = 0 .. (nl + nr + 1) - 1
    <3>1. \A i \in 0 .. nl + nr : i \in 0 .. nl - 1 \/ i = nl \/ (i - nl - 1 \in 0 .. nr - 1 /\ i = nl + 1 + (i - nl - 1))
      BY <2>2
    <3>2. 0 .. nl + nr \subseteq DOMAIN a
      BY <2>8, <2>9, <3>1
    <3>3. DOMAIN a \subseteq 0 .. nl + nr
      BY <2>2, <2>8, <2>9
    <3>4. (nl + nr + 1) - 1 = nl + nr
      BY <2>2
    <3> QED
      BY <3>2, <3>3, <3>4
  <2>11. \A i \in DOMAIN a :
           /\ i < nl => i \in DOMAIN lower /\ a[i] = lower[i]
           /\ i = nl => a[i] = k
           /\ i > nl => i - nl - 1 \in DOMAIN upper /\ a[i] = upper[i - nl - 1]
    <3> TAKE i \in DOMAIN a
    <3>1. i \in Nat /\ i <= nl + nr
      BY <2>2, <2>8, <2>10
    <3>2. (i - nl - 1 \in DOMAIN upper) <=> i > nl
      BY <2>2, <2>9, <3>1
    <3> QED
      BY <2>2, <2>8, <3>1, <3>2
  <2>12. {a[i] : i \in DOMAIN a} = KeysOf(z)
    <3>1. {lower[i] : i \in DOMAIN lower} = KeysOf(l) /\ {upper[i] : i \in DOMAIN upper} = KeysOf(r)
      BY <2>1 DEF Lists
    <3>2. \A i \in DOMAIN a : a[i] \in KeysOf(z)
      <4> TAKE i \in DOMAIN a
      <4>1. i < nl \/ i = nl \/ i > nl
        BY <2>2, <2>8
      <4> QED
        BY <2>5, <2>11, <3>1, <4>1
    <3>3. \A i \in DOMAIN lower : i \in DOMAIN a /\ a[i] = lower[i]
      BY <2>2, <2>9, <2>10, <2>11
    <3>4. \A i \in DOMAIN upper : i + nl + 1 \in DOMAIN a /\ a[i + nl + 1] = upper[i]
      <4> TAKE i \in DOMAIN upper
      <4>1. i + nl + 1 \in DOMAIN a /\ i + nl + 1 > nl /\ (i + nl + 1) - nl - 1 = i
        BY <2>2, <2>9, <2>10
      <4> QED
        BY <2>11, <4>1
    <3>5. nl \in DOMAIN a /\ a[nl] = k
      BY <2>8, <2>11
    <3> QED
      BY <2>5, <3>1, <3>2, <3>3, <3>4, <3>5
  <2>13. ASSUME NEW i \in DOMAIN a, NEW j \in DOMAIN a, i < j PROVE a[i] < a[j]
    <3>1. \A v \in DOMAIN lower : lower[v] < k /\ lower[v] \in Int
      <4>1. \A v \in DOMAIN lower : lower[v] \in KeysOf(l) /\ lower[v] \in Keys
        BY <2>1 DEF Lists, Arrays
      <4> QED
        BY <2>4, <4>1, ConstAssumption DEF k
    <3>2. \A v \in DOMAIN upper : k < upper[v] /\ upper[v] \in Int
      <4>1. \A v \in DOMAIN upper : upper[v] \in KeysOf(r) /\ upper[v] \in Keys
        BY <2>1 DEF Lists, Arrays
      <4> QED
        BY <2>4, <4>1, ConstAssumption DEF k
    <3>3. k \in Int
      BY <2>7, ConstAssumption
    <3>4. i \in Nat /\ j \in Nat
      BY <2>8
    <3>5. CASE j < nl
      BY <2>1, <2>2, <2>11, <2>13, <3>4, <3>5 DEF Lists
    <3>6. CASE j = nl
      BY <2>11, <2>13, <3>1, <3>4, <3>6
    <3>7. CASE j > nl /\ i < nl
      BY <2>11, <3>1, <3>2, <3>3, <3>4, <3>7
    <3>8. CASE j > nl /\ i = nl
      BY <2>11, <3>2, <3>8
    <3>9. CASE j > nl /\ i > nl
      <4>1. i - nl - 1 \in DOMAIN upper /\ j - nl - 1 \in DOMAIN upper /\ i - nl - 1 < j - nl - 1
        BY <2>2, <2>11, <2>13, <3>4, <3>9
      <4>2. upper[i - nl - 1] < upper[j - nl - 1]
        BY <2>1, <4>1 DEF Lists
      <4> QED
        BY <2>11, <3>9, <4>2
    <3> QED
      BY <2>2, <3>4, <3>5, <3>6, <3>7, <3>8, <3>9
  <2>14. Lists(a, KeysOf(z), nl + nr + 1)
    BY <2>8, <2>10, <2>12, <2>13 DEF Lists
  <2> QED
    BY <2>2, <2>14 DEF T, a
<1>3. N \subseteq T
  <2> HIDE DEF T
  <2> QED
    BY <1>2, UpwardInduction
<1> QED
  BY <1>1, <1>3

\* The size of a node and two disjoint subtrees.
LEMMA DisjointSize ==
  ASSUME NEW A, NEW B, IsFiniteSet(A), IsFiniteSet(B), A \cap B = {},
         NEW x, x \notin A, x \notin B
  PROVE  /\ IsFiniteSet({x} \cup A \cup B)
         /\ Cardinality({x} \cup A \cup B) = Cardinality(A) + Cardinality(B) + 1
<1>1. Cardinality(A) \in Nat /\ Cardinality(B) \in Nat /\ Cardinality(A \cap B) = 0
  BY FS_CardinalityType, FS_EmptySet
<1>2. IsFiniteSet(A \cup B) /\ Cardinality(A \cup B) = Cardinality(A) + Cardinality(B)
  <2>1. IsFiniteSet(A \cup B)
    BY FS_Union
  <2>2. Cardinality(A \cup B) = Cardinality(A) + Cardinality(B) - Cardinality(A \cap B)
    BY FS_Union
  <2> QED
    BY <1>1, <2>1, <2>2
<1>3. {x} \cup A \cup B = (A \cup B) \cup {x} /\ x \notin A \cup B
  OBVIOUS
<1>4. IsFiniteSet((A \cup B) \cup {x}) /\ Cardinality((A \cup B) \cup {x}) = Cardinality(A \cup B) + 1
  BY <1>2, <1>3, FS_AddElement
<1> QED
  BY <1>2, <1>3, <1>4

\* What is known about the tree as a whole.
LEMMA TreeHas ==
  ASSUME NEW t, NEW N, NEW sub, NEW up, Tree(t, N, sub, up)
  PROVE  /\ t \in TreeType
         /\ N \subseteq DOMAIN t.node /\ IsFiniteSet(N) /\ NULL \notin N
         /\ t.root \in N \cup {NULL} /\ sub[t.root] = N /\ sub[NULL] = {}
         /\ sub \in [N \cup {NULL} -> SUBSET N] /\ up \in [N -> N \cup {NULL}]
<1>1. NULL \notin N
  BY NodeType
<1>2. Rooted(t, N, sub, up)
  BY DEF Tree
<1> QED
  BY <1>1, <1>2 DEF Rooted

\* A tree depends on its own nodes alone, and not on the values and priorities.
LEMMA TreeKept ==
  ASSUME NEW t, NEW N, NEW sub, NEW up, Tree(t, N, sub, up),
         NEW r \in TreeType, N \subseteq DOMAIN r.node, r.root = t.root, r.top >= t.top,
         \A x \in N : /\ r.node[x].left = t.node[x].left /\ r.node[x].right = t.node[x].right
                      /\ r.node[x].size = t.node[x].size /\ r.node[x].key = t.node[x].key
                      /\ r.node[x].hash = t.node[x].hash
  PROVE  Tree(r, N, sub, up)
<1>1. Rooted(r, N, sub, up)
  BY DEF Tree, Rooted
<1>2. Branching(r, N, sub)
  BY DEF Tree, Branching
<1>3. Fathered(r, N, up)
  <2>1. ASSUME NEW x \in N
        PROVE  /\ r.node[x].left # NULL => up[r.node[x].left] = x
               /\ r.node[x].right # NULL => up[r.node[x].right] = x
               /\ x = r.root => up[x] = NULL
    BY DEF Tree, Fathered
  <2>2. ASSUME NEW x \in N, x # r.root
        PROVE  up[x] \in N /\ (r.node[up[x]].left = x \/ r.node[up[x]].right = x)
    BY <2>2 DEF Tree, Fathered
  <2> QED
    BY <2>1, <2>2 DEF Fathered
<1>4. Sized(r, N, sub)
  BY DEF Tree, Sized
<1>5. Ordered(r, N, sub)
  <2>1. \A x \in N : sub[x] \subseteq N /\ sub[NULL] = {}
    BY DEF Tree, Rooted
  <2>2. \A x \in N : t.node[x].left \in N \cup {NULL} /\ t.node[x].right \in N \cup {NULL}
    BY DEF Tree, Branching
  <2> QED
    BY <2>1, <2>2 DEF Tree, Ordered
<1>6. Hashed(r, N)
  <2>1. \A x \in N : t.node[x].hash \in Nat
    BY NodeType DEF Node
  <2>2. t.top \in Nat /\ r.top \in Nat
    <3>1. t \in TreeType
      BY DEF Tree, Rooted
    <3> QED
      BY <3>1, StoreType
  <2> QED
    BY <2>1, <2>2 DEF Tree, Hashed
<1> QED
  BY <1>1, <1>2, <1>3, <1>4, <1>5, <1>6 DEF Tree

\* The definitions of a tree, for a side and the other one.
Before(s, j, k) == IF s = "left" THEN j < k ELSE k < j

Symmetric(t, N, sub, up) ==
  /\ \A x \in N : \A s \in Sides :
       /\ t.node[x][s] \in N \cup {NULL}
       /\ sub[x] = {x} \cup sub[t.node[x][s]] \cup sub[t.node[x][Other(s)]]
       /\ x \notin sub[t.node[x][s]]
       /\ sub[t.node[x][s]] \cap sub[t.node[x][Other(s)]] = {}
       /\ t.node[x][s] # NULL => up[t.node[x][s]] = x
       /\ \A y \in sub[t.node[x][s]] : Before(s, t.node[y].key, t.node[x].key)
  /\ \A x \in N : /\ x = t.root => up[x] = NULL
                  /\ x # t.root => up[x] \in N /\ \E s \in Sides : t.node[up[x]][s] = x

\* What branching and ordering say, with a side as a parameter.
LEMMA TwoSides ==
  ASSUME NEW t, NEW N, NEW sub, NEW up
  PROVE  Branching(t, N, sub) /\ Fathered(t, N, up) /\ Ordered(t, N, sub)
           <=> Symmetric(t, N, sub, up)
<1>1. Other("left") = "right" /\ Other("right") = "left" /\ "left" # "right"
  BY DEF Other
<1>2. ASSUME Branching(t, N, sub), Fathered(t, N, up), Ordered(t, N, sub)
      PROVE  Symmetric(t, N, sub, up)
  <2>1. ASSUME NEW x \in N, NEW s \in Sides
        PROVE  /\ t.node[x][s] \in N \cup {NULL}
               /\ sub[x] = {x} \cup sub[t.node[x][s]] \cup sub[t.node[x][Other(s)]]
               /\ x \notin sub[t.node[x][s]]
               /\ sub[t.node[x][s]] \cap sub[t.node[x][Other(s)]] = {}
               /\ t.node[x][s] # NULL => up[t.node[x][s]] = x
               /\ \A y \in sub[t.node[x][s]] : Before(s, t.node[y].key, t.node[x].key)
    <3>1. CASE s = "left"
      BY <1>1, <1>2, <3>1 DEF Branching, Fathered, Ordered, Before
    <3>2. CASE s = "right"
      BY <1>1, <1>2, <3>2 DEF Branching, Fathered, Ordered, Before
    <3> QED
      BY <3>1, <3>2 DEF Sides
  <2>2. ASSUME NEW x \in N
        PROVE  /\ x = t.root => up[x] = NULL
               /\ x # t.root => up[x] \in N /\ \E s \in Sides : t.node[up[x]][s] = x
    BY <1>2 DEF Fathered, Sides
  <2> QED
    BY <2>1, <2>2 DEF Symmetric
<1>3. ASSUME Symmetric(t, N, sub, up)
      PROVE  Branching(t, N, sub) /\ Fathered(t, N, up) /\ Ordered(t, N, sub)
  <2>1. ASSUME NEW x \in N, NEW s \in Sides
        PROVE  /\ t.node[x][s] \in N \cup {NULL}
               /\ sub[x] = {x} \cup sub[t.node[x][s]] \cup sub[t.node[x][Other(s)]]
               /\ x \notin sub[t.node[x][s]]
               /\ sub[t.node[x][s]] \cap sub[t.node[x][Other(s)]] = {}
               /\ t.node[x][s] # NULL => up[t.node[x][s]] = x
               /\ \A y \in sub[t.node[x][s]] : Before(s, t.node[y].key, t.node[x].key)
    BY <1>3 DEF Symmetric
  <2>2. "left" \in Sides /\ "right" \in Sides
    BY DEF Sides
  <2>3. ASSUME NEW x \in N
        PROVE  /\ t.node[x].left \in N \cup {NULL} /\ t.node[x].right \in N \cup {NULL}
               /\ sub[x] = {x} \cup sub[t.node[x].left] \cup sub[t.node[x].right]
               /\ x \notin sub[t.node[x].left] /\ x \notin sub[t.node[x].right]
               /\ sub[t.node[x].left] \cap sub[t.node[x].right] = {}
               /\ t.node[x].left # NULL => up[t.node[x].left] = x
               /\ t.node[x].right # NULL => up[t.node[x].right] = x
               /\ \A y \in sub[t.node[x].left] : t.node[y].key < t.node[x].key
               /\ \A y \in sub[t.node[x].right] : t.node[x].key < t.node[y].key
    BY <1>1, <2>1, <2>2 DEF Before
  <2>4. ASSUME NEW x \in N
        PROVE  /\ x = t.root => up[x] = NULL
               /\ x # t.root => up[x] \in N /\ (t.node[up[x]].left = x \/ t.node[up[x]].right = x)
    BY <1>3 DEF Symmetric, Sides
  <2> QED
    BY <2>3, <2>4 DEF Branching, Fathered, Ordered
<1> QED
  BY <1>2, <1>3

-----------------------------------------------------------------------------
(***************************************************************************)
(* Rotate.                                                                 *)
(***************************************************************************)
\* The fields of the nodes after node x and its son on a side have changed places.
Rotated(t, r, N, x, s, y) ==
  LET inner == t.node[y][Other(s)]
      other == t.node[x][Other(s)]
  IN /\ r \in TreeType /\ DOMAIN r.node = DOMAIN t.node /\ r.top = t.top
     /\ r.root = IF t.root = x THEN y ELSE t.root
     /\ r.node[x][s] = inner /\ r.node[x][Other(s)] = other
     /\ r.node[y][s] = t.node[y][s] /\ r.node[y][Other(s)] = x
     /\ r.node[x].size = SizeOf(t, inner) + SizeOf(t, other) + 1
     /\ r.node[y].size = t.node[x].size
     /\ \A z \in N \ {x, y} :
          /\ r.node[z].size = t.node[z].size
          /\ \A d \in Sides : r.node[z][d] = IF t.node[z][d] = x THEN y ELSE t.node[z][d]
     /\ \A z \in N :
          /\ r.node[z].key = t.node[z].key /\ r.node[z].value = t.node[z].value
          /\ r.node[z].hash = t.node[z].hash /\ r.node[z].random = t.node[z].random
     /\ \A z \in DOMAIN t.node \ N : r.node[z] = t.node[z]

RotatedSub(t, N, sub, x, s) ==
  LET y == t.node[x][s]
      inner == t.node[y][Other(s)]
      other == t.node[x][Other(s)]
  IN [z \in N \cup {NULL} |-> IF z = y THEN sub[x]
                              ELSE IF z = x THEN {x} \cup sub[inner] \cup sub[other]
                              ELSE sub[z]]

RotatedUp(t, N, up, x, s) ==
  LET y == t.node[x][s]
      inner == t.node[y][Other(s)]
  IN [z \in N |-> IF z = y THEN up[x] ELSE IF z = x THEN y
                  ELSE IF z = inner THEN x ELSE up[z]]

\* Such a change of places keeps the tree.
LEMMA RotatedIsTree ==
  ASSUME NEW t, NEW N, NEW sub, NEW up, Tree(t, N, sub, up),
         NEW x \in N, NEW s \in Sides, t.node[x][s] # NULL,
         NEW r, Rotated(t, r, N, x, s, t.node[x][s])
  PROVE  Tree(r, N, RotatedSub(t, N, sub, x, s), RotatedUp(t, N, up, x, s))
<1> DEFINE y == t.node[x][s]
           o == Other(s)
           inner == t.node[y][o]
           outer == t.node[y][s]
           other == t.node[x][o]
           sub2 == [z \in N \cup {NULL} |-> IF z = y THEN sub[x]
                                            ELSE IF z = x THEN {x} \cup sub[inner] \cup sub[other]
                                            ELSE sub[z]]
           up2 == [z \in N |-> IF z = y THEN up[x] ELSE IF z = x THEN y
                               ELSE IF z = inner THEN x ELSE up[z]]
<1>1. /\ o \in Sides /\ o # s /\ Other(o) = s /\ Sides = {s, o}
      /\ \A j, k : Before(o, j, k) <=> Before(s, k, j)
  BY DEF Other, Sides, Before
<1>2. Symmetric(t, N, sub, up)
  BY TwoSides DEF Tree
<1>3. /\ N \subseteq DOMAIN t.node /\ IsFiniteSet(N) /\ NULL \notin N
      /\ t.root \in N \cup {NULL} /\ sub[t.root] = N /\ sub[NULL] = {}
      /\ sub \in [N \cup {NULL} -> SUBSET N] /\ up \in [N -> N \cup {NULL}]
  BY TreeHas
<1>4. ASSUME NEW z \in N, NEW d \in Sides
      PROVE  /\ t.node[z][d] \in N \cup {NULL}
             /\ sub[z] = {z} \cup sub[t.node[z][d]] \cup sub[t.node[z][Other(d)]]
             /\ z \notin sub[t.node[z][d]]
             /\ sub[t.node[z][d]] \cap sub[t.node[z][Other(d)]] = {}
             /\ t.node[z][d] # NULL => up[t.node[z][d]] = z
             /\ \A w \in sub[t.node[z][d]] : Before(d, t.node[w].key, t.node[z].key)
  BY <1>2 DEF Symmetric
<1>5. /\ y \in N /\ y # x /\ up[y] = x
      /\ inner \in N \cup {NULL} /\ outer \in N \cup {NULL} /\ other \in N \cup {NULL}
  <2>1. y \in N
    BY <1>4
  <2>2. y \in sub[y]
    BY <2>1, NodeType
  <2> QED
    BY <1>1, <1>4, <2>1, <2>2
<1>6. /\ sub[x] = {x} \cup sub[y] \cup sub[other] /\ sub[y] = {y} \cup sub[outer] \cup sub[inner]
      /\ x \notin sub[y] /\ x \notin sub[other] /\ y \notin sub[outer] /\ y \notin sub[inner]
      /\ sub[y] \cap sub[other] = {} /\ sub[outer] \cap sub[inner] = {}
  <2>1. /\ sub[x] = {x} \cup sub[y] \cup sub[other] /\ x \notin sub[y]
        /\ sub[y] \cap sub[other] = {}
    BY <1>4
  <2>2. x \notin sub[other]
    BY <1>1, <1>4
  <2>3. /\ sub[y] = {y} \cup sub[outer] \cup sub[inner] /\ y \notin sub[outer]
        /\ sub[outer] \cap sub[inner] = {}
    BY <1>4, <1>5
  <2>4. y \notin sub[inner]
    BY <1>1, <1>4, <1>5
  <2> QED
    BY <2>1, <2>2, <2>3, <2>4
<1>7. /\ inner # NULL => inner \in sub[inner] /\ up[inner] = y
      /\ outer # NULL => outer \in sub[outer] /\ up[outer] = y
      /\ other # NULL => other \in sub[other] /\ up[other] = x
  <2>1. \A z \in N : z \in sub[z]
    BY NodeType
  <2> QED
    BY <1>1, <1>4, <1>5, <2>1
<1>8. inner # x /\ inner # y /\ outer # x /\ outer # y /\ other # x /\ other # y
      /\ (inner = other => inner = NULL) /\ (inner = outer => inner = NULL)
  BY <1>3, <1>5, <1>6, <1>7
<1>9. /\ r \in TreeType /\ DOMAIN r.node = DOMAIN t.node /\ r.top = t.top
      /\ r.root = IF t.root = x THEN y ELSE t.root
      /\ r.node[x][s] = inner /\ r.node[x][o] = other
      /\ r.node[y][s] = outer /\ r.node[y][o] = x
      /\ r.node[x].size = SizeOf(t, inner) + SizeOf(t, other) + 1
      /\ r.node[y].size = t.node[x].size
      /\ \A z \in N \ {x, y} :
           /\ r.node[z].size = t.node[z].size
           /\ \A d \in Sides : r.node[z][d] = IF t.node[z][d] = x THEN y ELSE t.node[z][d]
      /\ \A z \in N : r.node[z].key = t.node[z].key /\ r.node[z].hash = t.node[z].hash
  BY DEF Rotated
<1>10. \A z \in N : /\ z = t.root => up[z] = NULL
                    /\ z # t.root => up[z] \in N /\ \E d \in Sides : t.node[up[z]][d] = z
  BY <1>2 DEF Symmetric
<1>11. t.root # y /\ (inner # NULL => inner # t.root)
  BY <1>3, <1>5, <1>7, <1>10
<1>12. /\ sub2[y] = sub[x] /\ sub2[x] = {x} \cup sub[inner] \cup sub[other]
       /\ \A z \in (N \cup {NULL}) \ {x, y} : sub2[z] = sub[z]
       /\ up2[y] = up[x] /\ up2[x] = y /\ (inner # NULL => up2[inner] = x)
       /\ \A z \in N \ {x, y, inner} : up2[z] = up[z]
  BY <1>3, <1>5, <1>8
<1>13. Rooted(r, N, sub2, up2)
  <2>1. sub2 \in [N \cup {NULL} -> SUBSET N]
    BY <1>3, <1>5
  <2>2. up2 \in [N -> N \cup {NULL}]
    BY <1>3, <1>5
  <2> HIDE DEF sub2, up2, y, inner, other, outer
  <2>3. sub2[NULL] = {} /\ sub2[r.root] = N
    BY <1>3, <1>5, <1>9, <1>11, <1>12
  <2> QED
    BY <1>3, <1>5, <1>9, <2>1, <2>2, <2>3 DEF Rooted
<1> HIDE DEF sub2, up2, y, inner, other, outer, o
<1>14. ASSUME NEW z \in N, NEW d \in Sides
       PROVE  /\ r.node[z][d] \in N \cup {NULL}
              /\ sub2[z] = {z} \cup sub2[r.node[z][d]] \cup sub2[r.node[z][Other(d)]]
              /\ z \notin sub2[r.node[z][d]]
              /\ sub2[r.node[z][d]] \cap sub2[r.node[z][Other(d)]] = {}
              /\ r.node[z][d] # NULL => up2[r.node[z][d]] = z
  <2>1. CASE z = x
    <3>1. sub2[inner] = sub[inner] /\ sub2[other] = sub[other]
      BY <1>5, <1>8, <1>12
    <3>2. other # NULL => up2[other] = x
      BY <1>5, <1>7, <1>8, <1>12
    <3>3. CASE d = s
      BY <1>1, <1>5, <1>6, <1>9, <1>12, <2>1, <3>1, <3>3 DEF o
    <3>4. CASE d = o
      BY <1>1, <1>5, <1>6, <1>9, <1>12, <2>1, <3>1, <3>2, <3>4
    <3> QED
      BY <1>1, <3>3, <3>4
  <2>2. CASE z = y
    <3>1. sub2[outer] = sub[outer] /\ sub2[x] = {x} \cup sub[inner] \cup sub[other]
      BY <1>5, <1>8, <1>12
    <3>2. outer # NULL => up2[outer] = y
      BY <1>5, <1>7, <1>8, <1>12
    <3>3. outer \in N \cup {NULL} /\ x \in N
      BY <1>5
    <3>4. /\ sub2[y] = {y} \cup sub2[outer] \cup sub2[x] /\ y \notin sub2[outer] /\ y \notin sub2[x]
          /\ sub2[outer] \cap sub2[x] = {}
      BY <1>5, <1>6, <1>12, <3>1
    <3>5. CASE d = s
      BY <1>1, <1>9, <1>12, <2>2, <3>2, <3>3, <3>4, <3>5 DEF o
    <3>6. CASE d = o
      BY <1>1, <1>9, <1>12, <2>2, <3>3, <3>4, <3>6
    <3> QED
      BY <1>1, <3>5, <3>6
  <2>3. CASE z # x /\ z # y
    <3> DEFINE c == t.node[z][d]
               e == t.node[z][Other(d)]
    <3>1. Other(d) \in Sides /\ Other(Other(d)) = d
      BY DEF Sides, Other
    <3>2. /\ c \in N \cup {NULL} /\ e \in N \cup {NULL}
          /\ sub[z] = {z} \cup sub[c] \cup sub[e] /\ z \notin sub[c] /\ sub[c] \cap sub[e] = {}
          /\ (c # NULL => up[c] = z) /\ (e # NULL => up[e] = z)
      BY <1>4, <3>1
    <3>3. /\ r.node[z][d] = (IF c = x THEN y ELSE c)
          /\ r.node[z][Other(d)] = (IF e = x THEN y ELSE e)
      BY <1>9, <2>3, <3>1
    <3> HIDE DEF c, e
    <3>4. ASSUME NEW v \in N \cup {NULL}, v # NULL => up[v] = z
          PROVE  LET w == IF v = x THEN y ELSE v
                 IN w \in N \cup {NULL} /\ sub2[w] = sub[v] /\ (w # NULL => up2[w] = z)
      <4>1. CASE v = x
        BY <1>5, <1>12, <3>4, <4>1, <1>3
      <4>2. CASE v = NULL
        BY <1>3, <1>5, <1>12, <4>2
      <4>3. CASE v # x /\ v # NULL
        <5>1. v # y /\ v # inner /\ v \in N
          BY <1>5, <1>7, <2>3, <3>4, <4>3
        <5> QED
          BY <1>12, <3>4, <4>3, <5>1
      <4> QED
        BY <4>1, <4>2, <4>3
    <3>5. sub2[z] = sub[z]
      BY <1>12, <2>3
    <3> QED
      BY <3>2, <3>3, <3>4, <3>5
  <2> QED
    BY <2>1, <2>2, <2>3
<1>15. ASSUME NEW z \in N, NEW d \in Sides, NEW w \in sub2[r.node[z][d]]
       PROVE  Before(d, r.node[w].key, r.node[z].key)
  <2>1. w \in N
    BY <1>13, <1>14 DEF Rooted
  <2>2. r.node[w].key = t.node[w].key /\ r.node[z].key = t.node[z].key
    BY <1>9, <2>1
  <2>3. CASE z = x
    <3>1. CASE d = s
      <4>1. w \in sub[y]
        BY <1>5, <1>6, <1>8, <1>9, <1>12, <1>15, <2>3, <3>1
      <4> QED
        BY <1>4, <2>2, <2>3, <3>1, <4>1 DEF y
    <3>2. CASE d = o
      <4>1. w \in sub[other]
        BY <1>5, <1>8, <1>9, <1>12, <1>15, <2>3, <3>2
      <4> QED
        BY <1>1, <1>4, <2>2, <2>3, <3>2, <4>1 DEF other
    <3> QED
      BY <1>1, <3>1, <3>2
  <2>4. CASE z = y
    <3>1. CASE d = s
      <4>1. w \in sub[outer]
        BY <1>5, <1>8, <1>9, <1>12, <1>15, <2>4, <3>1
      <4> QED
        BY <1>4, <1>5, <2>2, <2>4, <3>1, <4>1 DEF outer
    <3>2. CASE d = o
      <4>1. w = x \/ w \in sub[inner] \/ w \in sub[other]
        BY <1>9, <1>12, <1>15, <2>4, <3>2
      <4>2. y \in sub[y]
        BY <1>6
      <4>3. Before(s, t.node[y].key, t.node[x].key)
        BY <1>4, <4>2 DEF y
      <4>4. \A v \in sub[inner] : Before(o, t.node[v].key, t.node[y].key)
        BY <1>1, <1>4, <1>5 DEF inner
      <4>5. \A v \in sub[other] : Before(o, t.node[v].key, t.node[x].key)
        BY <1>1, <1>4 DEF other
      <4>6. t.node[x].key \in Int /\ t.node[y].key \in Int /\ t.node[w].key \in Int
        BY <1>5, <2>1, NodeType
      <4>7. w = x \/ w \in sub[inner] => Before(o, t.node[w].key, t.node[y].key)
        BY <1>1, <4>3, <4>4
      <4>8. Before(o, t.node[w].key, t.node[x].key) /\ Before(o, t.node[x].key, t.node[y].key)
              => Before(o, t.node[w].key, t.node[y].key)
        BY <4>6 DEF Before
      <4>9. w \in sub[other] => Before(o, t.node[w].key, t.node[y].key)
        BY <1>1, <4>3, <4>5, <4>8
      <4> QED
        BY <2>2, <2>4, <3>2, <4>1, <4>7, <4>9
    <3> QED
      BY <1>1, <3>1, <3>2
  <2>5. CASE z # x /\ z # y
    <3>1. t.node[z][d] \in N \cup {NULL} /\ (t.node[z][d] # NULL => up[t.node[z][d]] = z)
      BY <1>4
    <3>2. sub2[r.node[z][d]] = sub[t.node[z][d]]
      <4>1. CASE t.node[z][d] = x
        BY <1>9, <1>12, <2>5, <4>1
      <4>2. CASE t.node[z][d] # x
        <5>1. t.node[z][d] # y
          BY <1>5, <1>3, <2>5, <3>1
        <5> QED
          BY <1>9, <1>12, <2>5, <3>1, <4>2, <5>1
      <4> QED
        BY <4>1, <4>2
    <3> QED
      BY <1>4, <1>15, <2>2, <3>2
  <2> QED
    BY <2>3, <2>4, <2>5
<1>16. ASSUME NEW z \in N
       PROVE  /\ z = r.root => up2[z] = NULL
              /\ z # r.root => up2[z] \in N /\ \E d \in Sides : r.node[up2[z]][d] = z
  <2>1. CASE z = y
    <3>1. CASE t.root = x
      BY <1>9, <1>10, <1>12, <2>1, <3>1
    <3>2. CASE t.root # x
      <4>1. up[x] \in N /\ \E d \in Sides : t.node[up[x]][d] = x
        BY <1>10, <3>2
      <4>2. up[x] # x /\ up[x] # y
        <5>1. \A v \in N : v \in sub[v]
          BY NodeType
        <5> QED
          BY <1>4, <1>5, <1>6, <4>1, <5>1, <1>8, <1>1 DEF inner, outer, o, y, other
      <4> QED
        BY <1>9, <1>11, <1>12, <2>1, <3>2, <4>1, <4>2
    <3> QED
      BY <3>1, <3>2
  <2>2. CASE z = x
    <3>1. z # r.root
      BY <1>5, <1>9, <2>2
    <3> QED
      BY <1>1, <1>5, <1>9, <1>12, <2>2, <3>1
  <2>3. CASE z = inner
    <3>1. z # r.root /\ z # NULL
      BY <1>3, <1>8, <1>9, <1>11, <2>3
    <3> QED
      BY <1>9, <1>12, <2>3, <3>1
  <2>4. CASE z # x /\ z # y /\ z # inner
    <3>1. CASE z = r.root
      <4>1. z = t.root
        BY <1>9, <2>4, <3>1
      <4> QED
        BY <1>10, <1>12, <2>4, <3>1, <4>1
    <3>2. CASE z # r.root
      <4>1. z # t.root
        BY <1>9, <2>4, <3>2
      <4>2. up2[z] = up[z] /\ up[z] \in N
        BY <1>10, <1>12, <2>4, <4>1
      <4>3. PICK d \in Sides : t.node[up[z]][d] = z
        BY <1>10, <4>1
      <4>4. CASE up[z] = x
        <5>1. d = o /\ z = other
          BY <1>1, <2>4, <4>3, <4>4 DEF y, other
        <5> QED
          BY <1>9, <3>2, <4>2, <4>3, <4>4, <5>1
      <4>5. CASE up[z] = y
        <5>1. d = s /\ z = outer
          BY <1>1, <2>4, <4>3, <4>5 DEF inner, outer
        <5> QED
          BY <1>9, <3>2, <4>2, <4>3, <4>5, <5>1
      <4>6. CASE up[z] # x /\ up[z] # y
        <5>1. r.node[up[z]][d] = z
          BY <1>9, <2>4, <4>2, <4>3, <4>6
        <5> QED
          BY <3>2, <4>2, <5>1
      <4> QED
        BY <4>4, <4>5, <4>6
    <3> QED
      BY <3>1, <3>2
  <2> QED
    BY <2>1, <2>2, <2>3, <2>4
<1>17. Branching(r, N, sub2) /\ Fathered(r, N, up2) /\ Ordered(r, N, sub2)
  <2>1. Symmetric(r, N, sub2, up2)
    BY <1>14, <1>15, <1>16 DEF Symmetric
  <2> QED
    BY <2>1, TwoSides
<1>18. Sized(r, N, sub2)
  <2>0. \A z \in N : t.node[z].size = Cardinality(sub[z])
    BY DEF Tree, Sized
  <2>1. r.node[y].size = Cardinality(sub2[y])
    BY <1>9, <1>12, <2>0
  <2>2. r.node[x].size = Cardinality(sub2[x])
    <3>1. /\ SizeOf(t, inner) = Cardinality(sub[inner]) /\ SizeOf(t, other) = Cardinality(sub[other])
      BY <1>1, <1>5, SizesAdd DEF Sides, inner, other
    <3>2. IsFiniteSet(sub[inner]) /\ IsFiniteSet(sub[other])
      BY <1>3, <1>5, FS_Subset
    <3>3. x \notin sub[inner] /\ x \notin sub[other] /\ sub[inner] \cap sub[other] = {}
      BY <1>6
    <3>4. Cardinality({x} \cup sub[inner] \cup sub[other])
            = Cardinality(sub[inner]) + Cardinality(sub[other]) + 1
      BY <3>2, <3>3, DisjointSize
    <3> QED
      BY <1>9, <1>12, <3>1, <3>4
  <2>3. \A z \in N \ {x, y} : r.node[z].size = Cardinality(sub2[z])
    BY <1>9, <1>12, <2>0
  <2> QED
    BY <2>1, <2>2, <2>3 DEF Sized
<1>19. Hashed(r, N)
  BY <1>9 DEF Tree, Hashed
<1>20. Tree(r, N, sub2, up2)
  BY <1>13, <1>17, <1>18, <1>19 DEF Tree
<1> QED
  BY <1>20 DEF sub2, up2, y, inner, other, o, RotatedSub, RotatedUp

\* One field of a node, and one node of a tree.
LEMMA SetSon ==
  ASSUME NEW n \in Node, NEW s \in Sides, NEW v \in Blocks \cup {NULL}
  PROVE  LET m == [n EXCEPT ![s] = v]
         IN /\ m \in Node /\ m[s] = v /\ m[Other(s)] = n[Other(s)] /\ m.size = n.size
            /\ m.key = n.key /\ m.value = n.value /\ m.hash = n.hash /\ m.random = n.random
<1>1. CASE s = "left"
  BY <1>1 DEF Node, Other
<1>2. CASE s = "right"
  BY <1>2 DEF Node, Other
<1> QED
  BY <1>1, <1>2 DEF Sides

\* A new size keeps a node a node.
LEMMA SetSize ==
  ASSUME NEW n \in Node, NEW i \in Nat
  PROVE  LET m == [n EXCEPT !.size = i]
         IN /\ m \in Node /\ m.size = i /\ (\A s \in Sides : m[s] = n[s])
            /\ m.key = n.key /\ m.value = n.value /\ m.hash = n.hash /\ m.random = n.random
  BY DEF Node, Sides

Put(t, x, m) == [t EXCEPT !.node[x] = m]

\* Writing one node changes no other.
LEMMA PutIs ==
  ASSUME NEW t \in TreeType, NEW x \in DOMAIN t.node, NEW m \in Node
  PROVE  /\ Put(t, x, m) \in TreeType /\ DOMAIN Put(t, x, m).node = DOMAIN t.node
         /\ Put(t, x, m).root = t.root /\ Put(t, x, m).top = t.top
         /\ Put(t, x, m).node[x] = m
         /\ \A z \in DOMAIN t.node \ {x} : Put(t, x, m).node[z] = t.node[z]
<1> DEFINE D == DOMAIN t.node
           f == [t.node EXCEPT ![x] = m]
<1>1. t.node \in [D -> Node] /\ D \subseteq Blocks
  BY StoreType
<1>2. f \in [D -> Node] /\ DOMAIN f = D /\ f[x] = m /\ \A z \in D \ {x} : f[z] = t.node[z]
  BY <1>1
<1>3. Put(t, x, m).node = f /\ Put(t, x, m).root = t.root /\ Put(t, x, m).top = t.top
  BY DEF Put, TreeType
<1>4. f \in Stores
  <2> HIDE DEF f, D
  <2> QED
    BY <1>1, <1>2, IsStore
<1>5. Put(t, x, m) \in TreeType
  BY <1>4 DEF Put, TreeType
<1> QED
  BY <1>2, <1>3, <1>5

\* Rotate makes that change: the sizes and both links are written back.
LEMMA RotateIs ==
  ASSUME NEW t, NEW N, NEW sub, NEW up, Tree(t, N, sub, up),
         NEW x \in N, NEW s \in Sides, t.node[x][s] # NULL
  PROVE  Rotated(t, Rotate(t, up[x], x, s), N, x, s, t.node[x][s])
<1> DEFINE y == t.node[x][s]
           o == Other(s)
           fa == up[x]
           inner == t.node[y][o]
           other == t.node[x][o]
           D == DOMAIN t.node
           n1 == [t.node[x] EXCEPT ![s] = inner]
           n2 == [t.node[y] EXCEPT ![o] = x]
           n3 == [n2 EXCEPT !.size = t.node[x].size]
           t1 == Put(t, x, n1)
           t2 == Put(t1, y, n2)
           t3 == Put(t2, y, n3)
           t4 == Redirect(t3, fa, x, y)
           t5 == Adapt(t4, x)
           r == [t5 EXCEPT !.root = IF @ = x THEN y ELSE @]
<1>1. /\ t \in TreeType /\ N \subseteq D /\ NULL \notin N /\ fa \in N \cup {NULL}
      /\ t.root \in N \cup {NULL} /\ N \subseteq Blocks /\ D \subseteq Blocks /\ NULL \notin D
      /\ \A z \in D : t.node[z] \in Node
  <2>1. t \in TreeType /\ N \subseteq D /\ NULL \notin N /\ t.root \in N \cup {NULL}
        /\ up \in [N -> N \cup {NULL}]
    BY TreeHas
  <2>2. D \subseteq Blocks /\ t.node \in [D -> Node] /\ NULL \notin D
    BY <2>1, StoreType
  <2> QED
    BY <2>1, <2>2
<1>2. Symmetric(t, N, sub, up)
  BY TwoSides DEF Tree
<1>3. o \in Sides /\ Other(o) = s /\ Sides = {s, o} /\ s # o
  BY DEF Other, Sides
<1>4. /\ y \in N /\ up[y] = x /\ y # x /\ inner \in N \cup {NULL} /\ other \in N \cup {NULL}
      /\ (inner # NULL => up[inner] = y) /\ (other # NULL => up[other] = x)
      /\ inner # y /\ inner # x /\ other # x /\ other # y
  <2>1. y \in N /\ up[y] = x
    BY <1>2 DEF Symmetric
  <2>2. /\ inner \in N \cup {NULL} /\ other \in N \cup {NULL}
        /\ (inner # NULL => up[inner] = y) /\ (other # NULL => up[other] = x)
        /\ x \notin sub[y] /\ y \notin sub[inner] /\ x \notin sub[other]
        /\ sub[y] \cap sub[other] = {} /\ sub[y] = {y} \cup sub[inner] \cup sub[t.node[y][s]]
    BY <1>2, <1>3, <2>1 DEF Symmetric
  <2>3. \A z \in N : z \in sub[z]
    BY NodeType
  <2> QED
    BY <1>1, <2>1, <2>2, <2>3
<1>5. fa # x /\ fa # y
  <2>1. fa # NULL => \E d \in Sides : t.node[fa][d] = x
    BY <1>1, <1>2 DEF Symmetric
  <2>2. fa # x
    <3> SUFFICES ASSUME fa = x PROVE FALSE
      OBVIOUS
    <3>1. PICK d \in Sides : t.node[x][d] = x
      BY <1>1, <2>1
    <3> QED
      BY <1>3, <1>4, <3>1
  <2>3. fa # y
    <3> SUFFICES ASSUME fa = y PROVE FALSE
      OBVIOUS
    <3>1. PICK d \in Sides : t.node[y][d] = x
      BY <1>1, <1>4, <2>1
    <3>2. sub[x] \subseteq sub[y] /\ x \notin sub[y] /\ x \in sub[x]
      BY <1>2, <1>4, <3>1, NodeType DEF Symmetric
    <3> QED
      BY <3>2
  <2> QED
    BY <2>2, <2>3
<1>6. Rotate(t, up[x], x, s) = r
  <2>1. t3 = [t EXCEPT !.node[x][s] = inner, !.node[y][o] = x, !.node[y].size = t.node[x].size]
    BY <1>1, <1>4 DEF Put, TreeType
  <2> HIDE DEF t3
  <2> QED
    BY <2>1 DEF Rotate
<1>7. n1 \in Node /\ n1[s] = inner /\ n1[o] = other /\ n1.size = t.node[x].size
      /\ n1.key = t.node[x].key /\ n1.value = t.node[x].value
      /\ n1.hash = t.node[x].hash /\ n1.random = t.node[x].random
  BY <1>1, <1>4, SetSon
<1>8. n2 \in Node /\ n2[s] = t.node[y][s] /\ n2[o] = x
      /\ n2.key = t.node[y].key /\ n2.value = t.node[y].value
      /\ n2.hash = t.node[y].hash /\ n2.random = t.node[y].random
  <2> HIDE DEF y, o, n2, inner, other
  <2> QED
    BY <1>1, <1>3, <1>4, SetSon DEF n2
<1>9. n3 \in Node /\ n3[s] = t.node[y][s] /\ n3[o] = x /\ n3.size = t.node[x].size
      /\ n3.key = t.node[y].key /\ n3.value = t.node[y].value
      /\ n3.hash = t.node[y].hash /\ n3.random = t.node[y].random
  <2>1. t.node[x].size \in Nat
    BY <1>1 DEF Node
  <2> HIDE DEF n2, y
  <2> QED
    BY <1>3, <1>8, <2>1, SetSize
<1> HIDE DEF n1, n2, n3, y, o, inner, other, fa
<1>10. /\ t1 \in TreeType /\ DOMAIN t1.node = D /\ t1.root = t.root /\ t1.top = t.top
       /\ t1.node[x] = n1 /\ \A z \in D \ {x} : t1.node[z] = t.node[z]
  BY <1>1, <1>7, PutIs
<1> HIDE DEF t1
<1>11. /\ t2 \in TreeType /\ DOMAIN t2.node = D /\ t2.root = t.root /\ t2.top = t.top
       /\ t2.node[y] = n2 /\ \A z \in D \ {y} : t2.node[z] = t1.node[z]
  BY <1>1, <1>4, <1>8, <1>10, PutIs
<1> HIDE DEF t2
<1>12. /\ t3 \in TreeType /\ DOMAIN t3.node = D /\ t3.root = t.root /\ t3.top = t.top
       /\ t3.node[y] = n3 /\ \A z \in D \ {y} : t3.node[z] = t2.node[z]
  BY <1>1, <1>4, <1>9, <1>11, PutIs
<1> HIDE DEF t3
<1>13. /\ t3.node[x] = n1 /\ t3.node[y] = n3 /\ \A z \in D \ {x, y} : t3.node[z] = t.node[z]
  BY <1>1, <1>4, <1>10, <1>11, <1>12
\* The pointer in the father.
<1>14. /\ t4 \in TreeType /\ DOMAIN t4.node = D /\ t4.root = t.root /\ t4.top = t.top
       /\ \A z \in D \ {fa} : t4.node[z] = t3.node[z]
       /\ \A z \in {fa} \cap N :
            /\ \A d \in Sides : t4.node[z][d] = IF t.node[z][d] = x THEN y ELSE t.node[z][d]
            /\ t4.node[z].size = t.node[z].size
            /\ t4.node[z].key = t.node[z].key /\ t4.node[z].value = t.node[z].value
            /\ t4.node[z].hash = t.node[z].hash /\ t4.node[z].random = t.node[z].random
  <2>1. CASE fa = NULL
    BY <1>1, <1>12, <2>1 DEF Redirect
  <2>2. CASE fa # NULL
    <3>1. fa \in N /\ fa \in D /\ t3.node[fa] = t.node[fa] /\ t.node[fa] \in Node
      BY <1>1, <1>5, <1>13, <2>2
    <3>2. PICK e \in Sides : t.node[fa][e] = x /\ t4 = Put(t3, fa, [t.node[fa] EXCEPT ![e] = y])
      <4>1. t.node[fa].left = x \/ t.node[fa].right = x
        BY <1>1, <1>2, <2>2 DEF Symmetric, Sides, fa
      <4>2. CASE t.node[fa].left = x
        <5>1. t4 = Put(t3, fa, [t.node[fa] EXCEPT !["left"] = y])
          BY <2>2, <3>1, <4>2, <1>12 DEF Redirect, Put, TreeType
        <5>2. t.node[fa]["left"] = x /\ "left" \in Sides
          BY <4>2 DEF Sides
        <5> HIDE DEF t4
        <5> QED
          BY <5>1, <5>2
      <4>3. CASE t.node[fa].left # x
        <5>1. t4 = Put(t3, fa, [t.node[fa] EXCEPT !["right"] = y])
          BY <2>2, <3>1, <4>3, <1>12 DEF Redirect, Put, TreeType
        <5>2. t.node[fa]["right"] = x /\ "right" \in Sides
          BY <4>1, <4>3 DEF Sides
        <5> HIDE DEF t4
        <5> QED
          BY <5>1, <5>2
      <4> QED
        BY <4>2, <4>3
    <3> DEFINE m == [t.node[fa] EXCEPT ![e] = y]
    <3> HIDE DEF t4
    <3>3. /\ m \in Node /\ m[e] = y /\ m[Other(e)] = t.node[fa][Other(e)]
          /\ m.size = t.node[fa].size /\ m.key = t.node[fa].key /\ m.value = t.node[fa].value
          /\ m.hash = t.node[fa].hash /\ m.random = t.node[fa].random
      BY <1>1, <1>4, <3>1, SetSon
    <3>6. t4 = Put(t3, fa, m)
      BY <3>2
    <3> HIDE DEF m
    <3>4. /\ t4 \in TreeType /\ DOMAIN t4.node = D /\ t4.root = t.root /\ t4.top = t.top
          /\ t4.node[fa] = m /\ \A z \in D \ {fa} : t4.node[z] = t3.node[z]
      BY <1>12, <3>1, <3>3, <3>6, PutIs
    <3>5. t.node[fa][Other(e)] # x /\ Sides = {e, Other(e)}
      <4>1. Sides = {e, Other(e)}
        BY DEF Sides, Other
      <4>2. sub[t.node[fa][e]] \cap sub[t.node[fa][Other(e)]] = {}
        BY <1>2, <3>1 DEF Symmetric
      <4>3. x \in sub[x]
        BY NodeType
      <4> QED
        BY <3>2, <4>1, <4>2, <4>3
    <3> QED
      BY <1>1, <1>5, <3>1, <3>2, <3>3, <3>4, <3>5
  <2> QED
    BY <2>1, <2>2
<1> HIDE DEF t4
<1>15. /\ t4.node[x] = n1 /\ t4.node[y] = n3
       /\ \A z \in D \ {x, y, fa} : t4.node[z] = t.node[z]
  BY <1>1, <1>4, <1>5, <1>13, <1>14
<1>16. /\ SizeOf(t4, inner) = SizeOf(t, inner) /\ SizeOf(t4, inner) \in Nat
       /\ SizeOf(t4, other) = SizeOf(t, other) /\ SizeOf(t4, other) \in Nat
  <2>1. inner # NULL => t4.node[inner].size = t.node[inner].size /\ t.node[inner].size \in Nat
    BY <1>1, <1>4, <1>14, <1>15 DEF Node
  <2>2. other # NULL => t4.node[other].size = t.node[other].size /\ t.node[other].size \in Nat
    BY <1>1, <1>4, <1>14, <1>15 DEF Node
  <2> QED
    BY <2>1, <2>2 DEF SizeOf
<1> DEFINE size == SizeOf(t, inner) + SizeOf(t, other) + 1
           n5 == [n1 EXCEPT !.size = size]
<1>17. size \in Nat
  BY <1>16
<1>18. t5 = Put(t4, x, n5)
  <2>2. SizeOf(t4, n1.left) + SizeOf(t4, n1.right) + 1 = size
    <3>1. CASE s = "left"
      BY <1>3, <1>7, <1>16, <3>1 DEF Sides
    <3>2. CASE s = "right"
      BY <1>3, <1>7, <1>16, <3>2 DEF Sides
    <3> QED
      BY <3>1, <3>2 DEF Sides
  <2> HIDE DEF size
  <2> QED
    BY <1>14, <1>15, <2>2 DEF Adapt, Put, TreeType
<1> HIDE DEF size, n5, t5
<1>19. /\ n5 \in Node /\ n5.size = size /\ n5[s] = inner /\ n5[o] = other
       /\ n5.key = t.node[x].key /\ n5.value = t.node[x].value
       /\ n5.hash = t.node[x].hash /\ n5.random = t.node[x].random
  BY <1>3, <1>7, <1>17, SetSize DEF n5
<1>20. /\ t5 \in TreeType /\ DOMAIN t5.node = D /\ t5.root = t.root /\ t5.top = t.top
       /\ t5.node[x] = n5 /\ \A z \in D \ {x} : t5.node[z] = t4.node[z]
  BY <1>1, <1>14, <1>18, <1>19, PutIs
<1>21. /\ r \in TreeType /\ r.node = t5.node /\ r.top = t.top
       /\ r.root = IF t.root = x THEN y ELSE t.root
  <2>1. y \in Blocks
    BY <1>1, <1>4
  <2> QED
    BY <1>20, <2>1 DEF TreeType
<1> HIDE DEF r
<1>22. /\ r.node[x] = n5 /\ r.node[y] = n3
       /\ \A z \in D \ {x, y} : r.node[z] = t4.node[z]
       /\ DOMAIN r.node = D
  BY <1>1, <1>4, <1>15, <1>20, <1>21
<1>23. ASSUME NEW z \in N \ {x, y}
       PROVE  /\ r.node[z].size = t.node[z].size
              /\ \A d \in Sides : r.node[z][d] = IF t.node[z][d] = x THEN y ELSE t.node[z][d]
              /\ r.node[z].key = t.node[z].key /\ r.node[z].value = t.node[z].value
              /\ r.node[z].hash = t.node[z].hash /\ r.node[z].random = t.node[z].random
  <2>1. r.node[z] = t4.node[z]
    BY <1>1, <1>22
  <2>2. CASE z = fa
    BY <1>14, <2>1, <2>2
  <2>3. CASE z # fa
    <3>1. \A d \in Sides : t.node[z][d] # x
      BY <1>1, <1>2, <2>3 DEF Symmetric, fa
    <3> QED
      BY <1>1, <1>15, <2>1, <2>3, <3>1
  <2> QED
    BY <2>2, <2>3
<1>24. \A z \in D \ N : r.node[z] = t.node[z]
  BY <1>1, <1>4, <1>15, <1>22
<1> HIDE DEF D
<1>25. Rotated(t, r, N, x, s, y)
  <2>1. \A z \in N :
          /\ r.node[z].key = t.node[z].key /\ r.node[z].value = t.node[z].value
          /\ r.node[z].hash = t.node[z].hash /\ r.node[z].random = t.node[z].random
    BY <1>9, <1>19, <1>22, <1>23
  <2>2. /\ r.node[x][s] = inner /\ r.node[x][o] = other /\ r.node[x].size = size
        /\ r.node[y][s] = t.node[y][s] /\ r.node[y][o] = x /\ r.node[y].size = t.node[x].size
    BY <1>9, <1>19, <1>22
  <2> QED
    BY <1>21, <1>22, <1>23, <1>24, <2>1, <2>2 DEF Rotated, inner, other, o, size, D
<1> QED
  BY <1>6, <1>25 DEF y

-----------------------------------------------------------------------------
(***************************************************************************)
(* Insert.                                                                 *)
(***************************************************************************)
LEMMA SaveIs ==
  ASSUME NEW t \in TreeType, NEW x \in Blocks, NEW n \in Node
  PROVE  /\ Save(t, x, n) \in TreeType /\ DOMAIN Save(t, x, n).node = DOMAIN t.node \cup {x}
         /\ Save(t, x, n).root = t.root /\ Save(t, x, n).top = t.top
         /\ Save(t, x, n).node[x] = n
         /\ \A z \in DOMAIN t.node \ {x} : Save(t, x, n).node[z] = t.node[z]
<1> DEFINE D == DOMAIN t.node
           E == D \cup {x}
           f == [b \in E |-> IF b = x THEN n ELSE t.node[b]]
<1>1. t.node \in [D -> Node] /\ D \subseteq Blocks
  BY StoreType
<1>2. f \in [E -> Node] /\ DOMAIN f = E /\ f[x] = n /\ \A z \in D \ {x} : f[z] = t.node[z]
  BY <1>1
<1>3. Save(t, x, n).node = f /\ Save(t, x, n).root = t.root /\ Save(t, x, n).top = t.top
  BY DEF Save, TreeType
<1>4. E \in SUBSET Blocks
  BY <1>1
<1>5. f \in Stores
  <2> HIDE DEF f, E
  <2> QED
    BY <1>2, <1>4, IsStore
<1>6. Save(t, x, n) \in TreeType
  BY <1>5 DEF Save, TreeType
<1> QED
  BY <1>2, <1>3, <1>6

\* Discard takes one block away and changes no other.
LEMMA DiscardIs ==
  ASSUME NEW t \in TreeType, NEW x
  PROVE  /\ Discard(t, x) \in TreeType /\ DOMAIN Discard(t, x).node = DOMAIN t.node \ {x}
         /\ Discard(t, x).root = t.root /\ Discard(t, x).top = t.top
         /\ \A z \in DOMAIN t.node \ {x} : Discard(t, x).node[z] = t.node[z]
<1> DEFINE D == DOMAIN t.node
           E == D \ {x}
           f == [b \in E |-> t.node[b]]
<1>1. t.node \in [D -> Node] /\ D \subseteq Blocks
  BY StoreType
<1>2. f \in [E -> Node] /\ DOMAIN f = E /\ \A z \in E : f[z] = t.node[z]
  BY <1>1
<1>3. Discard(t, x).node = f /\ Discard(t, x).root = t.root /\ Discard(t, x).top = t.top
  BY DEF Discard, TreeType
<1>4. E \in SUBSET Blocks
  BY <1>1
<1>5. f \in Stores
  <2> HIDE DEF f, E
  <2> QED
    BY <1>2, <1>4, IsStore
<1>6. Discard(t, x) \in TreeType
  BY <1>5 DEF Discard, TreeType
<1> QED
  BY <1>2, <1>3, <1>6

\* Resize changes the sizes on the way, and nothing else.
LEMMA ResizeIs ==
  ASSUME NEW t \in TreeType, NEW way, NEW i \in Int,
         \A z \in way \cap DOMAIN t.node : t.node[z].size + i \in Nat
  PROVE  /\ Resize(t, way, i) \in TreeType /\ DOMAIN Resize(t, way, i).node = DOMAIN t.node
         /\ Resize(t, way, i).root = t.root /\ Resize(t, way, i).top = t.top
         /\ \A z \in DOMAIN t.node :
              /\ Resize(t, way, i).node[z].size
                   = IF z \in way THEN t.node[z].size + i ELSE t.node[z].size
              /\ \A s \in Sides : Resize(t, way, i).node[z][s] = t.node[z][s]
              /\ Resize(t, way, i).node[z].key = t.node[z].key
              /\ Resize(t, way, i).node[z].value = t.node[z].value
              /\ Resize(t, way, i).node[z].hash = t.node[z].hash
              /\ Resize(t, way, i).node[z].random = t.node[z].random
              /\ z \notin way => Resize(t, way, i).node[z] = t.node[z]
<1> DEFINE D == DOMAIN t.node
           grown(z) == [t.node[z] EXCEPT !.size = @ + i]
           f == [z \in D |-> IF z \in way THEN grown(z) ELSE t.node[z]]
<1>1. t.node \in [D -> Node] /\ D \in SUBSET Blocks
  BY StoreType
<1>2. ASSUME NEW z \in D, z \in way
      PROVE  /\ grown(z) \in Node /\ grown(z).size = t.node[z].size + i
             /\ \A s \in Sides : grown(z)[s] = t.node[z][s]
             /\ grown(z).key = t.node[z].key /\ grown(z).value = t.node[z].value
             /\ grown(z).hash = t.node[z].hash /\ grown(z).random = t.node[z].random
  <2> DEFINE m == t.node[z].size + i
  <2>1. t.node[z] \in Node /\ m \in Nat /\ grown(z) = [t.node[z] EXCEPT !.size = m]
    BY <1>1, <1>2 DEF Node
  <2> HIDE DEF m, grown
  <2> QED
    BY <2>1, SetSize DEF m
<1>3. \A z \in D : f[z] = IF z \in way THEN grown(z) ELSE t.node[z]
  OBVIOUS
<1>4. Resize(t, way, i).node = f /\ Resize(t, way, i).root = t.root /\ Resize(t, way, i).top = t.top
  BY DEF Resize, TreeType
<1>5. DOMAIN f = D /\ f = [z \in D |-> f[z]]
  OBVIOUS
<1> HIDE DEF f, grown
<1>6. f \in [D -> Node]
  BY <1>1, <1>2, <1>3, <1>5
<1>7. f \in Stores
  <2> HIDE DEF D
  <2> QED
    BY <1>1, <1>6, IsStore
<1>8. Resize(t, way, i) \in TreeType
  BY <1>4, <1>7 DEF Resize, TreeType
<1>9. ASSUME NEW z \in D
      PROVE  /\ f[z].size = IF z \in way THEN t.node[z].size + i ELSE t.node[z].size
             /\ \A s \in Sides : f[z][s] = t.node[z][s]
             /\ f[z].key = t.node[z].key /\ f[z].value = t.node[z].value
             /\ f[z].hash = t.node[z].hash /\ f[z].random = t.node[z].random
             /\ z \notin way => f[z] = t.node[z]
  BY <1>2, <1>3
<1> QED
  BY <1>4, <1>5, <1>8, <1>9

Data == [key : Keys, value : Values, random : Randoms]

\* The new leaf is a node with the data given.
LEMMA LeafType ==
  ASSUME NEW t \in TreeType, NEW d \in Data
  PROVE  /\ Leaf(t, d) \in Node /\ Leaf(t, d).size = 1 /\ Leaf(t, d).hash = t.top + 1
         /\ Leaf(t, d).key = d.key /\ Leaf(t, d).value = d.value
         /\ \A s \in Sides : Leaf(t, d)[s] = NULL
<1>1. t.top + 1 \in Nat
  BY StoreType
<1> QED
  BY <1>1 DEF Leaf, Node, Data, Sides

\* The way down to the place of the new node.
LEMMA InsertWayIs ==
  ASSUME NEW t, NEW N, NEW sub, NEW up, Tree(t, N, sub, up), t.root # NULL, NEW d
  PROVE  LET son == InsertSon(t, d)
             side == InsertSide(t, d)
             way == InsertWay(t, d)
             last == LastOf(son, way)
         IN /\ Descending(t, N, son) /\ t.root \in way /\ way \subseteq N
            /\ last \in way /\ son[last] = NULL
            /\ \A z \in way : son[z] = NULL => z = last
            /\ \A z \in way : son[z] \in way \cup {NULL}
            /\ \A z \in N : z \in way <=> last \in sub[z]
            /\ \A z \in N : side[z] \in Sides /\ son[z] = t.node[z][side[z]]
            /\ \A z \in way : Father(son, way, z) = up[z]
<1> DEFINE son == InsertSon(t, d)
           side == InsertSide(t, d)
           way == InsertWay(t, d)
           last == LastOf(son, way)
<1>1. t.root \in N /\ sub[t.root] = N /\ N \subseteq DOMAIN t.node /\ up[t.root] = NULL
  <2>1. t.root \in N /\ sub[t.root] = N /\ N \subseteq DOMAIN t.node
    BY TreeHas
  <2> QED
    BY <2>1 DEF Tree, Fathered
<1>2. \A z \in N : side[z] \in Sides /\ son[z] = t.node[z][side[z]]
  BY <1>1 DEF InsertSon, InsertSide, Sides
<1>3. Descending(t, N, son)
  <2>1. DOMAIN son = DOMAIN t.node
    BY DEF InsertSon
  <2>2. \A z \in N : son[z] \in {t.node[z].left, t.node[z].right, NULL}
    BY <1>2 DEF Sides
  <2> QED
    BY <2>1, <2>2 DEF Descending
<1>4. way = Walk(son, t.root)
  BY DEF InsertWay
<1> HIDE DEF son, side, way
<1>5. t.root \in way /\ way \subseteq N /\ \A z \in way : son[z] \in way \cup {NULL}
  BY <1>1, <1>3, <1>4, WalkDown
<1>6. /\ last \in way /\ son[last] = NULL /\ (\A z \in way : son[z] = NULL => z = last)
      /\ \A z \in N : z \in way <=> last \in sub[z]
  BY <1>1, <1>3, <1>4, WalkIsAbove
<1>7. \A z \in way : Father(son, way, z) = up[z]
  BY <1>1, <1>3, <1>4, FatherIs
<1> QED
  BY <1>2, <1>3, <1>5, <1>6, <1>7 DEF son, side, way

\* The tree with the leaf hung on it.
Planted(t, p, N, d, new) ==
  LET son == InsertSon(t, d)
      side == InsertSide(t, d)
      way == InsertWay(t, d)
      last == LastOf(son, way)
  IN /\ p \in TreeType /\ DOMAIN p.node = DOMAIN t.node \cup {new}
     /\ p.root = t.root /\ p.top = t.top + 1
     /\ p.node[new] = Leaf(t, d)
     /\ \A z \in N :
          /\ \A s \in Sides : p.node[z][s] = IF z = last /\ s = side[last] THEN new ELSE t.node[z][s]
          /\ p.node[z].size = IF z \in way THEN t.node[z].size + 1 ELSE t.node[z].size
          /\ p.node[z].key = t.node[z].key /\ p.node[z].value = t.node[z].value
          /\ p.node[z].hash = t.node[z].hash /\ p.node[z].random = t.node[z].random
     /\ \A z \in DOMAIN t.node \ N : p.node[z] = t.node[z]

\* Plant hangs the leaf on the node where the way ends.
LEMMA PlantIs ==
  ASSUME NEW t, NEW N, NEW sub, NEW up, Tree(t, N, sub, up), t.root # NULL,
         NEW d \in Data, NEW new \in Blocks, new \notin DOMAIN t.node
  PROVE  Planted(t, Plant(t, d, new), N, d, new)
<1> DEFINE son == InsertSon(t, d)
           side == InsertSide(t, d)
           way == InsertWay(t, d)
           last == LastOf(son, way)
           D == DOMAIN t.node
           t1 == Resize(t, way, 1)
           t2 == Save(t1, new, Leaf(t, d))
           n3 == [t2.node[last] EXCEPT ![side[last]] = new]
           t3 == Put(t2, last, n3)
           p == [t3 EXCEPT !.top = @ + 1]
<1>1. /\ t \in TreeType /\ N \subseteq D /\ way \subseteq N /\ last \in way /\ side[last] \in Sides
      /\ \A z \in D : t.node[z] \in Node
  <2>1. t \in TreeType /\ N \subseteq D
    BY TreeHas
  <2>2. \A z \in D : t.node[z] \in Node
    BY <2>1, StoreType
  <2>3. way \subseteq N /\ last \in way /\ side[last] \in Sides
    BY InsertWayIs
  <2> QED
    BY <2>1, <2>2, <2>3
<1>2. /\ t1 \in TreeType /\ DOMAIN t1.node = D /\ t1.root = t.root /\ t1.top = t.top
      /\ \A z \in D :
           /\ t1.node[z].size = IF z \in way THEN t.node[z].size + 1 ELSE t.node[z].size
           /\ \A s \in Sides : t1.node[z][s] = t.node[z][s]
           /\ t1.node[z].key = t.node[z].key /\ t1.node[z].value = t.node[z].value
           /\ t1.node[z].hash = t.node[z].hash /\ t1.node[z].random = t.node[z].random
           /\ z \notin way => t1.node[z] = t.node[z]
  <2>1. \A z \in way \cap D : t.node[z].size + 1 \in Nat
    BY <1>1 DEF Node
  <2> HIDE DEF way
  <2> QED
    BY <1>1, <2>1, ResizeIs
<1>3. Plant(t, d, new) = p
  <2>1. /\ t2.node = [b \in D \cup {new} |-> IF b = new THEN Leaf(t, d) ELSE t1.node[b]]
        /\ DOMAIN t2 = {"node", "root", "top"}
    BY <1>2 DEF Save, TreeType
  <2>2. p = [t2 EXCEPT !.top = @ + 1, !.node[last][side[last]] = new]
    <3> HIDE DEF t2, side, last
    <3> QED
      BY <2>1 DEF Put
  <2> QED
    BY <2>2 DEF Plant
<1> HIDE DEF t1
<1>4. /\ t2 \in TreeType /\ DOMAIN t2.node = D \cup {new} /\ t2.root = t.root /\ t2.top = t.top
      /\ t2.node[new] = Leaf(t, d) /\ \A z \in D \ {new} : t2.node[z] = t1.node[z]
  <2>1. Leaf(t, d) \in Node
    BY <1>1, LeafType
  <2> QED
    BY <1>2, <2>1, SaveIs
<1> HIDE DEF t2, son, side, way, last
<1>5. /\ n3 \in Node /\ n3[side[last]] = new /\ n3[Other(side[last])] = t2.node[last][Other(side[last])]
      /\ n3.size = t2.node[last].size /\ n3.key = t2.node[last].key
      /\ n3.value = t2.node[last].value /\ n3.hash = t2.node[last].hash
      /\ n3.random = t2.node[last].random
  <2>1. t2.node[last] \in Node
    BY <1>1, <1>4, StoreType
  <2> QED
    BY <1>1, <2>1, SetSon
<1> HIDE DEF n3
<1>6. /\ t3 \in TreeType /\ DOMAIN t3.node = D \cup {new} /\ t3.root = t.root /\ t3.top = t.top
      /\ t3.node[last] = n3 /\ \A z \in (D \cup {new}) \ {last} : t3.node[z] = t2.node[z]
  BY <1>1, <1>4, <1>5, PutIs
<1> HIDE DEF t3
<1>7. p \in TreeType /\ p.node = t3.node /\ p.root = t.root /\ p.top = t.top + 1
  BY <1>6 DEF TreeType
<1> HIDE DEF p
<1>8. last # new /\ \A z \in N : z \in D /\ z # new
  BY <1>1
<1>9. \A s \in Sides : s = side[last] \/ s = Other(side[last])
  BY <1>1 DEF Sides, Other
<1>10. ASSUME NEW z \in N
       PROVE  /\ \A s \in Sides : p.node[z][s] = IF z = last /\ s = side[last] THEN new ELSE t.node[z][s]
              /\ p.node[z].size = IF z \in way THEN t.node[z].size + 1 ELSE t.node[z].size
              /\ p.node[z].key = t.node[z].key /\ p.node[z].value = t.node[z].value
              /\ p.node[z].hash = t.node[z].hash /\ p.node[z].random = t.node[z].random
  <2>1. CASE z = last
    <3>1. p.node[z] = n3 /\ t2.node[z] = t1.node[z]
      BY <1>4, <1>6, <1>7, <1>8, <2>1
    <3> QED
      BY <1>1, <1>2, <1>5, <1>8, <1>9, <2>1, <3>1
  <2>2. CASE z # last
    <3>1. p.node[z] = t1.node[z]
      BY <1>4, <1>6, <1>7, <1>8, <2>2
    <3> QED
      BY <1>2, <1>8, <2>2, <3>1
  <2> QED
    BY <2>1, <2>2
<1>11. p.node[new] = Leaf(t, d) /\ DOMAIN p.node = D \cup {new}
  BY <1>4, <1>6, <1>7, <1>8
<1>12. \A z \in D \ N : p.node[z] = t.node[z]
  BY <1>1, <1>2, <1>4, <1>6, <1>7, <1>8
<1>13. Planted(t, p, N, d, new)
  BY <1>7, <1>10, <1>11, <1>12 DEF Planted, D, last, son, side, way
<1> QED
  BY <1>3, <1>13

PlantedSub(t, N, sub, d, new) ==
  [z \in N \cup {new} \cup {NULL} |->
     IF z = new THEN {new} ELSE IF z \in InsertWay(t, d) THEN sub[z] \cup {new} ELSE sub[z]]

PlantedUp(t, N, up, d, new) ==
  [z \in N \cup {new} |->
     IF z = new THEN LastOf(InsertSon(t, d), InsertWay(t, d)) ELSE up[z]]

\* The tree is still one, with the new node in it.
LEMMA PlantedIsTree ==
  ASSUME NEW t, NEW N, NEW sub, NEW up, Tree(t, N, sub, up), t.root # NULL,
         NEW d \in Data, \A z \in N : t.node[z].key # d.key,
         NEW new \in Blocks, new \notin DOMAIN t.node, NEW p, Planted(t, p, N, d, new)
  PROVE  Tree(p, N \cup {new}, PlantedSub(t, N, sub, d, new), PlantedUp(t, N, up, d, new))
<1> DEFINE son == InsertSon(t, d)
           side == InsertSide(t, d)
           way == InsertWay(t, d)
           last == LastOf(son, way)
           M == N \cup {new}
           sub2 == [z \in M \cup {NULL} |->
                      IF z = new THEN {new} ELSE IF z \in way THEN sub[z] \cup {new} ELSE sub[z]]
           up2 == [z \in M |-> IF z = new THEN last ELSE up[z]]
<1>1. /\ t \in TreeType /\ N \subseteq DOMAIN t.node /\ IsFiniteSet(N) /\ NULL \notin N
      /\ t.root \in N \cup {NULL} /\ sub[t.root] = N /\ sub[NULL] = {}
      /\ sub \in [N \cup {NULL} -> SUBSET N] /\ up \in [N -> N \cup {NULL}]
  BY TreeHas
<1>2. /\ t.root \in way /\ way \subseteq N /\ last \in way /\ son[last] = NULL
      /\ \A z \in way : son[z] = NULL => z = last
      /\ \A z \in way : son[z] \in way \cup {NULL}
      /\ \A z \in N : z \in way <=> last \in sub[z]
      /\ \A z \in N : side[z] \in Sides /\ son[z] = t.node[z][side[z]]
  BY InsertWayIs
<1>3. /\ p \in TreeType /\ DOMAIN p.node = DOMAIN t.node \cup {new}
      /\ p.root = t.root /\ p.top = t.top + 1 /\ p.node[new] = Leaf(t, d)
      /\ \A z \in N :
           /\ \A s \in Sides : p.node[z][s] = IF z = last /\ s = side[last] THEN new ELSE t.node[z][s]
           /\ p.node[z].size = IF z \in way THEN t.node[z].size + 1 ELSE t.node[z].size
           /\ p.node[z].key = t.node[z].key /\ p.node[z].hash = t.node[z].hash
  BY DEF Planted
<1>4. Symmetric(t, N, sub, up)
  BY TwoSides DEF Tree
<1>5. ASSUME NEW z \in N
      PROVE  side[z] = IF d.key < t.node[z].key THEN "left" ELSE "right"
  BY <1>1 DEF InsertSide
<1>6. /\ Leaf(t, d).size = 1 /\ Leaf(t, d).hash = t.top + 1 /\ Leaf(t, d).key = d.key
      /\ \A s \in Sides : Leaf(t, d)[s] = NULL
  BY <1>1, LeafType
<1>7. new \notin N /\ new # NULL /\ \A z \in N : new \notin sub[z]
  BY <1>1, ConstAssumption
<1> HIDE DEF son, side, way, last
<1>8. sub2[new] = {new} /\ sub2[NULL] = {} /\ up2[new] = last
      /\ \A z \in N : sub2[z] = (IF z \in way THEN sub[z] \cup {new} ELSE sub[z]) /\ up2[z] = up[z]
  BY <1>1, <1>2, <1>7
<1>9. Rooted(p, M, sub2, up2)
  <2>1. sub2 \in [M \cup {NULL} -> SUBSET M]
    BY <1>1, <1>7
  <2>2. up2 \in [M -> M \cup {NULL}]
    BY <1>1, <1>2
  <2>3. IsFiniteSet(M)
    BY <1>1, FS_AddElement
  <2>4. sub2[t.root] = M
    BY <1>1, <1>2, <1>7, <1>8
  <2> HIDE DEF sub2, up2
  <2> QED
    BY <1>1, <1>3, <1>8, <2>1, <2>2, <2>3, <2>4 DEF Rooted
<1> HIDE DEF sub2, up2
\* The way goes on through one son of each of its nodes.
<1>10. ASSUME NEW z \in N, NEW s \in Sides
       PROVE  /\ p.node[z][s] \in M \cup {NULL}
              /\ sub2[p.node[z][s]]
                   = sub[t.node[z][s]] \cup (IF z \in way /\ s = side[z] THEN {new} ELSE {})
              /\ p.node[z][s] # NULL => up2[p.node[z][s]] = z
  <2> DEFINE c == t.node[z][s]
             e == t.node[z][Other(s)]
  <2>1. /\ c \in N \cup {NULL} /\ (c # NULL => up[c] = z) /\ z \notin sub[c]
        /\ sub[z] = {z} \cup sub[c] \cup sub[e] /\ sub[c] \cap sub[e] = {}
    BY <1>4 DEF Symmetric
  <2>2. (s = side[z] => son[z] = c) /\ (s # side[z] => son[z] = e)
    BY <1>2 DEF Sides, Other
  <2>3. p.node[z][s] = IF z = last /\ s = side[last] THEN new ELSE c
    BY <1>3
  <2> HIDE DEF c, e
  <2>4. CASE z = last /\ s = side[last]
    BY <1>1, <1>2, <1>7, <1>8, <2>2, <2>3, <2>4 DEF c
  <2>5. CASE ~(z = last /\ s = side[last])
    <3>1. c \in way <=> (z \in way /\ s = side[z])
      <4>1. CASE c \in way
        <5>1. c \in N /\ last \in sub[c] /\ last # z
          BY <1>2, <2>1, <4>1
        <5>2. z \in way
          BY <1>2, <2>1, <5>1
        <5>3. son[z] # NULL
          BY <1>2, <5>1, <5>2
        <5>4. last \in sub[son[z]]
          BY <1>2, <5>2, <5>3
        <5> QED
          BY <2>1, <2>2, <4>1, <5>1, <5>2, <5>4
      <4>2. CASE z \in way /\ s = side[z]
        <5>1. z # last
          BY <2>5, <4>2
        <5> QED
          BY <1>2, <2>2, <4>2, <5>1
      <4> QED
        BY <4>1, <4>2
    <3>2. p.node[z][s] = c
      BY <2>3, <2>5
    <3>3. c # NULL => up2[c] = z
      BY <1>8, <2>1
    <3>4. sub2[c] = IF c \in way THEN sub[c] \cup {new} ELSE sub[c]
      <4>1. CASE c = NULL
        BY <1>1, <1>2, <1>8, <4>1
      <4>2. CASE c # NULL
        BY <1>8, <2>1, <4>2
      <4> QED
        BY <4>1, <4>2
    <3> QED
      BY <2>1, <3>1, <3>2, <3>3, <3>4 DEF c
  <2> QED
    BY <2>4, <2>5
<1>11. ASSUME NEW z \in M, NEW s \in Sides
       PROVE  /\ p.node[z][s] \in M \cup {NULL}
              /\ sub2[z] = {z} \cup sub2[p.node[z][s]] \cup sub2[p.node[z][Other(s)]]
              /\ z \notin sub2[p.node[z][s]]
              /\ sub2[p.node[z][s]] \cap sub2[p.node[z][Other(s)]] = {}
              /\ p.node[z][s] # NULL => up2[p.node[z][s]] = z
              /\ \A w \in sub2[p.node[z][s]] : Before(s, p.node[w].key, p.node[z].key)
  <2>0. Other(s) \in Sides /\ Other(s) # s /\ \A e \in Sides : e = s \/ e = Other(s)
    BY DEF Sides, Other
  <2>1. CASE z = new
    BY <1>3, <1>6, <1>8, <2>0, <2>1
  <2>2. CASE z \in N
    <3> DEFINE c == t.node[z][s]
               e == t.node[z][Other(s)]
    <3>1. /\ sub[z] = {z} \cup sub[c] \cup sub[e] /\ z \notin sub[c]
          /\ sub[c] \cap sub[e] = {} /\ sub[c] \subseteq N /\ sub[e] \subseteq N
          /\ \A w \in sub[c] : Before(s, t.node[w].key, t.node[z].key)
      <4>1. /\ sub[z] = {z} \cup sub[c] \cup sub[e] /\ z \notin sub[c] /\ sub[c] \cap sub[e] = {}
            /\ \A w \in sub[c] : Before(s, t.node[w].key, t.node[z].key)
        BY <1>4, <2>2 DEF Symmetric
      <4>2. sub[z] \subseteq N
        BY <1>1, <2>2
      <4> QED
        BY <4>1, <4>2
    <3>2. /\ sub2[p.node[z][s]] = sub[c] \cup (IF z \in way /\ s = side[z] THEN {new} ELSE {})
          /\ sub2[p.node[z][Other(s)]]
               = sub[e] \cup (IF z \in way /\ Other(s) = side[z] THEN {new} ELSE {})
          /\ p.node[z][s] \in M \cup {NULL} /\ (p.node[z][s] # NULL => up2[p.node[z][s]] = z)
      BY <1>10, <2>0, <2>2
    <3>3. side[z] = s \/ side[z] = Other(s)
      BY <1>2, <2>0, <2>2
    <3>4. sub2[z] = IF z \in way THEN sub[z] \cup {new} ELSE sub[z]
      BY <1>8, <2>2
    <3> HIDE DEF c, e
    <3>5. /\ sub2[z] = {z} \cup sub2[p.node[z][s]] \cup sub2[p.node[z][Other(s)]]
          /\ z \notin sub2[p.node[z][s]]
          /\ sub2[p.node[z][s]] \cap sub2[p.node[z][Other(s)]] = {}
      BY <1>7, <2>0, <2>2, <3>1, <3>2, <3>3, <3>4
    <3>6. ASSUME NEW w \in sub2[p.node[z][s]] PROVE Before(s, p.node[w].key, p.node[z].key)
      <4>1. CASE w \in sub[c]
        BY <1>3, <2>2, <3>1, <4>1
      <4>2. CASE w \notin sub[c]
        <5>1. w = new /\ s = side[z]
          BY <3>2, <3>6, <4>2
        <5>2. p.node[w].key = d.key /\ p.node[z].key = t.node[z].key
          BY <1>3, <1>6, <2>2, <5>1
        <5>3. d.key \in Int /\ t.node[z].key \in Int /\ t.node[z].key # d.key
          BY <2>2, NodeType, ConstAssumption DEF Data
        <5> QED
          BY <1>5, <2>2, <5>1, <5>2, <5>3 DEF Before
      <4> QED
        BY <4>1, <4>2
    <3> QED
      BY <3>2, <3>5, <3>6
  <2> QED
    BY <2>1, <2>2
<1>12. ASSUME NEW z \in M
       PROVE  /\ z = p.root => up2[z] = NULL
              /\ z # p.root => up2[z] \in M /\ \E s \in Sides : p.node[up2[z]][s] = z
  <2>1. CASE z = new
    BY <1>1, <1>2, <1>3, <1>7, <1>8, <2>1
  <2>2. CASE z \in N
    <3>1. /\ z = t.root => up[z] = NULL
          /\ z # t.root => up[z] \in N /\ \E s \in Sides : t.node[up[z]][s] = z
      BY <1>4, <2>2 DEF Symmetric
    <3>2. CASE z = t.root
      BY <1>3, <1>8, <2>2, <3>1, <3>2
    <3>3. CASE z # t.root
      <4>1. PICK s \in Sides : t.node[up[z]][s] = z
        BY <3>1, <3>3
      <4>2. t.node[last][side[last]] = NULL
        BY <1>2
      <4>3. p.node[up[z]][s] = z
        BY <1>1, <1>3, <2>2, <3>1, <3>3, <4>1, <4>2
      <4> QED
        BY <1>3, <1>8, <2>2, <3>1, <3>3, <4>3
    <3> QED
      BY <3>2, <3>3
  <2> QED
    BY <2>1, <2>2
<1>13. Branching(p, M, sub2) /\ Fathered(p, M, up2) /\ Ordered(p, M, sub2)
  <2>1. Symmetric(p, M, sub2, up2)
    BY <1>11, <1>12 DEF Symmetric
  <2> QED
    BY <2>1, TwoSides
<1>14. Sized(p, M, sub2)
  <2>1. p.node[new].size = Cardinality(sub2[new])
    <3>1. Cardinality({new}) = 1
      BY FS_Singleton
    <3> QED
      BY <1>3, <1>6, <1>8, <3>1
  <2>2. ASSUME NEW z \in N PROVE p.node[z].size = Cardinality(sub2[z])
    <3>1. t.node[z].size = Cardinality(sub[z]) /\ IsFiniteSet(sub[z])
      BY NodeType DEF Tree, Sized
    <3>2. Cardinality(sub[z] \cup {new}) = Cardinality(sub[z]) + 1
      BY <1>7, <3>1, FS_AddElement
    <3> QED
      BY <1>3, <1>8, <3>1, <3>2
  <2> QED
    BY <2>1, <2>2 DEF Sized
<1>15. Hashed(p, M)
  <2>1. \A z \in N : t.node[z].hash \in Nat /\ t.node[z].hash <= t.top
    BY NodeType DEF Node, Tree, Hashed
  <2>2. t.top \in Nat
    BY <1>1, StoreType
  <2>3. \A z, w \in N : z # w => t.node[z].hash # t.node[w].hash
    BY DEF Tree, Hashed
  <2>4. \A z \in M : p.node[z].hash <= p.top
    BY <1>3, <1>6, <2>1, <2>2
  <2>5. \A z, w \in M : z # w => p.node[z].hash # p.node[w].hash
    BY <1>3, <1>6, <2>1, <2>2, <2>3
  <2> QED
    BY <2>4, <2>5 DEF Hashed
<1>16. Tree(p, M, sub2, up2)
  BY <1>9, <1>13, <1>14, <1>15 DEF Tree
<1> QED
  BY <1>16 DEF sub2, up2, last, way, son, PlantedSub, PlantedUp

\* What Insert does to the contents of the tree, and to the rest of the blocks.
Grown(t, r, N, d, new) ==
  /\ r.top = t.top + 1 /\ DOMAIN r.node = DOMAIN t.node \cup {new}
  /\ r.node[new].key = d.key /\ r.node[new].value = d.value
  /\ \A z \in N : r.node[z].key = t.node[z].key /\ r.node[z].value = t.node[z].value
  /\ \A z \in DOMAIN t.node \ N : r.node[z] = t.node[z]

Above(N, sub, x) == {w \in N : x \in sub[w]}

\* On the way up: the calls for the nodes in above have not returned yet, and
\* nothing has been lifted over these nodes.
Climbing(t, N, up, d, new, c, above) ==
  /\ Grown(t, c, N, d, new)
  /\ \E sub2, up2 :
       /\ Tree(c, N \cup {new}, sub2, up2)
       /\ \A w \in above : up2[w] = up[w] /\ c.node[w][InsertSide(t, d)[w]] # NULL

\* The rest of the call for node x, after the one for its son has left below.
Return(t, d, new, x, below) ==
  LET son == InsertSon(t, d)
      child == IF son[x] = NULL THEN new ELSE son[x]
  IN IF t.node[x].random > below.node[child].random
     THEN Rotate(below, Father(son, InsertWay(t, d), x), x, InsertSide(t, d)[x])
     ELSE below

\* The innermost call returns a tree.
LEMMA PlantClimbs ==
  ASSUME NEW t, NEW N, NEW sub, NEW up, Tree(t, N, sub, up), t.root # NULL,
         NEW d \in Data, \A z \in N : t.node[z].key # d.key,
         NEW new \in Blocks, new \notin DOMAIN t.node
  PROVE  Climbing(t, N, up, d, new, Plant(t, d, new),
                  Above(N, sub, LastOf(InsertSon(t, d), InsertWay(t, d))))
<1> DEFINE son == InsertSon(t, d)
           side == InsertSide(t, d)
           way == InsertWay(t, d)
           last == LastOf(son, way)
           p == Plant(t, d, new)
           M == N \cup {new}
           sub2 == PlantedSub(t, N, sub, d, new)
           up2 == PlantedUp(t, N, up, d, new)
<1>1. Planted(t, p, N, d, new)
  BY PlantIs
<1>2. Tree(p, M, sub2, up2)
  BY <1>1, PlantedIsTree
<1>3. N \subseteq DOMAIN t.node /\ t \in TreeType /\ NULL \notin DOMAIN t.node
  <2>1. N \subseteq DOMAIN t.node /\ t \in TreeType
    BY TreeHas
  <2> QED
    BY <2>1, StoreType
<1>4. Grown(t, p, N, d, new)
  BY <1>1, <1>3, LeafType DEF Planted, Grown
<1>5. ASSUME NEW w \in N, last \in sub[w]
      PROVE  up2[w] = up[w] /\ p.node[w][side[w]] # NULL
  <2>1. up2[w] = up[w]
    BY <1>3 DEF PlantedUp
  <2>2. w \in way /\ side[w] \in Sides /\ son[w] = t.node[w][side[w]]
        /\ (son[w] = NULL => w = last)
    BY <1>5, InsertWayIs
  <2>3. \A s \in Sides : p.node[w][s] = IF w = last /\ s = side[last] THEN new ELSE t.node[w][s]
    BY <1>1 DEF Planted
  <2> HIDE DEF up2, side, way, last, son, p
  <2> QED
    BY <2>1, <2>2, <2>3, ConstAssumption
<1> HIDE DEF sub2, up2
<1> QED
  BY <1>2, <1>4, <1>5 DEF Climbing, Above

\* If the call for the son returns a tree, so does the call for x.
LEMMA ReturnClimbs ==
  ASSUME NEW t, NEW N, NEW sub, NEW up, Tree(t, N, sub, up), t.root # NULL,
         NEW d \in Data, NEW new \in Blocks, new \notin DOMAIN t.node,
         NEW x \in InsertWay(t, d), NEW c, Climbing(t, N, up, d, new, c, Above(N, sub, x))
  PROVE  Climbing(t, N, up, d, new, Return(t, d, new, x, c), Above(N, sub, x) \ {x})
<1> DEFINE son == InsertSon(t, d)
           side == InsertSide(t, d)
           way == InsertWay(t, d)
           M == N \cup {new}
           s == side[x]
           y == c.node[x][s]
           inner == c.node[y][Other(s)]
           r == Rotate(c, up[x], x, s)
<1>1. x \in N /\ s \in Sides /\ Father(son, way, x) = up[x]
  BY InsertWayIs
<1>2. \A w \in N : side[w] \in Sides
  BY InsertWayIs
<1>3. CASE Return(t, d, new, x, c) = c
  BY <1>3 DEF Climbing
<1>4. CASE Return(t, d, new, x, c) = r
  <2>1. Grown(t, c, N, d, new)
    BY DEF Climbing
  <2>2. PICK sub2, up2 :
          /\ Tree(c, M, sub2, up2)
          /\ \A w \in Above(N, sub, x) : up2[w] = up[w] /\ c.node[w][side[w]] # NULL
    BY DEF Climbing
  <2>3. x \in Above(N, sub, x) /\ x \in M
    BY <1>1, NodeType DEF Above
  <2>4. y # NULL /\ up2[x] = up[x]
    BY <2>2, <2>3
  <2>5. Rotated(c, r, M, x, s, y)
    <3> HIDE DEF r, y, s, M
    <3>1. Rotated(c, Rotate(c, up2[x], x, s), M, x, s, c.node[x][s])
      BY <1>1, <2>2, <2>3, <2>4, RotateIs DEF y
    <3> QED
      BY <2>4, <3>1 DEF r, y
  <2> DEFINE sub3 == RotatedSub(c, M, sub2, x, s)
             up3 == RotatedUp(c, M, up2, x, s)
  <2>6. Tree(r, M, sub3, up3)
    <3> HIDE DEF M, s, r
    <3> QED
      BY <1>1, <2>2, <2>3, <2>4, <2>5, RotatedIsTree
  <2>7. M \subseteq DOMAIN c.node /\ DOMAIN c.node = DOMAIN t.node \cup {new} /\ N \subseteq DOMAIN t.node
    BY <2>1, <2>2, TreeHas DEF Grown
  <2>8. Grown(t, r, N, d, new)
    <3>1. /\ r.top = c.top /\ DOMAIN r.node = DOMAIN c.node
          /\ \A z \in M : r.node[z].key = c.node[z].key /\ r.node[z].value = c.node[z].value
          /\ \A z \in DOMAIN c.node \ M : r.node[z] = c.node[z]
      BY <2>5 DEF Rotated
    <3> HIDE DEF r
    <3> QED
      BY <2>1, <2>7, <3>1 DEF Grown
  <2>9. y \in M /\ y # x /\ up2[y] = x /\ inner \in M \cup {NULL} /\ (inner # NULL => up2[inner] = y)
    <3>1. Symmetric(c, M, sub2, up2)
      BY <2>2, TwoSides DEF Tree
    <3> HIDE DEF M, s
    <3>2. y \in M /\ up2[y] = x /\ x \notin sub2[y]
      BY <1>1, <2>3, <2>4, <3>1 DEF Symmetric
    <3>3. Other(s) \in Sides
      BY DEF Sides, Other
    <3>4. inner \in M \cup {NULL} /\ (inner # NULL => up2[inner] = y)
      BY <3>1, <3>2, <3>3 DEF Symmetric
    <3>5. y \in sub2[y]
      BY <2>2, <3>2, NodeType
    <3> QED
      BY <3>2, <3>4, <3>5
  <2> HIDE DEF r, y, inner, s
  <2>10. ASSUME NEW w \in Above(N, sub, x), w # x
         PROVE  up3[w] = up[w] /\ r.node[w][side[w]] # NULL
    <3>1. w \in N /\ x \in sub[w] /\ up2[w] = up[w] /\ c.node[w][side[w]] # NULL
      BY <2>2, <2>10 DEF Above
    \* No node above x has x as its father.
    <3>2. ASSUME NEW v \in N, x \in sub[v], v # x, up[v] = x PROVE FALSE
      <4>1. v # t.root
        <5>1. x # NULL
          BY <1>1, NodeType
        <5> QED
          BY <3>2, <5>1 DEF Tree, Fathered
      <4>2. t.node[x].left = v \/ t.node[x].right = v
        BY <3>2, <4>1 DEF Tree, Fathered
      <4>3. sub[v] \subseteq sub[x] \ {x}
        BY <1>1, <4>2, BelowSon
      <4> QED
        BY <3>2, <4>3
    <3>3. w # y
      BY <2>9, <2>10, <3>1, <3>2
    <3>4. w # inner
      <4> SUFFICES ASSUME w = inner PROVE FALSE
        OBVIOUS
      <4>1. up[w] = y /\ up[w] # NULL
        <5>1. w # NULL /\ NULL \notin M
          BY <2>2, <3>1, NodeType
        <5> QED
          BY <2>9, <3>1, <5>1
      <4>2. y \in N
        <5>1. up \in [N -> N \cup {NULL}]
          BY TreeHas
        <5> QED
          BY <3>1, <4>1, <5>1
      <4>3. w # t.root
        BY <3>1, <4>1 DEF Tree, Fathered
      <4>4. t.node[y].left = w \/ t.node[y].right = w
        BY <3>1, <4>1, <4>3 DEF Tree, Fathered
      <4>5. x \in sub[y]
        BY <3>1, <4>2, <4>4, BelowSon
      <4>6. up2[y] = up[y]
        BY <2>2, <4>2, <4>5 DEF Above
      <4> QED
        BY <2>9, <3>2, <4>2, <4>5, <4>6
    <3>5. up3[w] = up[w]
      BY <2>10, <3>1, <3>3, <3>4 DEF RotatedUp, inner, y
    <3>6. r.node[w][side[w]] = IF c.node[w][side[w]] = x THEN y ELSE c.node[w][side[w]]
      BY <1>2, <2>5, <2>10, <3>1, <3>3 DEF Rotated
    <3> HIDE DEF up3, side
    <3> QED
      BY <2>4, <3>1, <3>5, <3>6
  <2> HIDE DEF sub3, up3
  <2> QED
    BY <1>4, <2>6, <2>8, <2>10 DEF Climbing
<1>5. Return(t, d, new, x, c) = c \/ Return(t, d, new, x, c) = r
  BY <1>1 DEF Return
<1> QED
  BY <1>3, <1>4, <1>5

\* Bottom up along the way.
LEMMA ClimbInduction ==
  ASSUME NEW t, NEW N, NEW sub, NEW up, Tree(t, N, sub, up), t.root # NULL,
         NEW d \in Data, \A z \in N : t.node[z].key # d.key,
         NEW new \in Blocks, new \notin DOMAIN t.node, NEW f,
         \A x \in InsertWay(t, d) :
           LET below == IF InsertSon(t, d)[x] = NULL THEN Plant(t, d, new)
                        ELSE f[InsertSon(t, d)[x]]
           IN Return(t, d, new, x, below) \in TreeType => f[x] = Return(t, d, new, x, below),
         NEW x \in InsertWay(t, d)
  PROVE  LET below == IF InsertSon(t, d)[x] = NULL THEN Plant(t, d, new)
                      ELSE f[InsertSon(t, d)[x]]
         IN /\ Return(t, d, new, x, below) \in TreeType
            /\ Climbing(t, N, up, d, new, f[x], Above(N, sub, x) \ {x})
<1> DEFINE son == InsertSon(t, d)
           way == InsertWay(t, d)
           last == LastOf(son, way)
           from(z) == IF son[z] = NULL THEN Plant(t, d, new) ELSE f[son[z]]
           Done(z) == /\ Return(t, d, new, z, from(z)) \in TreeType
                      /\ Climbing(t, N, up, d, new, f[z], Above(N, sub, z) \ {z})
           T == {z \in N : z \in way => Done(z)}
<1>1. /\ way \subseteq N /\ Descending(t, N, son)
      /\ \A z \in way : son[z] = NULL => z = last
      /\ \A z \in way : son[z] \in way \cup {NULL}
  BY InsertWayIs
<1>2. Climbing(t, N, up, d, new, Plant(t, d, new), Above(N, sub, last))
  BY PlantClimbs
<1>3. ASSUME NEW z \in way, Climbing(t, N, up, d, new, from(z), Above(N, sub, z))
      PROVE  Done(z)
  <2>1. Climbing(t, N, up, d, new, Return(t, d, new, z, from(z)), Above(N, sub, z) \ {z})
    <3> HIDE DEF way, from
    <3> QED
      BY <1>3, ReturnClimbs DEF way
  <2>2. Return(t, d, new, z, from(z)) \in TreeType
    <3> HIDE DEF from
    <3> QED
      BY <2>1, TreeHas DEF Climbing
  <2>3. f[z] = Return(t, d, new, z, from(z))
    BY <2>2
  <2> HIDE DEF from
  <2> QED
    BY <2>1, <2>2, <2>3
<1>4. ASSUME NEW z \in N, t.node[z].left \in T \cup {NULL}, t.node[z].right \in T \cup {NULL}
      PROVE  z \in T
  <2> SUFFICES ASSUME z \in way PROVE Done(z)
    OBVIOUS
  <2>1. CASE son[z] = NULL
    <3>1. from(z) = Plant(t, d, new) /\ z = last
      BY <1>1, <2>1
    <3> HIDE DEF from, Done, last, way
    <3> QED
      BY <1>2, <1>3, <3>1
  <2>2. CASE son[z] # NULL
    <3> DEFINE c == son[z]
    <3>1. c \in way /\ (c = t.node[z].left \/ c = t.node[z].right) /\ c \in N
      BY <1>1, <2>2 DEF Descending
    <3>2. Climbing(t, N, up, d, new, f[c], Above(N, sub, c) \ {c})
      BY <1>4, <2>2, <3>1
    <3>3. Above(N, sub, c) \ {c} = Above(N, sub, z)
      <4>1. up[c] = z /\ sub[c] \subseteq sub[z] \ {z} /\ c \in sub[c]
        BY <3>1, BelowSon, NodeType
      <4>2. ASSUME NEW w \in N, c \in sub[w], c # w PROVE z \in sub[w]
        BY <3>1, <4>1, <4>2, FatherBelow
      <4>3. ASSUME NEW w \in N, z \in sub[w] PROVE c \in sub[w] /\ c # w
        BY <4>1, <4>3, Transitive
      <4> HIDE DEF c
      <4> QED
        BY <4>2, <4>3 DEF Above
    <3>4. from(z) = f[c]
      BY <2>2
    <3> HIDE DEF from, Done, c, way
    <3> QED
      BY <1>3, <3>2, <3>3, <3>4
  <2> QED
    BY <2>1, <2>2
<1>5. N \subseteq T
  <2> HIDE DEF T
  <2> QED
    BY <1>4, UpwardInduction
<1> QED
  BY <1>1, <1>5

\* The calls return one after the other, up to the root.
LEMMA ClimbIs ==
  ASSUME NEW t, NEW N, NEW sub, NEW up, Tree(t, N, sub, up), t.root # NULL,
         NEW d \in Data, \A z \in N : t.node[z].key # d.key,
         NEW new \in Blocks, new \notin DOMAIN t.node
  PROVE  Climbing(t, N, up, d, new, Climb(t, d, new)[t.root], {})
<1> DEFINE son == InsertSon(t, d)
           way == InsertWay(t, d)
           plant == Plant(t, d, new)
           S == TreeType
           rank == [x \in way |-> t.node[x].size]
           bound == Cardinality(N)
           from(x, g) == IF son[x] = NULL THEN plant ELSE g[son[x]]
           back(x, c) == Return(t, d, new, x, c)
           keep(r) == IF r \in S THEN r ELSE t
           step == [p \in way \X [way -> S] |-> keep(back(p[1], from(p[1], p[2])))]
<1>1. /\ way \subseteq N /\ Descending(t, N, son) /\ t.root \in way
      /\ \A z \in way : son[z] \in way \cup {NULL}
  BY InsertWayIs
<1>2. t \in S /\ IsFiniteSet(N) /\ sub[t.root] = N /\ t.root \in N
  BY TreeHas
<1>3. bound \in Nat /\ \A x \in N : t.node[x].size \in Nat /\ t.node[x].size <= bound
  <2>1. bound \in Nat
    BY <1>2, FS_CardinalityType
  <2>2. ASSUME NEW x \in N PROVE t.node[x].size \in Nat /\ t.node[x].size <= bound
    <3>1. t.node[x].size = Cardinality(sub[x]) /\ sub[x] \subseteq N /\ t.node[x].size \in Nat
      BY NodeType DEF Tree, Sized
    <3> QED
      BY <1>2, <3>1, FS_Subset
  <2> QED
    BY <2>1, <2>2
<1>4. rank \in [way -> Nat] /\ \A x \in way : rank[x] <= bound
  BY <1>1, <1>3
<1>5. \A x \in way : son[x] # NULL => rank[son[x]] < rank[x]
  <2> TAKE x \in way
  <2> HAVE son[x] # NULL
  <2>1. son[x] \in way /\ (son[x] = t.node[x].left \/ son[x] = t.node[x].right) /\ x \in N /\ son[x] \in N
    BY <1>1 DEF Descending
  <2>2. t.node[son[x]].size < t.node[x].size
    BY <2>1, BelowSon
  <2> QED
    BY <2>1, <2>2
<1> HIDE DEF S, rank, bound, son, way, plant
<1>6. \A x \in way : \A g \in [way -> S] : step[<<x, g>>] = keep(back(x, from(x, g)))
  BY DEF keep, back, from
<1>7. \A r : keep(r) \in S
  BY <1>2
<1>8. step \in [way \X [way -> S] -> S]
  <2> HIDE DEF keep
  <2> QED
    BY <1>7
<1> HIDE DEF step, back
<1>9. ASSUME NEW x \in way, NEW g \in [way -> S], NEW h \in [way -> S],
             \A y \in way : rank[y] < rank[x] => g[y] = h[y]
      PROVE  step[<<x, g>>] = step[<<x, h>>]
  <2>1. from(x, g) = from(x, h)
    BY <1>1, <1>5, <1>9
  <2> HIDE DEF from, keep
  <2> QED
    BY <1>6, <2>1
<1>10. \E f \in [way -> S] : \A x \in way : f[x] = step[<<x, f>>]
  <2>1. Recurring(way, S, rank, bound, step)
    BY <1>3, <1>4, <1>8, <1>9 DEF Recurring
  <2>2. t \in S
    BY <1>2
  <2>3. Recursive(way, S, step)
    BY <2>1, <2>2, Recursion
  <2> QED
    BY <2>3 DEF Recursive
<1>11. PICK f \in [way -> S] : \A x \in way : f[x] = step[<<x, f>>]
  BY <1>10
<1>12. \A x \in way : f[x] = keep(back(x, from(x, f)))
  BY <1>6, <1>11
<1>13. \A x \in way : back(x, from(x, f)) \in TreeType => f[x] = back(x, from(x, f))
  BY <1>12 DEF S
<1>14. \A x \in way : back(x, from(x, f)) \in TreeType
  BY <1>13, ClimbInduction DEF back, from, son, way, plant
<1>15. f = [x \in way |-> back(x, from(x, f))]
  <2> HIDE DEF from
  <2> QED
    BY <1>13, <1>14
<1> DEFINE climb == Climb(t, d, new)
<1>16. climb = [x \in way |-> back(x, from(x, climb))]
  BY <1>15 DEF Climb, Return, back, from, son, way, plant
<1> HIDE DEF climb
<1>17. \A x \in way : climb[x] = back(x, from(x, climb))
  <2> HIDE DEF from
  <2> QED
    BY <1>16
<1>18. Climbing(t, N, up, d, new, climb[t.root], Above(N, sub, t.root) \ {t.root})
  BY <1>1, <1>17, ClimbInduction DEF back, from, son, way, plant
<1>19. Above(N, sub, t.root) \ {t.root} = {}
  <2>1. \A w \in N : t.root \in sub[w] => w = t.root
    BY <1>2, Antisymmetric
  <2> QED
    BY <2>1 DEF Above
<1> QED
  BY <1>18, <1>19 DEF climb

\* insert adds one node with the data, and keeps the search tree.
LEMMA InsertIs ==
  ASSUME NEW t, NEW N, NEW sub, NEW up, Tree(t, N, sub, up),
         NEW d \in Data, \A z \in N : t.node[z].key # d.key,
         NEW new \in Blocks, new \notin DOMAIN t.node
  PROVE  /\ Grown(t, Insert(t, d, new), N, d, new)
         /\ \E sub2, up2 : Tree(Insert(t, d, new), N \cup {new}, sub2, up2)
<1>1. CASE t.root # NULL
  BY <1>1, ClimbIs DEF Climbing, Insert
<1>2. CASE t.root = NULL
  <2> DEFINE t1 == Save(t, new, Leaf(t, d))
             r == [t1 EXCEPT !.top = @ + 1, !.root = new]
             M == {new}
             sub2 == [z \in {new, NULL} |-> IF z = new THEN {new} ELSE {}]
             up2 == [z \in M |-> NULL]
  <2>1. t \in TreeType /\ N = {} /\ t.top \in Nat
    <3>1. t \in TreeType /\ N = {}
      BY <1>2, TreeHas
    <3> QED
      BY <3>1, StoreType
  <2>2. /\ Leaf(t, d) \in Node /\ Leaf(t, d).size = 1 /\ Leaf(t, d).hash = t.top + 1
        /\ Leaf(t, d).key = d.key /\ Leaf(t, d).value = d.value
        /\ Leaf(t, d).left = NULL /\ Leaf(t, d).right = NULL
    BY <2>1, LeafType DEF Sides
  <2>3. /\ t1 \in TreeType /\ DOMAIN t1.node = DOMAIN t.node \cup {new} /\ t1.top = t.top
        /\ t1.node[new] = Leaf(t, d) /\ \A z \in DOMAIN t.node \ {new} : t1.node[z] = t.node[z]
    BY <2>1, <2>2, SaveIs
  <2>4. Insert(t, d, new) = r
    BY <1>2 DEF Insert
  <2> HIDE DEF t1
  <2>5. r \in TreeType /\ r.node = t1.node /\ r.top = t.top + 1 /\ r.root = new
    <3> DEFINE t2 == [t1 EXCEPT !.top = @ + 1]
    <3>1. t2 \in TreeType /\ t2.node = t1.node /\ t2.top = t.top + 1
      BY <2>1, <2>3 DEF TreeType
    <3>2. r = [t2 EXCEPT !.root = new]
      BY <2>3 DEF TreeType
    <3> HIDE DEF t2, r
    <3> QED
      BY <3>1, <3>2 DEF TreeType
  <2>6. new # NULL
    BY ConstAssumption
  <2> HIDE DEF r
  <2>7. Grown(t, r, N, d, new)
    BY <2>1, <2>2, <2>3, <2>5 DEF Grown
  <2>8. sub2[new] = {new} /\ sub2[NULL] = {} /\ up2[new] = NULL
    BY <2>6
  <2>9. Rooted(r, M, sub2, up2)
    <3>1. IsFiniteSet(M)
      BY FS_Singleton
    <3>2. sub2 \in [M \cup {NULL} -> SUBSET M] /\ up2 \in [M -> M \cup {NULL}]
      BY <2>6
    <3> HIDE DEF sub2, up2
    <3> QED
      BY <2>3, <2>5, <2>8, <3>1, <3>2 DEF Rooted
  <2> HIDE DEF sub2, up2
  <2>10. Branching(r, M, sub2) /\ Fathered(r, M, up2) /\ Ordered(r, M, sub2)
    BY <2>2, <2>3, <2>5, <2>6, <2>8 DEF Branching, Fathered, Ordered
  <2>11. Sized(r, M, sub2)
    <3>1. Cardinality({new}) = 1
      BY FS_Singleton
    <3> QED
      BY <2>2, <2>3, <2>5, <2>8, <3>1 DEF Sized
  <2>12. Hashed(r, M)
    BY <2>1, <2>2, <2>3, <2>5 DEF Hashed
  <2>13. Tree(r, M, sub2, up2) /\ M = N \cup {new}
    BY <2>1, <2>9, <2>10, <2>11, <2>12 DEF Tree
  <2> QED
    BY <2>4, <2>7, <2>13
<1> QED
  BY <1>1, <1>2

-----------------------------------------------------------------------------
(***************************************************************************)
(* Remove.                                                                 *)
(***************************************************************************)
\* Node g with at most one son h is taken out, and h comes in its place.
Cut(t, r, N, sub, g, h) ==
  /\ r \in TreeType /\ DOMAIN r.node = DOMAIN t.node \ {g} /\ r.top = t.top
  /\ r.root = IF t.root = g THEN h ELSE t.root
  /\ \E s \in Sides : t.node[g][s] = h /\ t.node[g][Other(s)] = NULL
  /\ \A z \in N \ {g} :
       /\ \A s \in Sides : r.node[z][s] = IF t.node[z][s] = g THEN h ELSE t.node[z][s]
       /\ r.node[z].size = IF g \in sub[z] THEN t.node[z].size - 1 ELSE t.node[z].size
       /\ r.node[z].hash = t.node[z].hash
  /\ \A z \in N \ {g}, s \in Sides : \A w \in sub[t.node[z][s]] \ {g} :
       Before(s, r.node[w].key, r.node[z].key)

CutSub(N, sub, g) == [z \in (N \ {g}) \cup {NULL} |-> sub[z] \ {g}]

CutUp(N, up, g, h) == [z \in N \ {g} |-> IF z = h THEN up[g] ELSE up[z]]

\* Taking out a node with at most one son keeps the tree.
LEMMA CutIsTree ==
  ASSUME NEW t, NEW N, NEW sub, NEW up, Tree(t, N, sub, up),
         NEW g \in N, NEW h, NEW r, Cut(t, r, N, sub, g, h)
  PROVE  Tree(r, N \ {g}, CutSub(N, sub, g), CutUp(N, up, g, h))
<1> DEFINE M == N \ {g}
           sub2 == CutSub(N, sub, g)
           up2 == CutUp(N, up, g, h)
<1>1. /\ t \in TreeType /\ N \subseteq DOMAIN t.node /\ IsFiniteSet(N) /\ NULL \notin N
      /\ t.root \in N \cup {NULL} /\ sub[t.root] = N /\ sub[NULL] = {}
      /\ sub \in [N \cup {NULL} -> SUBSET N] /\ up \in [N -> N \cup {NULL}]
  BY TreeHas
<1>2. Symmetric(t, N, sub, up)
  BY TwoSides DEF Tree
<1>3. /\ r \in TreeType /\ DOMAIN r.node = DOMAIN t.node \ {g} /\ r.top = t.top
      /\ r.root = IF t.root = g THEN h ELSE t.root
      /\ \A z \in M :
           /\ \A s \in Sides : r.node[z][s] = IF t.node[z][s] = g THEN h ELSE t.node[z][s]
           /\ r.node[z].size = IF g \in sub[z] THEN t.node[z].size - 1 ELSE t.node[z].size
           /\ r.node[z].hash = t.node[z].hash
  BY DEF Cut
<1>4. PICK s0 \in Sides : t.node[g][s0] = h /\ t.node[g][Other(s0)] = NULL
  BY DEF Cut
<1>5. \A z \in N : z \in sub[z]
  BY NodeType
<1>6. /\ h \in N \cup {NULL} /\ (h # NULL => up[h] = g) /\ h # g
      /\ sub[g] = {g} \cup sub[h] /\ g \notin sub[h]
  <2>1. /\ h \in N \cup {NULL} /\ (h # NULL => up[h] = g) /\ g \notin sub[h]
        /\ sub[g] = {g} \cup sub[h] \cup sub[t.node[g][Other(s0)]]
    BY <1>2, <1>4 DEF Symmetric
  <2> QED
    BY <1>1, <1>4, <1>5, <2>1
<1>7. \A z \in M \cup {NULL} : sub2[z] = sub[z] \ {g}
  BY DEF CutSub
<1>8. \A z \in M : up2[z] = IF z = h THEN up[g] ELSE up[z]
  BY DEF CutUp
<1>9. \A z \in N : /\ z = t.root => up[z] = NULL
                   /\ z # t.root => up[z] \in N /\ \E s \in Sides : t.node[up[z]][s] = z
  BY <1>2 DEF Symmetric
<1>10. ASSUME NEW z \in N, NEW s \in Sides
       PROVE  /\ t.node[z][s] \in N \cup {NULL}
              /\ sub[z] = {z} \cup sub[t.node[z][s]] \cup sub[t.node[z][Other(s)]]
              /\ z \notin sub[t.node[z][s]]
              /\ sub[t.node[z][s]] \cap sub[t.node[z][Other(s)]] = {}
              /\ t.node[z][s] # NULL => up[t.node[z][s]] = z
  BY <1>2 DEF Symmetric
<1>11. up[g] # g
  <2> SUFFICES ASSUME up[g] = g PROVE FALSE
    OBVIOUS
  <2>1. PICK s \in Sides : t.node[g][s] = g
    BY <1>1, <1>9
  <2> QED
    BY <1>5, <1>10, <2>1
<1>12. Rooted(r, M, sub2, up2)
  <2>1. sub2 \in [M \cup {NULL} -> SUBSET M]
    BY <1>1 DEF CutSub
  <2>2. up2 \in [M -> M \cup {NULL}]
    <3>1. ASSUME NEW z \in M, z # h PROVE up[z] \in M \cup {NULL}
      <4> SUFFICES ASSUME up[z] = g PROVE FALSE
        BY <1>1
      <4>1. z # t.root
        BY <1>1, <1>9
      <4>2. PICK s \in Sides : t.node[g][s] = z
        BY <1>9, <4>1
      <4>3. s = s0 \/ s = Other(s0)
        BY DEF Sides, Other
      <4> QED
        BY <1>1, <1>4, <3>1, <4>2, <4>3
    <3> QED
      BY <1>1, <1>11, <3>1 DEF CutUp
  <2>3. IsFiniteSet(M)
    BY <1>1, FS_Subset
  <2>4. sub2[NULL] = {} /\ r.root \in M \cup {NULL} /\ sub2[r.root] = M
    BY <1>1, <1>3, <1>6, <1>7
  <2> HIDE DEF sub2, up2
  <2> QED
    BY <1>1, <1>3, <2>1, <2>2, <2>3, <2>4 DEF Rooted
<1> HIDE DEF sub2, up2
<1>13. ASSUME NEW z \in M, NEW s \in Sides
       PROVE  /\ r.node[z][s] \in M \cup {NULL}
              /\ sub2[r.node[z][s]] = sub[t.node[z][s]] \ {g}
              /\ r.node[z][s] # NULL => up2[r.node[z][s]] = z
  <2> DEFINE c == t.node[z][s]
  <2>1. c \in N \cup {NULL} /\ (c # NULL => up[c] = z)
    BY <1>10
  <2>2. r.node[z][s] = IF c = g THEN h ELSE c
    BY <1>3
  <2> HIDE DEF c
  <2>3. CASE c = g
    BY <1>1, <1>6, <1>7, <1>8, <2>1, <2>2, <2>3 DEF c
  <2>4. CASE c # g
    <3>1. c # NULL => c # h
      BY <1>6, <2>1
    <3> QED
      BY <1>1, <1>7, <1>8, <2>1, <2>2, <2>4, <3>1 DEF c
  <2> QED
    BY <2>3, <2>4
<1>14. ASSUME NEW z \in M, NEW s \in Sides
       PROVE  /\ r.node[z][s] \in M \cup {NULL}
              /\ sub2[z] = {z} \cup sub2[r.node[z][s]] \cup sub2[r.node[z][Other(s)]]
              /\ z \notin sub2[r.node[z][s]]
              /\ sub2[r.node[z][s]] \cap sub2[r.node[z][Other(s)]] = {}
              /\ r.node[z][s] # NULL => up2[r.node[z][s]] = z
              /\ \A w \in sub2[r.node[z][s]] : Before(s, r.node[w].key, r.node[z].key)
  <2>1. Other(s) \in Sides
    BY DEF Sides, Other
  <2>2. /\ sub2[r.node[z][s]] = sub[t.node[z][s]] \ {g}
        /\ sub2[r.node[z][Other(s)]] = sub[t.node[z][Other(s)]] \ {g}
        /\ sub2[z] = sub[z] \ {g}
    BY <1>7, <1>13, <2>1
  <2>3. \A w \in sub[t.node[z][s]] \ {g} : Before(s, r.node[w].key, r.node[z].key)
    BY DEF Cut
  <2>4. /\ sub[z] = {z} \cup sub[t.node[z][s]] \cup sub[t.node[z][Other(s)]]
        /\ z \notin sub[t.node[z][s]] /\ z # g
        /\ sub[t.node[z][s]] \cap sub[t.node[z][Other(s)]] = {}
    BY <1>10
  <2>5. r.node[z][s] \in M \cup {NULL} /\ (r.node[z][s] # NULL => up2[r.node[z][s]] = z)
    BY <1>13
  <2> QED
    BY <2>2, <2>3, <2>4, <2>5
<1>15. ASSUME NEW z \in M
       PROVE  /\ z = r.root => up2[z] = NULL
              /\ z # r.root => up2[z] \in M /\ \E s \in Sides : r.node[up2[z]][s] = z
  <2>1. CASE z = h
    <3>1. CASE t.root = g
      BY <1>1, <1>3, <1>8, <1>9, <2>1, <3>1
    <3>2. CASE t.root # g
      <4>1. PICK s \in Sides : t.node[up[g]][s] = g
        BY <1>9, <3>2
      <4>2. up[g] \in M /\ up2[z] = up[g]
        BY <1>8, <1>9, <1>11, <2>1, <3>2
      <4>3. z # r.root
        BY <1>1, <1>3, <1>6, <1>9, <2>1, <3>2
      <4> QED
        BY <1>3, <2>1, <4>1, <4>2, <4>3
    <3> QED
      BY <3>1, <3>2
  <2>2. CASE z # h
    <3>1. up2[z] = up[z] /\ up[z] \in M \cup {NULL}
      BY <1>8, <1>12, <2>2 DEF Rooted
    <3>2. CASE z = t.root
      BY <1>3, <1>9, <2>2, <3>1, <3>2
    <3>3. CASE z # t.root
      <4>1. PICK s \in Sides : t.node[up[z]][s] = z
        BY <1>9, <3>3
      <4>2. up[z] \in M
        BY <1>1, <1>9, <3>1, <3>3
      <4>3. z # r.root
        BY <1>3, <2>2, <3>3
      <4> QED
        BY <1>3, <3>1, <4>1, <4>2, <4>3
    <3> QED
      BY <3>2, <3>3
  <2> QED
    BY <2>1, <2>2
<1>16. Branching(r, M, sub2) /\ Fathered(r, M, up2) /\ Ordered(r, M, sub2)
  <2>1. Symmetric(r, M, sub2, up2)
    BY <1>14, <1>15 DEF Symmetric
  <2> QED
    BY <2>1, TwoSides
<1>17. Sized(r, M, sub2)
  <2> SUFFICES ASSUME NEW z \in M PROVE r.node[z].size = Cardinality(sub2[z])
    BY DEF Sized
  <2>1. t.node[z].size = Cardinality(sub[z]) /\ IsFiniteSet(sub[z])
    BY NodeType DEF Tree, Sized
  <2>2. CASE g \in sub[z]
    <3>1. Cardinality(sub[z] \ {g}) = Cardinality(sub[z]) - 1
      BY <2>1, <2>2, FS_RemoveElement
    <3> QED
      BY <1>3, <1>7, <2>1, <2>2, <3>1
  <2>3. CASE g \notin sub[z]
    <3>1. sub[z] \ {g} = sub[z]
      BY <2>3
    <3> QED
      BY <1>3, <1>7, <2>1, <2>3, <3>1
  <2> QED
    BY <2>2, <2>3
<1>18. Hashed(r, M)
  BY <1>3 DEF Tree, Hashed
<1>19. Tree(r, M, sub2, up2)
  BY <1>12, <1>16, <1>17, <1>18 DEF Tree
<1> QED
  BY <1>19 DEF sub2, up2

\* Node x with one son c takes over the son's block.
Merged(t, r, N, sub, x, c) ==
  /\ r \in TreeType /\ DOMAIN r.node = DOMAIN t.node \ {c} /\ r.top = t.top /\ r.root = t.root
  /\ \E s \in Sides : t.node[x][s] = c /\ t.node[x][Other(s)] = NULL
  /\ r.node[x] = t.node[c]
  /\ \A z \in N \ {x, c} :
       /\ \A s \in Sides : r.node[z][s] = t.node[z][s]
       /\ r.node[z].size = IF x \in sub[z] THEN t.node[z].size - 1 ELSE t.node[z].size
       /\ r.node[z].hash = t.node[z].hash
       /\ r.node[z].key = t.node[z].key /\ r.node[z].value = t.node[z].value
  /\ \A z \in DOMAIN t.node \ N : r.node[z] = t.node[z]

MergedUp(N, up, x, c) == [z \in N \ {c} |-> IF z # x /\ up[z] = c THEN x ELSE up[z]]

\* Taking over the block of the only son keeps the tree.
LEMMA MergedIsTree ==
  ASSUME NEW t, NEW N, NEW sub, NEW up, Tree(t, N, sub, up),
         NEW x \in N, NEW c \in N, NEW r, Merged(t, r, N, sub, x, c)
  PROVE  Tree(r, N \ {c}, CutSub(N, sub, c), MergedUp(N, up, x, c))
<1> DEFINE M == N \ {c}
           sub2 == CutSub(N, sub, c)
           up2 == MergedUp(N, up, x, c)
<1>1. /\ t \in TreeType /\ N \subseteq DOMAIN t.node /\ IsFiniteSet(N) /\ NULL \notin N
      /\ t.root \in N \cup {NULL} /\ sub[t.root] = N /\ sub[NULL] = {}
      /\ sub \in [N \cup {NULL} -> SUBSET N] /\ up \in [N -> N \cup {NULL}]
  BY TreeHas
<1>2. Symmetric(t, N, sub, up)
  BY TwoSides DEF Tree
<1>3. /\ r \in TreeType /\ DOMAIN r.node = DOMAIN t.node \ {c} /\ r.top = t.top /\ r.root = t.root
      /\ r.node[x] = t.node[c]
      /\ \A z \in N \ {x, c} :
           /\ \A s \in Sides : r.node[z][s] = t.node[z][s]
           /\ r.node[z].size = IF x \in sub[z] THEN t.node[z].size - 1 ELSE t.node[z].size
           /\ r.node[z].hash = t.node[z].hash /\ r.node[z].key = t.node[z].key
  BY DEF Merged
<1>4. PICK s0 \in Sides : t.node[x][s0] = c /\ t.node[x][Other(s0)] = NULL
  BY DEF Merged
<1>5. \A z \in N : z \in sub[z]
  BY NodeType
<1>6. ASSUME NEW z \in N, NEW s \in Sides
      PROVE  /\ t.node[z][s] \in N \cup {NULL}
             /\ sub[z] = {z} \cup sub[t.node[z][s]] \cup sub[t.node[z][Other(s)]]
             /\ z \notin sub[t.node[z][s]]
             /\ sub[t.node[z][s]] \cap sub[t.node[z][Other(s)]] = {}
             /\ t.node[z][s] # NULL => up[t.node[z][s]] = z
             /\ \A w \in sub[t.node[z][s]] : Before(s, t.node[w].key, t.node[z].key)
  BY <1>2 DEF Symmetric
<1>7. up[c] = x /\ x # c /\ sub[x] = {x} \cup sub[c] /\ x \notin sub[c]
  BY <1>1, <1>4, <1>5, <1>6
<1>8. \A z \in N : /\ z = t.root => up[z] = NULL
                   /\ z # t.root => up[z] \in N /\ \E s \in Sides : t.node[up[z]][s] = z
  BY <1>2 DEF Symmetric
<1>9. (\A z \in M \cup {NULL} : sub2[z] = sub[z] \ {c})
      /\ (\A z \in M : up2[z] = IF z # x /\ up[z] = c THEN x ELSE up[z])
  BY DEF CutSub, MergedUp
<1>10. c # t.root /\ up[x] # c
  <2>1. c # t.root
    BY <1>1, <1>7, <1>8
  <2>2. up[x] # c
    <3> SUFFICES ASSUME up[x] = c PROVE FALSE
      OBVIOUS
    <3>1. x # t.root
      BY <1>1, <1>8
    <3>2. PICK s \in Sides : t.node[c][s] = x
      BY <1>8, <3>1
    <3> QED
      BY <1>5, <1>6, <1>7, <3>2
  <2> QED
    BY <2>1, <2>2
<1>11. Rooted(r, M, sub2, up2)
  <2>1. sub2 \in [M \cup {NULL} -> SUBSET M]
    BY <1>1 DEF CutSub
  <2>2. up2 \in [M -> M \cup {NULL}]
    BY <1>1, <1>7, <1>10 DEF MergedUp
  <2>3. IsFiniteSet(M)
    BY <1>1, FS_Subset
  <2>4. sub2[NULL] = {} /\ r.root \in M \cup {NULL} /\ sub2[r.root] = M
    BY <1>1, <1>3, <1>9, <1>10
  <2> HIDE DEF sub2, up2
  <2> QED
    BY <1>1, <1>3, <2>1, <2>2, <2>3, <2>4 DEF Rooted
<1> HIDE DEF sub2, up2
\* The node of t that z stands for.
<1> DEFINE was(z) == IF z = x THEN c ELSE z
<1>12. ASSUME NEW z \in M, NEW s \in Sides
       PROVE  /\ r.node[z][s] = t.node[was(z)][s]
              /\ r.node[z][s] \in M \cup {NULL}
              /\ sub2[r.node[z][s]] = sub[t.node[was(z)][s]] \ {c}
              /\ r.node[z][s] # NULL => up2[r.node[z][s]] = z
  <2>1. CASE z = x
    <3>1. r.node[z][s] = t.node[c][s]
      BY <1>3, <2>1
    <3>2. t.node[c][s] \in N \cup {NULL} /\ c \notin sub[t.node[c][s]]
          /\ (t.node[c][s] # NULL => up[t.node[c][s]] = c)
      BY <1>6
    <3>3. t.node[c][s] # c
      BY <1>5, <3>2
    <3> HIDE DEF M
    <3>4. t.node[c][s] \in M \cup {NULL} /\ t.node[c][s] # x
      BY <1>1, <1>10, <3>2, <3>3 DEF M
    <3> QED
      BY <1>9, <2>1, <3>1, <3>2, <3>4
  <2>2. CASE z # x
    <3>1. r.node[z][s] = t.node[z][s]
      BY <1>3, <2>2
    <3>2. t.node[z][s] \in N \cup {NULL} /\ (t.node[z][s] # NULL => up[t.node[z][s]] = z)
      BY <1>6
    <3>3. t.node[z][s] # c
      BY <1>1, <1>7, <2>2, <3>2
    <3> QED
      BY <1>9, <2>2, <3>1, <3>2, <3>3
  <2> QED
    BY <2>1, <2>2
<1>13. ASSUME NEW z \in M, NEW s \in Sides
       PROVE  /\ r.node[z][s] \in M \cup {NULL}
              /\ sub2[z] = {z} \cup sub2[r.node[z][s]] \cup sub2[r.node[z][Other(s)]]
              /\ z \notin sub2[r.node[z][s]]
              /\ sub2[r.node[z][s]] \cap sub2[r.node[z][Other(s)]] = {}
              /\ r.node[z][s] # NULL => up2[r.node[z][s]] = z
              /\ \A w \in sub2[r.node[z][s]] : Before(s, r.node[w].key, r.node[z].key)
  <2> DEFINE v == was(z)
  <2>1. Other(s) \in Sides /\ v \in N
    BY DEF Sides, Other
  <2>2. /\ sub2[r.node[z][s]] = sub[t.node[v][s]] \ {c}
        /\ sub2[r.node[z][Other(s)]] = sub[t.node[v][Other(s)]] \ {c}
        /\ r.node[z][s] \in M \cup {NULL} /\ (r.node[z][s] # NULL => up2[r.node[z][s]] = z)
        /\ sub2[z] = sub[z] \ {c}
    BY <1>9, <1>12, <2>1
  <2>3. /\ sub[v] = {v} \cup sub[t.node[v][s]] \cup sub[t.node[v][Other(s)]]
        /\ v \notin sub[t.node[v][s]] /\ v \notin sub[t.node[v][Other(s)]]
        /\ sub[t.node[v][s]] \cap sub[t.node[v][Other(s)]] = {}
        /\ \A w \in sub[t.node[v][s]] : Before(s, t.node[w].key, t.node[v].key)
    BY <1>6, <2>1 DEF Other, Sides
  <2>4. /\ sub2[z] = {z} \cup sub2[r.node[z][s]] \cup sub2[r.node[z][Other(s)]]
        /\ z \notin sub2[r.node[z][s]]
        /\ sub2[r.node[z][s]] \cap sub2[r.node[z][Other(s)]] = {}
    <3>1. CASE z = x
      BY <1>7, <2>2, <2>3, <3>1
    <3>2. CASE z # x
      BY <2>2, <2>3, <3>2
    <3> QED
      BY <3>1, <3>2
  <2>5. ASSUME NEW w \in sub2[r.node[z][s]] PROVE Before(s, r.node[w].key, r.node[z].key)
    <3>1. w \in sub[t.node[v][s]] /\ w # c
      BY <2>2, <2>5
    <3>2. w \in N
      BY <1>1, <1>6, <2>1, <3>1
    <3>3. r.node[z].key = t.node[v].key
      BY <1>3
    <3>4. CASE w = x
      <4>1. t.node[v][s] \in N
        BY <1>1, <1>6, <2>1, <3>1
      <4>2. c \in sub[t.node[v][s]]
        BY <1>5, <1>7, <3>1, <3>4, <4>1, Transitive
      <4> QED
        BY <1>3, <2>3, <3>3, <3>4, <4>2
    <3>5. CASE w # x
      BY <1>3, <2>3, <3>1, <3>2, <3>3, <3>5
    <3> QED
      BY <3>4, <3>5
  <2> QED
    BY <2>2, <2>4, <2>5
<1>14. ASSUME NEW z \in M
       PROVE  /\ z = r.root => up2[z] = NULL
              /\ z # r.root => up2[z] \in M /\ \E s \in Sides : r.node[up2[z]][s] = z
  <2>1. CASE z # x /\ up[z] = c
    <3>1. z # t.root
      BY <1>1, <1>8, <2>1
    <3>2. PICK s \in Sides : t.node[c][s] = z
      BY <1>8, <2>1, <3>1
    <3> QED
      BY <1>3, <1>7, <1>9, <2>1, <3>1, <3>2
  <2>2. CASE ~(z # x /\ up[z] = c)
    <3>1. up2[z] = up[z] /\ up[z] # c
      BY <1>9, <1>10, <2>2
    <3>2. CASE z = t.root
      BY <1>3, <1>8, <3>1, <3>2
    <3>3. CASE z # t.root
      <4>1. PICK s \in Sides : t.node[up[z]][s] = z
        BY <1>8, <3>3
      <4>2. up[z] \in M
        BY <1>8, <3>1, <3>3
      <4>3. up[z] # x
        <5> SUFFICES ASSUME up[z] = x PROVE FALSE
          OBVIOUS
        <5>1. s = s0 \/ s = Other(s0)
          BY DEF Sides, Other
        <5> QED
          BY <1>1, <1>4, <4>1, <5>1
      <4> QED
        BY <1>3, <3>1, <3>3, <4>1, <4>2, <4>3
    <3> QED
      BY <3>2, <3>3
  <2> QED
    BY <2>1, <2>2
<1>15. Branching(r, M, sub2) /\ Fathered(r, M, up2) /\ Ordered(r, M, sub2)
  <2>1. Symmetric(r, M, sub2, up2)
    BY <1>13, <1>14 DEF Symmetric
  <2> QED
    BY <2>1, TwoSides
<1>16. Sized(r, M, sub2)
  <2> SUFFICES ASSUME NEW z \in M PROVE r.node[z].size = Cardinality(sub2[z])
    BY DEF Sized
  <2>0. \A y \in N : t.node[y].size = Cardinality(sub[y]) /\ IsFiniteSet(sub[y])
    BY NodeType DEF Tree, Sized
  <2>1. CASE z = x
    <3>1. sub2[z] = (sub[c] \cup {x}) \ {c} /\ c \in sub[c]
      BY <1>5, <1>7, <1>9, <2>1
    <3>2. Cardinality(sub[c] \cup {x}) = Cardinality(sub[c]) + 1 /\ IsFiniteSet(sub[c] \cup {x})
      BY <1>7, <2>0, FS_AddElement
    <3>3. Cardinality((sub[c] \cup {x}) \ {c}) = Cardinality(sub[c] \cup {x}) - 1
      BY <3>1, <3>2, FS_RemoveElement
    <3>4. Cardinality(sub[c]) \in Nat
      BY <2>0, FS_CardinalityType
    <3> QED
      BY <1>3, <2>0, <2>1, <3>1, <3>2, <3>3, <3>4
  <2>2. CASE z # x
    <3>1. c \in sub[z] <=> x \in sub[z]
      <4>1. ASSUME x \in sub[z] PROVE c \in sub[z]
        BY <1>5, <1>7, <4>1, Transitive
      <4>2. ASSUME c \in sub[z] PROVE x \in sub[z]
        BY <1>7, <4>2, FatherBelow
      <4> QED
        BY <4>1, <4>2
    <3>2. CASE c \in sub[z]
      <4>1. Cardinality(sub[z] \ {c}) = Cardinality(sub[z]) - 1
        BY <2>0, <3>2, FS_RemoveElement
      <4> QED
        BY <1>3, <1>9, <2>0, <2>2, <3>1, <3>2, <4>1
    <3>3. CASE c \notin sub[z]
      <4>1. sub[z] \ {c} = sub[z]
        BY <3>3
      <4> QED
        BY <1>3, <1>9, <2>0, <2>2, <3>1, <3>3, <4>1
    <3> QED
      BY <3>2, <3>3
  <2> QED
    BY <2>1, <2>2
<1>17. Hashed(r, M)
  BY <1>3 DEF Tree, Hashed
<1>18. Tree(r, M, sub2, up2)
  BY <1>11, <1>15, <1>16, <1>17 DEF Tree
<1> QED
  BY <1>18 DEF sub2, up2

\* What Remove does to the contents of the tree, and to the rest of the blocks.
Shrunk(t, r, N, M, k) ==
  /\ r.top = t.top /\ M \subseteq N /\ DOMAIN r.node = (DOMAIN t.node \ N) \cup M
  /\ \A z \in DOMAIN t.node \ N : r.node[z] = t.node[z]
  /\ \A z \in M : \E w \in N : /\ t.node[w].key # k /\ r.node[z].key = t.node[w].key
                               /\ r.node[z].value = t.node[w].value
  /\ \A w \in N : t.node[w].key # k =>
       \E z \in M : r.node[z].key = t.node[w].key /\ r.node[z].value = t.node[w].value

\* The way to the key of x passes the nodes above x.
LEMMA RemoveWayIs ==
  ASSUME NEW t, NEW N, NEW sub, NEW up, Tree(t, N, sub, up), NEW x \in N
  PROVE  LET k == t.node[x].key
             way == SearchWay(t, k)
         IN /\ Find(t, k) = x /\ t.root \in N /\ way = Above(N, sub, x)
            /\ x # t.root => Father(SearchSon(t, k), way, x) = up[x]
<1> DEFINE k == t.node[x].key
           son == SearchSon(t, k)
           way == SearchWay(t, k)
<1>1. x \in way /\ t.root \in N /\ \A z \in N : z \in way <=> x \in sub[z]
  BY SearchReaches
<1>2. Descending(t, N, son) /\ way = Walk(son, t.root)
  BY SearchDescends DEF SearchWay
<1>3. Find(t, k) = x
  BY FindIs
<1> HIDE DEF son, way, k
<1>4. way \subseteq N
  <2>1. way \subseteq sub[t.root]
    BY <1>1, <1>2, WalkDown
  <2>2. sub[t.root] = N
    BY TreeHas
  <2> QED
    BY <2>1, <2>2
<1>5. x # t.root => Father(son, way, x) = up[x]
  BY <1>1, <1>2, FatherIs
<1> QED
  BY <1>1, <1>3, <1>4, <1>5 DEF Above, son, way, k

\* The nodes on the way become smaller by one, and there is something to take.
LEMMA Shrinks ==
  ASSUME NEW t, NEW N, NEW sub, NEW up, Tree(t, N, sub, up), NEW z \in N
  PROVE  t.node[z].size \in Nat /\ t.node[z].size + (-1) \in Nat
BY SizesAdd

\* A node with one son takes over its block.
LEMMA AbsorbIs ==
  ASSUME NEW t, NEW N, NEW sub, NEW up, Tree(t, N, sub, up), NEW x \in N,
         NEW s \in Sides, t.node[x][s] # NULL, t.node[x][Other(s)] = NULL
  PROVE  LET c == t.node[x][s]
             r == Resize(Absorb(t, x, c), Above(N, sub, x) \ {x}, -1)
         IN c \in N /\ c # x /\ Merged(t, r, N, sub, x, c)
<1> DEFINE c == t.node[x][s]
           a1 == Save(t, x, t.node[c])
           a == Discard(a1, c)
           way == Above(N, sub, x) \ {x}
           r == Resize(a, way, -1)
           D == DOMAIN t.node
<1>1. /\ t \in TreeType /\ N \subseteq D /\ D \subseteq Blocks /\ \A z \in D : t.node[z] \in Node
  <2>1. t \in TreeType /\ N \subseteq D
    BY TreeHas
  <2> QED
    BY <2>1, StoreType
<1>2. c \in N /\ x \notin sub[c] /\ c # x
  <2>1. Symmetric(t, N, sub, up)
    BY TwoSides DEF Tree
  <2>2. c \in N /\ x \notin sub[c]
    BY <2>1 DEF Symmetric
  <2> QED
    BY <2>2, NodeType
<1>3. t.node[x][s] = c /\ t.node[x][Other(s)] = NULL
  OBVIOUS
<1> HIDE DEF c
<1>4. /\ a1 \in TreeType /\ DOMAIN a1.node = D /\ a1.root = t.root /\ a1.top = t.top
      /\ a1.node[x] = t.node[c] /\ \A z \in D \ {x} : a1.node[z] = t.node[z]
  <2>1. D \cup {x} = D /\ t.node[c] \in Node /\ x \in Blocks
    BY <1>1, <1>2
  <2> DEFINE n == t.node[c]
             s1 == Save(t, x, n)
  <2>2. a1 = s1 /\ n \in Node
    BY <2>1
  <2> HIDE DEF n, a1
  <2>4. t \in TreeType /\ x \in Blocks /\ n \in Node
    BY <1>1, <2>1, <2>2
  <2>3. /\ s1 \in TreeType /\ DOMAIN s1.node = D \cup {x} /\ s1.root = t.root /\ s1.top = t.top
        /\ s1.node[x] = n /\ \A z \in D \ {x} : s1.node[z] = t.node[z]
    BY <2>4, SaveIs
  <2> HIDE DEF s1
  <2> QED
    BY <2>1, <2>2, <2>3 DEF n
<1> HIDE DEF a1
<1>5. /\ a \in TreeType /\ DOMAIN a.node = D \ {c} /\ a.root = t.root /\ a.top = t.top
      /\ a.node[x] = t.node[c] /\ \A z \in D \ {x, c} : a.node[z] = t.node[z]
  BY <1>1, <1>2, <1>4, DiscardIs
<1> HIDE DEF a
<1>6. \A z \in way : z \in N \ {x, c} /\ a.node[z].size + (-1) \in Nat
  BY <1>1, <1>2, <1>5, Shrinks DEF Above
<1>7. /\ r \in TreeType /\ DOMAIN r.node = D \ {c} /\ r.root = t.root /\ r.top = t.top
      /\ \A z \in D \ {c} :
           /\ r.node[z].size = IF z \in way THEN a.node[z].size + (-1) ELSE a.node[z].size
           /\ \A e \in Sides : r.node[z][e] = a.node[z][e]
           /\ r.node[z].key = a.node[z].key /\ r.node[z].value = a.node[z].value
           /\ r.node[z].hash = a.node[z].hash
           /\ z \notin way => r.node[z] = a.node[z]
  <2> HIDE DEF way
  <2> QED
    BY <1>5, <1>6, ResizeIs
<1> HIDE DEF r
<1>8. Merged(t, r, N, sub, x, c)
  <2>1. r.node[x] = t.node[c]
    BY <1>1, <1>2, <1>5, <1>7
  <2>2. ASSUME NEW z \in N \ {x, c}
        PROVE  /\ \A e \in Sides : r.node[z][e] = t.node[z][e]
               /\ r.node[z].size = IF x \in sub[z] THEN t.node[z].size - 1 ELSE t.node[z].size
               /\ r.node[z].hash = t.node[z].hash
               /\ r.node[z].key = t.node[z].key /\ r.node[z].value = t.node[z].value
    <3>1. z \in D \ {c} /\ a.node[z] = t.node[z] /\ (z \in way <=> x \in sub[z])
      BY <1>1, <1>5 DEF Above
    <3>2. t.node[z].size + (-1) = t.node[z].size - 1
      BY Shrinks
    <3> HIDE DEF way
    <3> QED
      BY <1>7, <3>1, <3>2
  <2>3. \A z \in D \ N : r.node[z] = t.node[z]
    BY <1>2, <1>5, <1>6, <1>7
  <2> QED
    BY <1>3, <1>7, <2>1, <2>2, <2>3 DEF Merged, D
<1> QED
  BY <1>2, <1>8 DEF c, a, a1, r, Absorb

\* No key is lost with it but that of x.
LEMMA MergedShrinks ==
  ASSUME NEW t, NEW N, NEW sub, NEW up, Tree(t, N, sub, up), NEW x \in N, NEW c \in N, c # x,
         NEW r, Merged(t, r, N, sub, x, c)
  PROVE  Shrunk(t, r, N, N \ {c}, t.node[x].key)
<1>1. N \subseteq DOMAIN t.node
  BY TreeHas
<1>2. \A z \in N : z # x => t.node[z].key # t.node[x].key
  BY KeysDiffer
<1>3. /\ r.top = t.top /\ DOMAIN r.node = DOMAIN t.node \ {c} /\ r.node[x] = t.node[c]
      /\ \A z \in N \ {x, c} : r.node[z].key = t.node[z].key /\ r.node[z].value = t.node[z].value
      /\ \A z \in DOMAIN t.node \ N : r.node[z] = t.node[z]
  BY DEF Merged
<1>4. ASSUME NEW z \in N \ {c}
      PROVE  \E w \in N : /\ t.node[w].key # t.node[x].key /\ r.node[z].key = t.node[w].key
                          /\ r.node[z].value = t.node[w].value
  <2>1. CASE z = x
    BY <1>2, <1>3, <2>1
  <2>2. CASE z # x
    BY <1>2, <1>3, <2>2
  <2> QED
    BY <2>1, <2>2
<1>5. ASSUME NEW w \in N, t.node[w].key # t.node[x].key
      PROVE  \E z \in N \ {c} : r.node[z].key = t.node[w].key /\ r.node[z].value = t.node[w].value
  <2>1. CASE w = c
    BY <1>3, <2>1
  <2>2. CASE w # c
    BY <1>3, <1>5, <2>2
  <2> QED
    BY <2>1, <2>2
<1> QED
  BY <1>1, <1>3, <1>4, <1>5 DEF Shrunk

\* One link of the father changes, the one to x.
LEMMA RedirectIs ==
  ASSUME NEW t \in TreeType, NEW fa \in DOMAIN t.node, NEW x, NEW y \in Blocks \cup {NULL},
         \A s \in Sides : t.node[fa][s] = x => t.node[fa][Other(s)] # x
  PROVE  LET r == Redirect(t, fa, x, y)
         IN /\ r \in TreeType /\ DOMAIN r.node = DOMAIN t.node /\ r.root = t.root /\ r.top = t.top
            /\ \A z \in DOMAIN t.node \ {fa} : r.node[z] = t.node[z]
            /\ (\E s \in Sides : t.node[fa][s] = x) =>
                 \A s \in Sides : r.node[fa][s] = IF t.node[fa][s] = x THEN y ELSE t.node[fa][s]
            /\ r.node[fa].size = t.node[fa].size
            /\ r.node[fa].key = t.node[fa].key /\ r.node[fa].value = t.node[fa].value
            /\ r.node[fa].hash = t.node[fa].hash
<1> DEFINE r == Redirect(t, fa, x, y)
<1>1. t.node[fa] \in Node /\ fa # NULL
  BY StoreType
<1>2. PICK e \in Sides :
        /\ r = Put(t, fa, [t.node[fa] EXCEPT ![e] = y])
        /\ t.node[fa][e] = x \/ \A s \in Sides : t.node[fa][s] # x
  <2>1. CASE t.node[fa].left = x
    <3>1. r = Put(t, fa, [t.node[fa] EXCEPT !["left"] = y])
      BY <1>1, <2>1 DEF Redirect, Put, TreeType
    <3>2. t.node[fa]["left"] = x /\ "left" \in Sides
      BY <2>1 DEF Sides
    <3> HIDE DEF r
    <3> QED
      BY <3>1, <3>2
  <2>2. CASE t.node[fa].left # x
    <3>1. r = Put(t, fa, [t.node[fa] EXCEPT !["right"] = y])
      BY <1>1, <2>2 DEF Redirect, Put, TreeType
    <3>2. "right" \in Sides /\ (t.node[fa]["right"] = x \/ \A s \in Sides : t.node[fa][s] # x)
      BY <2>2 DEF Sides
    <3> HIDE DEF r
    <3> QED
      BY <3>1, <3>2
  <2> QED
    BY <2>1, <2>2
<1> DEFINE m == [t.node[fa] EXCEPT ![e] = y]
<1>3. r = Put(t, fa, m)
  BY <1>2
<1> HIDE DEF r
<1>4. /\ m \in Node /\ m[e] = y /\ m[Other(e)] = t.node[fa][Other(e)]
      /\ m.size = t.node[fa].size /\ m.key = t.node[fa].key /\ m.value = t.node[fa].value
      /\ m.hash = t.node[fa].hash
  BY <1>1, SetSon
<1> HIDE DEF m
<1>5. /\ r \in TreeType /\ DOMAIN r.node = DOMAIN t.node /\ r.root = t.root /\ r.top = t.top
      /\ r.node[fa] = m /\ \A z \in DOMAIN t.node \ {fa} : r.node[z] = t.node[z]
  BY <1>3, <1>4, PutIs
<1>6. (\E s \in Sides : t.node[fa][s] = x) =>
        \A s \in Sides : m[s] = IF t.node[fa][s] = x THEN y ELSE t.node[fa][s]
  <2> SUFFICES ASSUME t.node[fa][e] = x, NEW s \in Sides
               PROVE  m[s] = IF t.node[fa][s] = x THEN y ELSE t.node[fa][s]
    BY <1>2
  <2>1. s = e \/ s = Other(e)
    BY DEF Sides, Other
  <2> QED
    BY <1>4, <2>1
<1> QED
  BY <1>4, <1>5, <1>6 DEF r

\* A leaf is cut off.
LEMMA RemoveLeafIs ==
  ASSUME NEW t, NEW N, NEW sub, NEW up, Tree(t, N, sub, up), NEW x \in N,
         \A s \in Sides : t.node[x][s] = NULL
  PROVE  LET fa == IF x = t.root THEN x ELSE up[x]
             r == Resize(RemoveLeaf(t, fa, x), Above(N, sub, x) \ {x}, -1)
         IN Cut(t, r, N, sub, x, NULL) /\ Shrunk(t, r, N, N \ {x}, t.node[x].key)
<1> DEFINE fa == IF x = t.root THEN x ELSE up[x]
           t1 == [t EXCEPT !.root = IF @ = x THEN NULL ELSE @]
           t2 == Redirect(t1, fa, x, NULL)
           a == Discard(t2, x)
           way == Above(N, sub, x) \ {x}
           r == Resize(a, way, -1)
           D == DOMAIN t.node
           M == N \ {x}
<1>1. /\ t \in TreeType /\ N \subseteq D /\ \A z \in D : t.node[z] \in Node
      /\ t.root \in Blocks \cup {NULL} /\ NULL \notin N /\ sub[t.root] = N /\ sub[NULL] = {}
  <2>1. t \in TreeType /\ N \subseteq D /\ NULL \notin N /\ sub[t.root] = N /\ sub[NULL] = {}
    BY TreeHas
  <2> QED
    BY <2>1, StoreType
<1>2. Symmetric(t, N, sub, up)
  BY TwoSides DEF Tree
<1>3. /\ t1 \in TreeType /\ t1.node = t.node /\ t1.top = t.top
      /\ t1.root = IF t.root = x THEN NULL ELSE t.root
  BY <1>1 DEF TreeType
<1> HIDE DEF t1
<1>4. /\ fa \in N /\ (fa = x <=> x = t.root)
      /\ x # t.root => \E s \in Sides : t.node[fa][s] = x
  <2>1. CASE x = t.root
    BY <2>1
  <2>2. CASE x # t.root
    <3>1. fa \in N /\ \E s \in Sides : t.node[fa][s] = x
      BY <1>2, <2>2 DEF Symmetric
    <3> QED
      BY <1>1, <2>2, <3>1
  <2> QED
    BY <2>1, <2>2
<1>5. ASSUME NEW z \in N, NEW s \in Sides, t.node[z][s] = x
      PROVE  z = fa /\ t.node[z][Other(s)] # x /\ z # x
  <2>1. up[x] = z /\ sub[x] \cap sub[t.node[z][Other(s)]] = {} /\ x \in sub[x] /\ z \notin sub[x]
    BY <1>1, <1>2, <1>5, NodeType DEF Symmetric
  <2>2. x = t.root => up[x] = NULL
    BY <1>2 DEF Symmetric
  <2> QED
    BY <1>1, <2>1, <2>2
<1> HIDE DEF fa
<1>6. /\ t2 \in TreeType /\ DOMAIN t2.node = D /\ t2.root = t1.root /\ t2.top = t.top
      /\ \A z \in D \ {fa} : t2.node[z] = t.node[z]
      /\ (\E s \in Sides : t.node[fa][s] = x) =>
           \A s \in Sides : t2.node[fa][s] = IF t.node[fa][s] = x THEN NULL ELSE t.node[fa][s]
      /\ t2.node[fa].size = t.node[fa].size
      /\ t2.node[fa].key = t.node[fa].key /\ t2.node[fa].value = t.node[fa].value
      /\ t2.node[fa].hash = t.node[fa].hash
  <2>1. fa \in DOMAIN t1.node
    BY <1>1, <1>3, <1>4
  <2>2. \A s \in Sides : t1.node[fa][s] = x => t1.node[fa][Other(s)] # x
    BY <1>3, <1>4, <1>5
  <2>3. /\ t2 \in TreeType /\ DOMAIN t2.node = DOMAIN t1.node /\ t2.root = t1.root /\ t2.top = t1.top
        /\ \A z \in DOMAIN t1.node \ {fa} : t2.node[z] = t1.node[z]
        /\ (\E s \in Sides : t1.node[fa][s] = x) =>
             \A s \in Sides : t2.node[fa][s] = IF t1.node[fa][s] = x THEN NULL ELSE t1.node[fa][s]
        /\ t2.node[fa].size = t1.node[fa].size
        /\ t2.node[fa].key = t1.node[fa].key /\ t2.node[fa].value = t1.node[fa].value
        /\ t2.node[fa].hash = t1.node[fa].hash
    BY <1>3, <2>1, <2>2, RedirectIs
  <2> QED
    BY <1>3, <2>3
<1> HIDE DEF t2
<1>7. ASSUME NEW z \in M
      PROVE  /\ z \in D /\ t2.node[z].size = t.node[z].size
             /\ \A s \in Sides : t2.node[z][s] = IF t.node[z][s] = x THEN NULL ELSE t.node[z][s]
             /\ t2.node[z].key = t.node[z].key /\ t2.node[z].value = t.node[z].value
             /\ t2.node[z].hash = t.node[z].hash
  <2>1. CASE z = fa
    BY <1>1, <1>4, <1>6, <2>1
  <2>2. CASE z # fa
    BY <1>1, <1>5, <1>6, <2>2
  <2> QED
    BY <2>1, <2>2
<1>8. /\ a \in TreeType /\ DOMAIN a.node = D \ {x} /\ a.root = t1.root /\ a.top = t.top
      /\ \A z \in D \ {x} : a.node[z] = t2.node[z]
  BY <1>6, DiscardIs
<1> HIDE DEF a
<1>9. \A z \in way : z \in M /\ a.node[z].size + (-1) \in Nat
  BY <1>1, <1>7, <1>8, Shrinks DEF Above
<1>10. /\ r \in TreeType /\ DOMAIN r.node = D \ {x} /\ r.root = t1.root /\ r.top = t.top
       /\ \A z \in D \ {x} :
            /\ r.node[z].size = IF z \in way THEN a.node[z].size + (-1) ELSE a.node[z].size
            /\ \A e \in Sides : r.node[z][e] = a.node[z][e]
            /\ r.node[z].key = a.node[z].key /\ r.node[z].value = a.node[z].value
            /\ r.node[z].hash = a.node[z].hash
            /\ z \notin way => r.node[z] = a.node[z]
  <2> HIDE DEF way
  <2> QED
    BY <1>8, <1>9, ResizeIs
<1> HIDE DEF r
<1>11. ASSUME NEW z \in M
       PROVE  /\ \A s \in Sides : r.node[z][s] = IF t.node[z][s] = x THEN NULL ELSE t.node[z][s]
              /\ r.node[z].size = IF x \in sub[z] THEN t.node[z].size - 1 ELSE t.node[z].size
              /\ r.node[z].hash = t.node[z].hash
              /\ r.node[z].key = t.node[z].key /\ r.node[z].value = t.node[z].value
  <2>1. z \in D \ {x} /\ a.node[z] = t2.node[z] /\ (z \in way <=> x \in sub[z])
    BY <1>7, <1>8 DEF Above
  <2>2. t.node[z].size + (-1) = t.node[z].size - 1
    BY Shrinks
  <2> HIDE DEF way
  <2> QED
    BY <1>7, <1>10, <2>1, <2>2
<1>12. Cut(t, r, N, sub, x, NULL)
  <2>1. ASSUME NEW z \in M, NEW s \in Sides, NEW w \in sub[t.node[z][s]] \ {x}
        PROVE  Before(s, r.node[w].key, r.node[z].key)
    <3>1. Before(s, t.node[w].key, t.node[z].key) /\ sub[t.node[z][s]] \subseteq sub[z] /\ z \in N
      BY <1>2 DEF Symmetric
    <3>2. w \in M
      BY <3>1, NodeType
    <3> QED
      BY <1>11, <3>1, <3>2
  <2>2. \E s \in Sides : t.node[x][s] = NULL /\ t.node[x][Other(s)] = NULL
    BY DEF Sides, Other
  <2>3. /\ r \in TreeType /\ DOMAIN r.node = DOMAIN t.node \ {x} /\ r.top = t.top
        /\ r.root = IF t.root = x THEN NULL ELSE t.root
    BY <1>3, <1>10
  <2> QED
    BY <1>11, <2>1, <2>2, <2>3 DEF Cut
<1>13. Shrunk(t, r, N, M, t.node[x].key)
  <2>1. \A z \in N : z # x => t.node[z].key # t.node[x].key
    BY KeysDiffer
  <2>2. \A z \in D \ N : r.node[z] = t.node[z]
    BY <1>4, <1>6, <1>8, <1>9, <1>10
  <2>3. DOMAIN r.node = (D \ N) \cup M
    BY <1>1, <1>10
  <2>4. \A z \in M : \E w \in N : /\ t.node[w].key # t.node[x].key /\ r.node[z].key = t.node[w].key
                                  /\ r.node[z].value = t.node[w].value
    BY <1>11, <2>1
  <2>5. \A w \in N : t.node[w].key # t.node[x].key =>
          \E z \in M : r.node[z].key = t.node[w].key /\ r.node[z].value = t.node[w].value
    BY <1>11
  <2> QED
    BY <1>10, <2>2, <2>3, <2>4, <2>5 DEF Shrunk
<1> QED
  BY <1>12, <1>13 DEF fa, t1, t2, a, r, RemoveLeaf

\* Two nodes above the same node are one above the other.
LEMMA Comparable ==
  ASSUME NEW t, NEW N, NEW sub, NEW up, Tree(t, N, sub, up),
         NEW x \in N, NEW y \in N, NEW g \in sub[x], g \in sub[y]
  PROVE  x \in sub[y] \/ y \in sub[x]
<1> DEFINE T == {z \in N : g \in sub[z] => x \in sub[z] \/ z \in sub[x]}
<1>1. t.root \in T \cup {NULL}
  <2>1. t.root \in N \cup {NULL} /\ sub[t.root] = N
    BY TreeHas
  <2> QED
    BY <2>1
<1>2. ASSUME NEW z \in N, z # t.root, up[z] \in T PROVE z \in T
  <2> SUFFICES ASSUME g \in sub[z], x \notin sub[z] PROVE z \in sub[x]
    OBVIOUS
  <2> DEFINE f == up[z]
  <2>1. f \in N /\ (t.node[f].left = z \/ t.node[f].right = z)
    BY <1>2 DEF Tree, Fathered
  <2>2. sub[z] \subseteq sub[f] /\ z \in sub[z]
    BY <2>1, BelowSon, NodeType
  <2>3. CASE f \in sub[x]
    BY <2>2, <2>3, Transitive
  <2>4. CASE f \notin sub[x]
    <3>1. x \in sub[f] /\ x # f
      BY <1>2, <2>2, <2>4, NodeType
    <3>2. /\ sub[f] = {f} \cup sub[t.node[f].left] \cup sub[t.node[f].right]
          /\ sub[t.node[f].left] \cap sub[t.node[f].right] = {}
          /\ t.node[f].left \in N \cup {NULL} /\ t.node[f].right \in N \cup {NULL}
      BY <2>1 DEF Tree, Branching
    <3>3. PICK c \in {t.node[f].left, t.node[f].right} : x \in sub[c] /\ c # z
      BY <3>1, <3>2
    <3>4. c \in N
      BY <3>2, <3>3, TreeHas
    <3>5. sub[x] \subseteq sub[c]
      BY <3>3, <3>4, Transitive
    <3> QED
      BY <2>1, <3>2, <3>3, <3>5
  <2> QED
    BY <2>3, <2>4
<1>3. N \subseteq T
  <2> HIDE DEF T
  <2> QED
    BY <1>1, <1>2, DownwardInduction
<1>4. g \in sub[y] /\ y \in N
  OBVIOUS
<1> QED
  BY <1>3, <1>4

LeftSon(t) == [z \in DOMAIN t.node |-> t.node[z].left]

\* The walk to the left ends at the smallest key.
LEMMA LeftmostIs ==
  ASSUME NEW t, NEW N, NEW sub, NEW up, Tree(t, N, sub, up), NEW y \in N
  PROVE  LET son == LeftSon(t)
             way == Walk(son, y)
             ret == LastOf(son, way)
         IN /\ way \subseteq sub[y] /\ ret \in way /\ t.node[ret].left = NULL
            /\ \A z \in sub[y] : z \in way <=> ret \in sub[z]
            /\ ret # y => Father(son, way, ret) = up[ret] /\ t.node[up[ret]].left = ret
            /\ \A w \in sub[y] \ {ret} : t.node[ret].key < t.node[w].key
<1> DEFINE son == LeftSon(t)
           way == Walk(son, y)
           ret == LastOf(son, way)
<1>1. N \subseteq DOMAIN t.node /\ sub[y] \subseteq N /\ y \in sub[y]
  BY TreeHas, NodeType
<1>2. (\A z \in N : son[z] = t.node[z].left) /\ Descending(t, N, son)
  BY <1>1 DEF Descending, LeftSon
<1> HIDE DEF son, way
<1>3. /\ way \subseteq sub[y]
      /\ \A z \in way : son[z] \in way \cup {NULL}
      /\ \A z \in way : z # y => up[z] \in way /\ son[up[z]] = z
  BY <1>2, WalkDown DEF way
<1>4. /\ ret \in way /\ son[ret] = NULL /\ (\A z \in way : son[z] = NULL => z = ret)
      /\ \A z \in sub[y] : z \in way <=> ret \in sub[z]
  BY <1>2, WalkIsAbove DEF way
<1>5. ret # y => Father(son, way, ret) = up[ret]
  BY <1>2, <1>4, FatherIs DEF way
<1> HIDE DEF ret
<1> DEFINE T == {z \in N : z \in way => \A w \in sub[z] \ {ret} : t.node[ret].key < t.node[w].key}
<1>6. ASSUME NEW z \in N, t.node[z].left \in T \cup {NULL}, t.node[z].right \in T \cup {NULL}
      PROVE  z \in T
  <2> SUFFICES ASSUME z \in way, NEW w \in sub[z] \ {ret} PROVE t.node[ret].key < t.node[w].key
    OBVIOUS
  <2>1. /\ sub[z] = {z} \cup sub[t.node[z].left] \cup sub[t.node[z].right]
        /\ (\A v \in sub[t.node[z].left] : t.node[v].key < t.node[z].key)
        /\ (\A v \in sub[t.node[z].right] : t.node[z].key < t.node[v].key)
    BY DEF Tree, Branching, Ordered
  <2>2. t.node[ret].key \in Int /\ t.node[z].key \in Int /\ t.node[w].key \in Int
    BY <1>1, <1>3, <1>4, NodeType
  <2>3. CASE son[z] = NULL
    <3>1. z = ret /\ t.node[z].left = NULL
      BY <1>2, <1>4, <2>3
    <3>2. sub[NULL] = {}
      BY TreeHas
    <3> QED
      BY <2>1, <3>1, <3>2
  <2>4. CASE son[z] # NULL
    <3> DEFINE c == t.node[z].left
    <3>1. c = son[z] /\ c \in way /\ c \in N
      BY <1>1, <1>2, <1>3, <2>4
    <3>2. ret \in sub[c]
      BY <1>3, <1>4, <3>1
    <3>3. \A v \in sub[c] \ {ret} : t.node[ret].key < t.node[v].key
      BY <1>6, <2>4, <3>1
    <3>4. t.node[ret].key < t.node[z].key
      BY <2>1, <3>2
    <3> HIDE DEF T
    <3> QED
      BY <2>1, <2>2, <3>3, <3>4
  <2> QED
    BY <2>3, <2>4
<1>7. N \subseteq T
  <2> HIDE DEF T
  <2> QED
    BY <1>6, UpwardInduction
<1>8. y \in way
  BY <1>2, WalkDown DEF way
<1>9. \A w \in sub[y] \ {ret} : t.node[ret].key < t.node[w].key
  BY <1>7, <1>8
<1>10. ret # y => t.node[up[ret]].left = ret
  BY <1>1, <1>2, <1>3, <1>4
<1>11. t.node[ret].left = NULL
  BY <1>1, <1>2, <1>3, <1>4
<1> QED
  BY <1>3, <1>4, <1>5, <1>9, <1>10, <1>11 DEF ret, way, son

WithData(n, k, v) == [[n EXCEPT !.key = k] EXCEPT !.value = v]

\* New data keeps a node a node.
LEMMA SetData ==
  ASSUME NEW n \in Node, NEW k \in Keys, NEW v \in Values
  PROVE  LET m == WithData(n, k, v)
         IN /\ m \in Node /\ m.key = k /\ m.value = v /\ (\A s \in Sides : m[s] = n[s])
            /\ m.size = n.size /\ m.hash = n.hash /\ m.random = n.random
  BY DEF Node, Sides, WithData

\* A node with two sons takes the data of its successor, which is cut out.
LEMMA RemoveInnerIs ==
  ASSUME NEW t, NEW N, NEW sub, NEW up, Tree(t, N, sub, up), NEW x \in N,
         t.node[x].left # NULL, t.node[x].right # NULL
  PROVE  LET r == Resize(RemoveInner(t, x), Above(N, sub, x) \ {x}, -1)
         IN \E g \in N : \E h : /\ Cut(t, r, N, sub, g, h)
                                /\ Shrunk(t, r, N, N \ {g}, t.node[x].key)
<1> DEFINE son == LeftSon(t)
           y == t.node[x].right
           way == Walk(son, y)
           ret == LastOf(son, way)
           D == DOMAIN t.node
           M == N \ {ret}
           h == t.node[ret].right
           less == {x} \cup (way \ {ret})
           t1 == Resize(t, less, -1)
           f == IF ret = y THEN x ELSE Father(son, way, ret)
           e == IF ret = y THEN "right" ELSE "left"
           n2 == [t1.node[f] EXCEPT ![e] = h]
           t2 == Put(t1, f, n2)
           n3 == WithData(t2.node[x], t.node[ret].key, t.node[ret].value)
           t3 == Put(t2, x, n3)
           a == Discard(t3, ret)
           way0 == Above(N, sub, x) \ {x}
           r == Resize(a, way0, -1)
<1>1. /\ t \in TreeType /\ N \subseteq D /\ NULL \notin N /\ sub[t.root] = N /\ sub[NULL] = {}
      /\ \A z \in D : t.node[z] \in Node
  <2>1. t \in TreeType /\ N \subseteq D /\ NULL \notin N /\ sub[t.root] = N /\ sub[NULL] = {}
    BY TreeHas
  <2> QED
    BY <2>1, StoreType
<1>2. Symmetric(t, N, sub, up)
  BY TwoSides DEF Tree
<1>3. /\ y \in N /\ up[y] = x /\ sub[x] = {x} \cup sub[t.node[x].left] \cup sub[y]
      /\ x \notin sub[y] /\ x \notin sub[t.node[x].left] /\ sub[t.node[x].left] \cap sub[y] = {}
      /\ sub[y] \subseteq N
  <2>1. y \in N
    BY DEF Tree, Branching
  <2> QED
    BY <2>1, NodeType DEF Tree, Branching, Fathered
<1>4. /\ way \subseteq sub[y] /\ ret \in way /\ t.node[ret].left = NULL
      /\ \A z \in sub[y] : z \in way <=> ret \in sub[z]
      /\ ret # y => Father(son, way, ret) = up[ret] /\ t.node[up[ret]].left = ret
      /\ \A w \in sub[y] \ {ret} : t.node[ret].key < t.node[w].key
  <2>1. y \in N
    BY <1>3
  <2> HIDE DEF y
  <2> QED
    BY <2>1, LeftmostIs
<1> HIDE DEF son, way, ret, y
<1>5. /\ ret \in N /\ ret # x /\ ret \in sub[y] /\ ret \in sub[x] /\ f = up[ret]
      /\ f \in N /\ e \in Sides /\ t.node[f][e] = ret
  <2>1. ret \in N /\ ret # x /\ ret \in sub[y] /\ ret \in sub[x]
    BY <1>3, <1>4
  <2>2. up[ret] \in N
    <3>1. up[ret] \in sub[x]
      BY <2>1, FatherBelow
    <3> QED
      BY <3>1, NodeType
  <2> QED
    BY <1>3, <1>4, <2>1, <2>2 DEF Sides, y
\* The father of ret is the only node that leads to it, on one side.
<1>6. \A z \in N, s \in Sides : t.node[z][s] = ret <=> z = f /\ s = e
  <2>1. ASSUME NEW z \in N, NEW s \in Sides, t.node[z][s] = ret PROVE z = f /\ s = e
    <3>1. z = f
      BY <1>1, <1>2, <1>5, <2>1 DEF Symmetric
    <3>2. t.node[z][Other(s)] # ret
      <4>1. sub[ret] \cap sub[t.node[z][Other(s)]] = {} /\ ret \in sub[ret]
        <5>1. sub[t.node[z][s]] \cap sub[t.node[z][Other(s)]] = {}
          BY <1>2 DEF Symmetric
        <5>2. ret \in sub[ret]
          BY <1>5, NodeType
        <5> QED
          BY <2>1, <5>1, <5>2
      <4> QED
        BY <4>1
    <3>3. s = e \/ Other(s) = e
      BY <1>5 DEF Sides, Other
    <3> QED
      BY <1>5, <3>1, <3>2, <3>3
  <2> QED
    BY <1>5, <2>1
<1>7. h \in N \cup {NULL}
  BY <1>5 DEF Tree, Branching
\* Who becomes smaller: the nodes above ret.
<1>8. ASSUME NEW z \in M
      PROVE  /\ (z \in less \/ z \in way0) <=> ret \in sub[z]
             /\ ~(z \in less /\ z \in way0)
  <2>1. ASSUME z \in less, z \in way0 PROVE FALSE
    <3>1. z \in sub[y] /\ x \in sub[z] /\ z # x
      BY <1>4, <2>1 DEF Above
    <3>2. z \in sub[x]
      BY <1>3, <3>1
    <3> QED
      BY <3>1, <3>2, Antisymmetric
  <2>2. ASSUME z \in less PROVE ret \in sub[z]
    BY <1>4, <1>5, <2>2
  <2>3. ASSUME z \in way0 PROVE ret \in sub[z]
    BY <1>5, <2>3, Transitive DEF Above
  <2>4. ASSUME ret \in sub[z], z \notin less, z \notin way0 PROVE FALSE
    <3>1. z # x /\ z \in N
      BY <2>4
    <3>2. z \in sub[x]
      BY <1>5, <2>4, <3>1, Comparable DEF Above
    <3>3. z \notin sub[y]
      BY <1>4, <2>4
    <3>4. z \in sub[t.node[x].left] /\ t.node[x].left \in N
      <4>1. t.node[x].left \in N
        BY DEF Tree, Branching
      <4> QED
        BY <1>3, <3>1, <3>2, <3>3, <4>1
    <3>5. ret \in sub[t.node[x].left]
      BY <2>4, <3>4, Transitive
    <3> QED
      BY <1>3, <1>5, <3>5
  <2> QED
    BY <2>1, <2>2, <2>3, <2>4
<1>9. less \subseteq M /\ way0 \subseteq M
  <2>1. less \subseteq M
    BY <1>3, <1>4, <1>5
  <2>2. ret \notin way0
    <3> SUFFICES ASSUME x \in sub[ret] PROVE FALSE
      BY DEF Above
    <3> QED
      BY <1>5, Antisymmetric
  <2> QED
    BY <2>1, <2>2 DEF Above
<1> HIDE DEF less, way0, h, e, f
<1>10. /\ t1 \in TreeType /\ DOMAIN t1.node = D /\ t1.root = t.root /\ t1.top = t.top
       /\ \A z \in D :
            /\ t1.node[z].size = IF z \in less THEN t.node[z].size + (-1) ELSE t.node[z].size
            /\ \A s \in Sides : t1.node[z][s] = t.node[z][s]
            /\ t1.node[z].key = t.node[z].key /\ t1.node[z].value = t.node[z].value
            /\ t1.node[z].hash = t.node[z].hash
            /\ z \notin less => t1.node[z] = t.node[z]
  <2>1. \A z \in less \cap DOMAIN t.node : t.node[z].size + (-1) \in Nat
    BY <1>9, Shrinks
  <2> QED
    BY <1>1, <2>1, ResizeIs
<1> HIDE DEF t1
<1>11. /\ n2 \in Node /\ n2[e] = h /\ n2[Other(e)] = t1.node[f][Other(e)]
       /\ n2.size = t1.node[f].size /\ n2.key = t1.node[f].key /\ n2.value = t1.node[f].value
       /\ n2.hash = t1.node[f].hash
  <2>1. t1.node[f] \in Node
    BY <1>1, <1>5, <1>10, StoreType
  <2>2. h \in Blocks \cup {NULL}
    BY <1>7, NodeType
  <2> QED
    BY <1>5, <2>1, <2>2, SetSon
<1> HIDE DEF n2
<1>12. /\ t2 \in TreeType /\ DOMAIN t2.node = D /\ t2.root = t.root /\ t2.top = t.top
       /\ t2.node[f] = n2 /\ \A z \in D \ {f} : t2.node[z] = t1.node[z]
  BY <1>1, <1>5, <1>10, <1>11, PutIs
<1> HIDE DEF t2
<1>13. /\ n3 \in Node /\ n3.key = t.node[ret].key /\ n3.value = t.node[ret].value
       /\ (\A s \in Sides : n3[s] = t2.node[x][s])
       /\ n3.size = t2.node[x].size /\ n3.hash = t2.node[x].hash
  <2>1. t2.node[x] \in Node
    BY <1>1, <1>12, StoreType
  <2>2. t.node[ret].key \in Keys /\ t.node[ret].value \in Values
    BY <1>1, <1>5 DEF Node
  <2> HIDE DEF n3
  <2>3. n3 = WithData(t2.node[x], t.node[ret].key, t.node[ret].value)
    BY DEF n3
  <2> QED
    BY <2>1, <2>2, <2>3, SetData
<1> HIDE DEF n3
<1>14. /\ t3 \in TreeType /\ DOMAIN t3.node = D /\ t3.root = t.root /\ t3.top = t.top
       /\ t3.node[x] = n3 /\ \A z \in D \ {x} : t3.node[z] = t2.node[z]
  BY <1>1, <1>12, <1>13, PutIs
<1> HIDE DEF t3
<1>15. /\ a \in TreeType /\ DOMAIN a.node = D \ {ret} /\ a.root = t.root /\ a.top = t.top
       /\ \A z \in D \ {ret} : a.node[z] = t3.node[z]
  BY <1>14, DiscardIs
<1> HIDE DEF a
<1>16. ASSUME NEW z \in M
       PROVE  /\ z \in D \ {ret}
              /\ a.node[z].size = IF z \in less THEN t.node[z].size + (-1) ELSE t.node[z].size
              /\ \A s \in Sides : a.node[z][s] = IF t.node[z][s] = ret THEN h ELSE t.node[z][s]
              /\ a.node[z].key = (IF z = x THEN t.node[ret].key ELSE t.node[z].key)
              /\ a.node[z].value = (IF z = x THEN t.node[ret].value ELSE t.node[z].value)
              /\ a.node[z].hash = t.node[z].hash
  <2>1. z \in D \ {ret} /\ a.node[z] = t3.node[z]
    BY <1>1, <1>15
  <2>2. /\ t2.node[z].size = t1.node[z].size /\ t2.node[z].hash = t.node[z].hash
        /\ t2.node[z].key = t.node[z].key /\ t2.node[z].value = t.node[z].value
        /\ \A s \in Sides : t2.node[z][s] = IF t.node[z][s] = ret THEN h ELSE t.node[z][s]
    <3>1. CASE z = f
      <4>1. \A s \in Sides : s = e \/ s = Other(e)
        BY <1>5 DEF Sides, Other
      <4>2. Other(e) \in Sides /\ Other(e) # e
        BY DEF Sides, Other
      <4> QED
        BY <1>5, <1>6, <1>10, <1>11, <1>12, <2>1, <3>1, <4>1, <4>2
    <3>2. CASE z # f
      BY <1>6, <1>10, <1>12, <2>1, <3>2
    <3> QED
      BY <3>1, <3>2
  <2>3. CASE z = x
    BY <1>10, <1>13, <1>14, <2>1, <2>2, <2>3
  <2>4. CASE z # x
    BY <1>10, <1>14, <2>1, <2>2, <2>4
  <2> QED
    BY <2>3, <2>4
<1>17. \A z \in way0 : z \in M /\ a.node[z].size + (-1) \in Nat
  BY <1>8, <1>9, <1>16, Shrinks
<1>18. /\ r \in TreeType /\ DOMAIN r.node = D \ {ret} /\ r.root = t.root /\ r.top = t.top
       /\ \A z \in D \ {ret} :
            /\ r.node[z].size = IF z \in way0 THEN a.node[z].size + (-1) ELSE a.node[z].size
            /\ \A s \in Sides : r.node[z][s] = a.node[z][s]
            /\ r.node[z].key = a.node[z].key /\ r.node[z].value = a.node[z].value
            /\ r.node[z].hash = a.node[z].hash
            /\ z \notin way0 => r.node[z] = a.node[z]
  BY <1>15, <1>17, ResizeIs
<1> HIDE DEF r
<1>19. ASSUME NEW z \in M
       PROVE  /\ \A s \in Sides : r.node[z][s] = IF t.node[z][s] = ret THEN h ELSE t.node[z][s]
              /\ r.node[z].size = IF ret \in sub[z] THEN t.node[z].size - 1 ELSE t.node[z].size
              /\ r.node[z].hash = t.node[z].hash
              /\ r.node[z].key = (IF z = x THEN t.node[ret].key ELSE t.node[z].key)
              /\ r.node[z].value = (IF z = x THEN t.node[ret].value ELSE t.node[z].value)
  <2>1. t.node[z].size + (-1) = t.node[z].size - 1
    BY Shrinks
  <2> HIDE DEF M
  <2> QED
    BY <1>8, <1>16, <1>18, <2>1
<1>20. Cut(t, r, N, sub, ret, h)
  <2>1. ASSUME NEW z \in M, NEW s \in Sides, NEW w \in sub[t.node[z][s]] \ {ret}
        PROVE  Before(s, r.node[w].key, r.node[z].key)
    <3>1. /\ \A v \in sub[t.node[z][s]] : Before(s, t.node[v].key, t.node[z].key)
          /\ sub[t.node[z][s]] \subseteq sub[z] /\ z \in N /\ t.node[z][s] \in N \cup {NULL}
      BY <1>2 DEF Symmetric
    <3>2. w \in M /\ t.node[z][s] \in N
      BY <1>1, <3>1, NodeType
    <3>3. CASE z = x
      <4>0. w # x
        BY <1>2, <3>3 DEF Symmetric
      <4>1. r.node[z].key = t.node[ret].key /\ r.node[w].key = t.node[w].key
        BY <1>19, <3>2, <3>3, <4>0
      <4>2. t.node[ret].key \in Int /\ t.node[x].key \in Int /\ t.node[w].key \in Int
        BY <1>5, <3>2, NodeType
      <4>3. CASE s = "left"
        <5>1. t.node[w].key < t.node[x].key
          BY <3>1, <3>3, <4>3 DEF Before
        <5>2. t.node[x].key < t.node[ret].key
          BY <1>5 DEF Tree, Ordered, y
        <5> QED
          BY <4>1, <4>2, <4>3, <5>1, <5>2 DEF Before
      <4>4. CASE s = "right"
        <5>1. w \in sub[y] \ {ret}
          BY <3>3, <4>4 DEF y
        <5> QED
          BY <1>4, <4>1, <4>4, <5>1 DEF Before
      <4> QED
        BY <4>3, <4>4 DEF Sides
    <3>4. CASE z # x /\ w = x
      <4>1. ret \in sub[t.node[z][s]]
        BY <1>5, <3>2, <3>4, Transitive
      <4> QED
        BY <1>19, <3>1, <3>2, <3>4, <4>1
    <3>5. CASE z # x /\ w # x
      BY <1>19, <3>1, <3>2, <3>5
    <3> QED
      BY <3>3, <3>4, <3>5
  <2>2. "right" \in Sides /\ t.node[ret]["right"] = h /\ t.node[ret][Other("right")] = NULL
    BY <1>4 DEF Sides, Other, h
  <2>3. t.root # ret
    <3>1. ret # x /\ ret \in sub[x]
      BY <1>5
    <3> QED
      BY <3>1, FatherBelow
  <2> HIDE DEF M
  <2> QED
    BY <1>18, <1>19, <2>1, <2>2, <2>3 DEF Cut, M
<1>21. Shrunk(t, r, N, M, t.node[x].key)
  <2>1. \A z \in N : z # x => t.node[z].key # t.node[x].key
    BY KeysDiffer
  <2>2. \A z \in D \ N : r.node[z] = t.node[z]
    BY <1>5, <1>9, <1>10, <1>12, <1>14, <1>15, <1>17, <1>18
  <2>3. DOMAIN r.node = (D \ N) \cup M
    BY <1>1, <1>5, <1>18
  <2>4. \A z \in M : \E w \in N : /\ t.node[w].key # t.node[x].key /\ r.node[z].key = t.node[w].key
                                  /\ r.node[z].value = t.node[w].value
    BY <1>5, <1>19, <2>1
  <2>5. \A w \in N : t.node[w].key # t.node[x].key =>
          \E z \in M : r.node[z].key = t.node[w].key /\ r.node[z].value = t.node[w].value
    <3> TAKE w \in N
    <3> HAVE t.node[w].key # t.node[x].key
    <3>1. CASE w = ret
      BY <1>5, <1>19, <3>1
    <3>2. CASE w # ret
      BY <1>19, <3>2
    <3> QED
      BY <3>1, <3>2
  <2> QED
    BY <1>18, <2>2, <2>3, <2>4, <2>5 DEF Shrunk
<1>22. r = Resize(RemoveInner(t, x), Above(N, sub, x) \ {x}, -1)
  <2>1. a = RemoveInner(t, x)
    <3> DEFINE smaller == Resize(t, less, -1)
               unhung == IF ret = y THEN [smaller EXCEPT !.node[x].right = h]
                         ELSE [smaller EXCEPT !.node[Father(son, way, ret)].left = h]
               keyed == [unhung EXCEPT !.node[x].key = t.node[ret].key,
                                       !.node[x].value = t.node[ret].value]
    <3>1. RemoveInner(t, x) = Discard(keyed, ret)
      BY DEF RemoveInner, ret, way, son, y, less, h, LeftSon
    <3>2. smaller = t1
      BY DEF t1
    <3> HIDE DEF smaller
    <3>3. unhung = t2
      <4>1. CASE ret = y
        BY <1>10, <3>2, <4>1 DEF t2, n2, f, e, Put, TreeType
      <4>2. CASE ret # y
        BY <1>10, <3>2, <4>2 DEF t2, n2, f, e, Put, TreeType
      <4> QED
        BY <4>1, <4>2
    <3> HIDE DEF unhung
    <3>4. keyed = t3
      BY <1>1, <1>12, <3>3 DEF t3, n3, Put, TreeType, WithData
    <3> QED
      BY <3>1, <3>4 DEF a
  <2> QED
    BY <2>1 DEF r, way0
<1> QED
  BY <1>5, <1>20, <1>21, <1>22

\* Remove takes the node with the key out of the tree, and no other.
LEMMA RemoveIs ==
  ASSUME NEW t, NEW N, NEW sub, NEW up, Tree(t, N, sub, up), NEW k, Find(t, k) # NULL
  PROVE  \E M : /\ Shrunk(t, Remove(t, k), N, M, k)
                /\ \E sub2, up2 : Tree(Remove(t, k), M, sub2, up2)
<1> DEFINE x == Find(t, k)
           fa == IF x = t.root THEN x ELSE up[x]
           way == Above(N, sub, x) \ {x}
           r == Resize(RemoveAt(t, fa, x), way, -1)
           Done(c) == \E M : Shrunk(t, c, N, M, k) /\ \E sub2, up2 : Tree(c, M, sub2, up2)
<1>1. x \in N /\ t.node[x].key = k /\ x # NULL
  <2>1. x \in N \cup {NULL} /\ (x # NULL => t.node[x].key = k)
    BY FindIs
  <2> QED
    BY <2>1
<1>2. Remove(t, k) = r
  <2> DEFINE k2 == t.node[x].key
             son == SearchSon(t, k)
  <2>1. k2 = k
    BY <1>1
  <2> HIDE DEF x
  <2>2. SearchWay(t, k2) = Above(N, sub, x) /\ (x # t.root => Father(SearchSon(t, k2), SearchWay(t, k2), x) = up[x])
    BY <1>1, RemoveWayIs
  <2>3. SearchWay(t, k) = Above(N, sub, x) /\ (x # t.root => Father(son, SearchWay(t, k), x) = up[x])
    BY <2>1, <2>2
  <2>4. fa = (IF x = t.root THEN x ELSE Father(son, SearchWay(t, k), x))
    BY <2>3
  <2> HIDE DEF fa
  <2>5. Remove(t, k) = IF x = NULL THEN t
                       ELSE Resize(RemoveAt(t, IF x = t.root THEN x ELSE Father(son, SearchWay(t, k), x), x),
                                   SearchWay(t, k) \ {x}, -1)
    BY DEF Remove, x
  <2> QED
    BY <1>1, <2>3, <2>4, <2>5
<1> HIDE DEF x
<1>3. ASSUME NEW s \in Sides, t.node[x][s] # NULL, t.node[x][Other(s)] = NULL,
             RemoveAt(t, fa, x) = Absorb(t, x, t.node[x][s])
      PROVE  Done(r)
  <2> DEFINE c == t.node[x][s]
  <2>1. c \in N /\ c # x /\ Merged(t, r, N, sub, x, c)
    <3> DEFINE r1 == Resize(Absorb(t, x, t.node[x][s]), Above(N, sub, x) \ {x}, -1)
    <3>1. t.node[x][s] \in N /\ t.node[x][s] # x /\ Merged(t, r1, N, sub, x, t.node[x][s])
      BY <1>1, <1>3, AbsorbIs
    <3>2. r1 = r
      BY <1>3
    <3> HIDE DEF r1, r
    <3> QED
      BY <3>1, <3>2
  <2> HIDE DEF r, c
  <2>2. Tree(r, N \ {c}, CutSub(N, sub, c), MergedUp(N, up, x, c))
    BY <1>1, <2>1, MergedIsTree
  <2>3. Shrunk(t, r, N, N \ {c}, t.node[x].key)
    BY <1>1, <2>1, MergedShrinks
  <2> QED
    BY <1>1, <2>2, <2>3
<1>4. CASE t.node[x].left # NULL /\ t.node[x].right = NULL
  <2>1. "left" \in Sides /\ t.node[x]["left"] # NULL /\ t.node[x][Other("left")] = NULL
    BY <1>4 DEF Sides, Other
  <2>2. RemoveAt(t, fa, x) = Absorb(t, x, t.node[x]["left"])
    BY <1>4 DEF RemoveAt
  <2> HIDE DEF r, Done
  <2> QED
    BY <1>2, <1>3, <2>1, <2>2 DEF Done
<1>5. CASE t.node[x].left = NULL /\ t.node[x].right # NULL
  <2>1. "right" \in Sides /\ t.node[x]["right"] # NULL /\ t.node[x][Other("right")] = NULL
    BY <1>5 DEF Sides, Other
  <2>2. RemoveAt(t, fa, x) = Absorb(t, x, t.node[x]["right"])
    BY <1>5 DEF RemoveAt
  <2> HIDE DEF r, Done
  <2> QED
    BY <1>2, <1>3, <2>1, <2>2 DEF Done
<1>6. CASE t.node[x].left = NULL /\ t.node[x].right = NULL
  <2>1. \A s \in Sides : t.node[x][s] = NULL
    BY <1>6 DEF Sides
  <2>2. RemoveAt(t, fa, x) = RemoveLeaf(t, fa, x)
    BY <1>6 DEF RemoveAt
  <2>3. Cut(t, r, N, sub, x, NULL) /\ Shrunk(t, r, N, N \ {x}, t.node[x].key)
    <3> DEFINE r1 == Resize(RemoveLeaf(t, fa, x), Above(N, sub, x) \ {x}, -1)
    <3>1. Cut(t, r1, N, sub, x, NULL) /\ Shrunk(t, r1, N, N \ {x}, t.node[x].key)
      BY <1>1, <2>1, RemoveLeafIs
    <3>2. r1 = r
      BY <2>2
    <3> HIDE DEF r1, r
    <3> QED
      BY <3>1, <3>2
  <2> HIDE DEF r
  <2>4. Tree(r, N \ {x}, CutSub(N, sub, x), CutUp(N, up, x, NULL))
    BY <1>1, <2>3, CutIsTree
  <2> QED
    BY <1>1, <1>2, <2>3, <2>4
<1>7. CASE t.node[x].left # NULL /\ t.node[x].right # NULL
  <2>1. RemoveAt(t, fa, x) = RemoveInner(t, x)
    BY <1>7 DEF RemoveAt
  <2> DEFINE r1 == Resize(RemoveInner(t, x), Above(N, sub, x) \ {x}, -1)
  <2>2. \E g \in N : \E h : Cut(t, r1, N, sub, g, h) /\ Shrunk(t, r1, N, N \ {g}, t.node[x].key)
    BY <1>1, <1>7, RemoveInnerIs
  <2>3. r1 = r
    BY <2>1
  <2> HIDE DEF r1, r
  <2> DEFINE Is(g, h) == Cut(t, r, N, sub, g, h) /\ Shrunk(t, r, N, N \ {g}, t.node[x].key)
  <2>4. PICK g \in N : \E h : Is(g, h)
    BY <2>2, <2>3
  <2>5. PICK h : Is(g, h)
    BY <2>4
  <2>6. Tree(r, N \ {g}, CutSub(N, sub, g), CutUp(N, up, g, h))
    BY <2>5, CutIsTree
  <2> QED
    BY <1>1, <1>2, <2>5, <2>6
<1> QED
  BY <1>4, <1>5, <1>6, <1>7

\* clear and release free the nodes of the tree, and nothing else.
LEMMA ReleaseNodeIs ==
  ASSUME NEW t, NEW N, NEW sub, NEW up, Tree(t, N, sub, up), NEW bound, Graded(t.node, bound)
  PROVE  /\ ReleaseNode(t, t.root) \in TreeType
         /\ ReleaseNode(t, t.root).top = t.top /\ ReleaseNode(t, t.root).root = t.root
         /\ DOMAIN ReleaseNode(t, t.root).node = DOMAIN t.node \ N
         /\ \A z \in DOMAIN t.node \ N : ReleaseNode(t, t.root).node[z] = t.node[z]
<1> DEFINE f == [b \in DOMAIN t.node \ N |-> t.node[b]]
<1>1. t.root \in N \cup {NULL} /\ sub[t.root] = N /\ t \in TreeType
  BY TreeHas
<1>2. Below(t.node)[t.root] = N
  BY <1>1, BelowIs
<1>3. t.node \in [DOMAIN t.node -> Node] /\ DOMAIN t.node \subseteq Blocks
  BY <1>1, StoreType
<1>4. f \in [DOMAIN t.node \ N -> Node] /\ DOMAIN t.node \ N \in SUBSET Blocks
  BY <1>3
<1>5. f \in Stores
  <2> DEFINE D == DOMAIN t.node \ N
  <2> HIDE DEF f, D
  <2> QED
    BY <1>4, IsStore DEF D
<1>6. ReleaseNode(t, t.root) = [t EXCEPT !.node = f]
  BY <1>2 DEF ReleaseNode
<1> HIDE DEF f
<1>7. ReleaseNode(t, t.root) \in TreeType /\ ReleaseNode(t, t.root).node = f
      /\ ReleaseNode(t, t.root).top = t.top /\ ReleaseNode(t, t.root).root = t.root
  BY <1>1, <1>5, <1>6 DEF TreeType
<1> QED
  BY <1>7 DEF f
=============================================================================
