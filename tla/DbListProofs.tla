---------------------------- MODULE DbListProofs ----------------------------
(***************************************************************************)
(* Proofs about DbList, for any processes, blocks and values, kills        *)
(* between any two writes included.                                        *)
(*                                                                         *)
(* The argument names for each list the sequence of its blocks, its chain. *)
(* A list nobody works on is the chain its header describes, linked both   *)
(* ways.  One that a call works on, or died on, is the chain the call      *)
(* started from until the write that takes effect, and the new one after   *)
(* it.  Chains share nothing with each other nor with the blocks that a    *)
(* call holds besides (Spare), so a write of one call is outside of        *)
(* everything that others rely on.                                         *)
(***************************************************************************)
EXTENDS DbList, SequenceTheorems, FiniteSetTheorems, FunctionTheorems,
        WellFoundedInduction, TLAPS

(***************************************************************************)
(* Chains                                                                  *)
(***************************************************************************)
First(c) == IF c = <<>> THEN NULL ELSE c[1]
Final(c) == IF c = <<>> THEN NULL ELSE c[Len(c)]

Elements(c) == {c[i] : i \in 1 .. Len(c)}
Distinct(c) == \A i, j \in 1 .. Len(c) : c[i] = c[j] => i = j

Forward(c) == \A i \in 1 .. Len(c) - 1 : disk[c[i]].second = c[i + 1]
Backward(c) == \A i \in 2 .. Len(c) : disk[c[i]].first = c[i - 1]
Starts(c, v) == c # <<>> => disk[c[1]].first = v
Ends(c, v) == c # <<>> => disk[c[Len(c)]].second = v

Whole(c) == Forward(c) /\ Backward(c) /\ Starts(c, NULL) /\ Ends(c, NULL)

\* What the header on disk says of the chain.
Described(l, c) == HeadOf(l) = First(c) /\ TailOf(l) = Final(c) /\ SizeOf(l) = Len(c)

Intact(l, c) == Whole(c) /\ Described(l, c)

\* What is left of a list after a push that died half way.
Readable(l, c) == HeadOf(l) = First(c) /\ SizeOf(l) = Len(c) /\ Forward(c)

(***************************************************************************)
(* What a call in progress knows of its list.                              *)
(***************************************************************************)
\* The call's own copy of the header describes the chain.
Copied(p, c) ==
  mem[p].head = First(c) /\ mem[p].tail = Final(c) /\ mem[p].size = Len(c)

Creating(p) ==
  /\ pc[p] = "save"
  /\ mem[p].list \in Blocks
  /\ mem[p].head = NULL /\ mem[p].tail = NULL /\ mem[p].size = 0

\* Before the old end of the list is linked to the new node.
Waiting(p, c) ==
  /\ Whole(c)
  /\ mem[p].head = First(c) /\ mem[p].tail = Final(c)
  /\ mem[p].prev = NULL /\ mem[p].succ = NULL
  /\ pc[p] = "link" => c # <<>> /\ mem[p].x \in Blocks

\* After it.
Grown(p, c) ==
  LET m == mem[p] IN
  /\ m.x \in Blocks
  /\ Forward(c) /\ Backward(c)
  /\ m.op = "push_tail" =>
       /\ m.prev = Final(c) /\ m.succ = NULL
       /\ m.tail = m.x /\ m.head = (IF c = <<>> THEN m.x ELSE First(c))
       /\ Starts(c, NULL) /\ Ends(c, m.x)
  /\ m.op = "push_head" =>
       /\ m.prev = NULL /\ m.succ = First(c)
       /\ m.head = m.x /\ m.tail = (IF c = <<>> THEN m.x ELSE Final(c))
       /\ Starts(c, m.x) /\ Ends(c, NULL)
  /\ pc[p] = "save" => disk[m.x] = Node(m.prev, m.succ, m.val)

Pushing(p, c) ==
  /\ pc[p] \in {"alloc", "link", "write", "save"}
  /\ mem[p].val \in Values
  /\ mem[p].size = Len(c) + 1
  /\ Described(mem[p].list, c)
  /\ pc[p] \in {"alloc", "link"} => Waiting(p, c)
  /\ pc[p] \in {"write", "save"} => Grown(p, c)

\* The last element of a list is popped without a write to any other node.
Lone(p) == pc[p] = "free" /\ mem[p].head = NULL

Popping(p, c) ==
  LET m == mem[p] IN
  /\ pc[p] \in {"unlink", "free", "save"}
  /\ pc[p] # "save" => m.x \in Blocks
  /\ pc[p] = "unlink" =>
       /\ Intact(m.list, c) /\ Len(c) >= 2 /\ m.size = Len(c) - 1
       /\ m.op = "pop_tail" => m.x = c[Len(c)] /\ m.tail = c[Len(c) - 1] /\ m.head = c[1]
       /\ m.op = "pop_head" => m.x = c[1] /\ m.head = c[2] /\ m.tail = c[Len(c)]
  /\ Lone(p) => /\ Intact(m.list, c) /\ Len(c) = 1
                /\ m.x = c[1] /\ m.tail = NULL /\ m.size = 0
  /\ pc[p] # "unlink" /\ ~Lone(p) => Whole(c) /\ Copied(p, c)

Setting(p, c) ==
  /\ pc[p] \in {"set", "save"}
  /\ Intact(mem[p].list, c) /\ Copied(p, c)
  /\ mem[p].val \in Values
  /\ pc[p] = "set" => mem[p].index < Len(c) /\ mem[p].x = c[mem[p].index + 1]

\* The chain is what release has not freed yet.
Dropping(p, c) ==
  LET l == mem[p].list IN
  /\ pc[p] = "drop"
  /\ mem[p].x = First(c)
  /\ Forward(c) /\ Ends(c, NULL)
  /\ mem[p].x = HeadOf(l) => Intact(l, c)
  /\ mem[p].x # HeadOf(l) => HeadOf(l) # NULL /\ HeadOf(l) \notin Elements(c)

Working(p, c) ==
  /\ mem[p].op \in Pushes \cup Pops \cup {"update", "release"}
  /\ mem[p].op \in Pushes => Pushing(p, c)
  /\ mem[p].op \in Pops => Popping(p, c)
  /\ mem[p].op = "update" => Setting(p, c)
  /\ mem[p].op = "release" => Dropping(p, c)

Sound == lists \ (linked \cup damaged)

Job(p, ch) ==
  /\ pc[p] = "idle" => mem[p] = NoCall
  /\ pc[p] # "idle" =>
       IF mem[p].op = "create"
       THEN Creating(p) /\ mem[p].list \notin lists
       ELSE mem[p].list \in Sound /\ Working(p, ch[mem[p].list])

(***************************************************************************)
(* Who owns which block.                                                   *)
(***************************************************************************)
Body(ch, l) == Elements(ch[l]) \cup {l}

\* The blocks a call holds that are in no list.
Spare(p) ==
  CASE pc[p] = "idle" -> {}
    [] pc[p] # "idle" /\ mem[p].op = "create" -> {mem[p].list}
    [] mem[p].op \in Pushes /\ pc[p] \in {"link", "write", "save"} -> {mem[p].x}
    [] mem[p].op \in Pops /\ pc[p] = "free" /\ mem[p].head # NULL -> {mem[p].x}
    [] OTHER -> {}

Apart(ch) ==
  /\ \A l \in lists : /\ Body(ch, l) \subseteq live
                      /\ l \notin Elements(ch[l])
                      /\ Distinct(ch[l])
  /\ \A k, l \in lists : k # l => Body(ch, k) \cap Body(ch, l) = {}
  /\ \A p \in Procs : /\ Spare(p) \subseteq live
                      /\ \A l \in lists : Spare(p) \cap Body(ch, l) = {}
                      /\ \A q \in Procs : q # p => Spare(p) \cap Spare(q) = {}

\* No block in use is in nobody's hands.
Full(ch) ==
  \A b \in live : \/ \E l \in lists : b \in Body(ch, l)
                  \/ \E p \in Procs : b \in Spare(p)

(***************************************************************************)
(* The inductive invariant, about a given choice of the chains.            *)
(***************************************************************************)
Rest(l, ch) ==
  /\ l \notin linked \cup damaged /\ (\A q \in Busy : mem[q].list # l) => Intact(l, ch[l])
  /\ l \in linked \ damaged => Readable(l, ch[l])

OneEach == \A p, q \in Busy : p # q => mem[p].list # mem[q].list

Inv(ch) ==
  /\ TypeOK
  /\ ch \in [lists -> Seq(Blocks)]
  /\ linked \cup damaged \subseteq lists
  /\ Apart(ch)
  /\ OneEach
  /\ \A p \in Procs : Job(p, ch)
  /\ \A l \in lists : Rest(l, ch)
-----------------------------------------------------------------------------
(***************************************************************************)
(* Sequences that grow and shrink at their ends.                           *)
(***************************************************************************)
Longer(c, b) == Append(c, b)
Headed(b, c) == [i \in 1 .. Len(c) + 1 |-> IF i = 1 THEN b ELSE c[i - 1]]
Shorter(c) == [i \in 1 .. Len(c) - 1 |-> c[i]]
Beheaded(c) == [i \in 1 .. Len(c) - 1 |-> c[i + 1]]

LEMMA Members ==
  ASSUME NEW c \in Seq(Blocks)
  PROVE  /\ Len(c) \in Nat
         /\ \A i \in 1 .. Len(c) : c[i] \in Blocks
         /\ c = <<>> <=> Len(c) = 0
         /\ First(c) \in Loc /\ Final(c) \in Loc
         /\ First(c) = NULL <=> c = <<>>
         /\ Final(c) = NULL <=> c = <<>>
  BY ConstAssumption DEF First, Final, Loc

LEMMA LongerIs ==
  ASSUME NEW c \in Seq(Blocks), NEW b \in Blocks
  PROVE  LET d == Longer(c, b)
         IN /\ d \in Seq(Blocks) /\ Len(d) = Len(c) + 1
            /\ \A i \in 1 .. Len(c) : d[i] = c[i]
            /\ d[Len(c) + 1] = b
            /\ Elements(d) = Elements(c) \cup {b}
            /\ Distinct(c) /\ b \notin Elements(c) => Distinct(d)
<1> DEFINE d == Longer(c, b)
<1>1. /\ d \in Seq(Blocks) /\ Len(d) = Len(c) + 1
      /\ \A i \in 1 .. Len(c) : d[i] = c[i]
      /\ d[Len(c) + 1] = b
  BY DEF Longer
<1> HIDE DEF d
<1>2. Elements(d) = Elements(c) \cup {b}
  BY <1>1, Members DEF Elements
<1>3. Distinct(c) /\ b \notin Elements(c) => Distinct(d)
  BY <1>1, Members DEF Elements, Distinct
<1> QED
  BY <1>1, <1>2, <1>3 DEF d

LEMMA HeadedIs ==
  ASSUME NEW c \in Seq(Blocks), NEW b \in Blocks
  PROVE  LET d == Headed(b, c)
         IN /\ d \in Seq(Blocks) /\ Len(d) = Len(c) + 1
            /\ d[1] = b
            /\ \A i \in 1 .. Len(c) : d[i + 1] = c[i]
            /\ Elements(d) = Elements(c) \cup {b}
            /\ Distinct(c) /\ b \notin Elements(c) => Distinct(d)
<1> DEFINE d == Headed(b, c)
<1>1. /\ d \in Seq(Blocks) /\ Len(d) = Len(c) + 1
      /\ d[1] = b
      /\ \A i \in 1 .. Len(c) : d[i + 1] = c[i]
      /\ \A i \in 2 .. Len(d) : d[i] = c[i - 1]
  BY Members DEF Headed
<1> HIDE DEF d
<1>2. Elements(d) = Elements(c) \cup {b}
  <2>1. \A i \in 1 .. Len(d) : i = 1 \/ (i \in 2 .. Len(d) /\ i - 1 \in 1 .. Len(c))
    BY <1>1, Members
  <2>2. \A i \in 1 .. Len(c) : i + 1 \in 1 .. Len(d)
    BY <1>1, Members
  <2>3. \A i \in 1 .. Len(d) : d[i] = b \/ \E j \in 1 .. Len(c) : d[i] = c[j]
    BY <1>1, <2>1
  <2>4. \A i \in 1 .. Len(c) : \E j \in 1 .. Len(d) : c[i] = d[j]
    BY <1>1, <2>2
  <2>5. 1 \in 1 .. Len(d) /\ d[1] = b
    BY <1>1, Members
  <2>6. \A x : x \in Elements(c) <=> \E i \in 1 .. Len(c) : x = c[i]
    BY DEF Elements
  <2>7. \A x : x \in Elements(d) <=> \E i \in 1 .. Len(d) : x = d[i]
    BY DEF Elements
  <2>8. ASSUME NEW x \in Elements(d) PROVE x \in Elements(c) \cup {b}
    BY <2>3, <2>6, <2>7
  <2>9. ASSUME NEW x \in Elements(c) PROVE x \in Elements(d)
    BY <2>4, <2>6, <2>7
  <2>10. b \in Elements(d)
    BY <2>5, <2>7
  <2> QED
    BY <2>8, <2>9, <2>10
<1>3. ASSUME Distinct(c), b \notin Elements(c) PROVE Distinct(d)
  <2> SUFFICES ASSUME NEW i \in 1 .. Len(d), NEW j \in 1 .. Len(d), d[i] = d[j]
               PROVE  i = j
    BY DEF Distinct
  <2>1. \A k \in 1 .. Len(d) : k = 1 \/ (k \in 2 .. Len(d) /\ k - 1 \in 1 .. Len(c))
    BY <1>1, Members
  <2>2. \A k \in 2 .. Len(d) : d[k] \in Elements(c) /\ d[k] # b
    BY <1>1, <1>3, <2>1, Members DEF Elements
  <2>3. CASE i = 1 \/ j = 1
    BY <1>1, <2>1, <2>2, <2>3
  <2>4. CASE i # 1 /\ j # 1
    <3>1. c[i - 1] = c[j - 1] /\ i - 1 \in 1 .. Len(c) /\ j - 1 \in 1 .. Len(c)
      BY <1>1, <2>1, <2>4
    <3>2. i - 1 = j - 1
      BY <1>3, <3>1 DEF Distinct
    <3> QED
      BY <3>1, <3>2
  <2> QED
    BY <2>3, <2>4
<1> QED
  BY <1>1, <1>2, <1>3 DEF d

LEMMA ShorterIs ==
  ASSUME NEW c \in Seq(Blocks), c # <<>>
  PROVE  LET d == Shorter(c)
         IN /\ d \in Seq(Blocks) /\ Len(d) = Len(c) - 1
            /\ \A i \in 1 .. Len(c) - 1 : d[i] = c[i]
            /\ Elements(c) = Elements(d) \cup {c[Len(c)]}
            /\ Distinct(c) => Distinct(d) /\ c[Len(c)] \notin Elements(d)
<1> DEFINE d == Shorter(c)
<1>1. /\ d \in Seq(Blocks) /\ Len(d) = Len(c) - 1
      /\ \A i \in 1 .. Len(c) - 1 : d[i] = c[i]
  BY Members DEF Shorter
<1> HIDE DEF d
<1>2. Elements(c) = Elements(d) \cup {c[Len(c)]}
  BY <1>1, Members DEF Elements
<1>3. Distinct(c) => Distinct(d) /\ c[Len(c)] \notin Elements(d)
  BY <1>1, Members DEF Elements, Distinct
<1> QED
  BY <1>1, <1>2, <1>3 DEF d

LEMMA BeheadedIs ==
  ASSUME NEW c \in Seq(Blocks), c # <<>>
  PROVE  LET d == Beheaded(c)
         IN /\ d \in Seq(Blocks) /\ Len(d) = Len(c) - 1
            /\ \A i \in 1 .. Len(c) - 1 : d[i] = c[i + 1]
            /\ Elements(c) = Elements(d) \cup {c[1]}
            /\ Distinct(c) => Distinct(d) /\ c[1] \notin Elements(d)
<1> DEFINE d == Beheaded(c)
<1>1. /\ d \in Seq(Blocks) /\ Len(d) = Len(c) - 1
      /\ \A i \in 1 .. Len(c) - 1 : d[i] = c[i + 1]
      /\ \A i \in 2 .. Len(c) : c[i] = d[i - 1]
  BY Members DEF Beheaded
<1> HIDE DEF d
<1>2. Elements(c) = Elements(d) \cup {c[1]}
  <2>1. \A i \in 1 .. Len(c) : i = 1 \/ (i \in 2 .. Len(c) /\ i - 1 \in 1 .. Len(d))
    BY <1>1, Members
  <2>2. \A i \in 1 .. Len(d) : i + 1 \in 1 .. Len(c)
    BY <1>1, Members
  <2>3. \A i \in 1 .. Len(c) : c[i] = c[1] \/ \E j \in 1 .. Len(d) : c[i] = d[j]
    BY <1>1, <2>1
  <2>4. \A i \in 1 .. Len(d) : \E j \in 1 .. Len(c) : d[i] = c[j]
    BY <1>1, <2>2
  <2>5. 1 \in 1 .. Len(c)
    BY Members
  <2>6. \A x : x \in Elements(c) <=> \E i \in 1 .. Len(c) : x = c[i]
    BY DEF Elements
  <2>7. \A x : x \in Elements(d) <=> \E i \in 1 .. Len(d) : x = d[i]
    BY DEF Elements
  <2>8. ASSUME NEW x \in Elements(c) PROVE x \in Elements(d) \cup {c[1]}
    BY <2>3, <2>6, <2>7
  <2>9. ASSUME NEW x \in Elements(d) PROVE x \in Elements(c)
    BY <2>4, <2>6, <2>7
  <2>10. c[1] \in Elements(c)
    BY <2>5, <2>6
  <2> QED
    BY <2>8, <2>9, <2>10
<1>3. Distinct(c) => Distinct(d) /\ c[1] \notin Elements(d)
  BY <1>1, Members DEF Elements, Distinct
<1> QED
  BY <1>1, <1>2, <1>3 DEF d

LEMMA EmptyIs == /\ <<>> \in Seq(Blocks) /\ Len(<<>>) = 0
                 /\ Elements(<<>>) = {} /\ Distinct(<<>>)
  BY DEF Elements, Distinct
-----------------------------------------------------------------------------
(***************************************************************************)
(* A write elsewhere.                                                      *)
(***************************************************************************)
LEMMA SameChain ==
  ASSUME NEW c \in Seq(Blocks), \A b \in Elements(c) : disk'[b] = disk[b]
  PROVE  /\ Forward(c)' <=> Forward(c)
         /\ Backward(c)' <=> Backward(c)
         /\ \A v : Starts(c, v)' <=> Starts(c, v)
         /\ \A v : Ends(c, v)' <=> Ends(c, v)
         /\ Whole(c)' <=> Whole(c)
<1>1. \A i \in 1 .. Len(c) : disk'[c[i]] = disk[c[i]]
  BY DEF Elements
<1>2. Forward(c)' <=> Forward(c)
  BY <1>1, Members DEF Forward
<1>3. Backward(c)' <=> Backward(c)
  BY <1>1, Members DEF Backward
<1>4. \A v : Starts(c, v)' <=> Starts(c, v)
  BY <1>1, Members DEF Starts
<1>5. \A v : Ends(c, v)' <=> Ends(c, v)
  BY <1>1, Members DEF Ends
<1> QED
  BY <1>2, <1>3, <1>4, <1>5 DEF Whole

LEMMA SameHeader ==
  ASSUME NEW l, NEW c, disk'[l] = disk[l]
  PROVE  /\ HeadOf(l)' = HeadOf(l) /\ TailOf(l)' = TailOf(l) /\ SizeOf(l)' = SizeOf(l)
         /\ Described(l, c)' <=> Described(l, c)
  BY DEF HeadOf, TailOf, SizeOf, Described

\* What a call that makes no step relies on is untouched.
LEMMA SameCall ==
  ASSUME NEW q \in Procs, NEW c \in Seq(Blocks), Working(q, c),
         pc'[q] = pc[q], mem'[q] = mem[q], pc[q] # "idle",
         \A b \in Elements(c) \cup {mem[q].list} \cup Spare(q) : disk'[b] = disk[b]
  PROVE  Working(q, c)'
<1>1. /\ Forward(c)' <=> Forward(c)
      /\ Backward(c)' <=> Backward(c)
      /\ \A v : Starts(c, v)' <=> Starts(c, v)
      /\ \A v : Ends(c, v)' <=> Ends(c, v)
      /\ Whole(c)' <=> Whole(c)
  BY SameChain
<1> DEFINE l == mem[q].list
<1>2. /\ HeadOf(l)' = HeadOf(l)
      /\ Described(l, c)' <=> Described(l, c)
      /\ Intact(l, c)' <=> Intact(l, c)
  BY <1>1, SameHeader DEF Intact
<1>3. mem'[q].list = l
  OBVIOUS
<1> HIDE DEF l
<1>4. CASE mem[q].op \in Pushes
  <2>1. Pushing(q, c)
    BY <1>4 DEF Working
  <2>2. Waiting(q, c) => Waiting(q, c)'
    BY <1>1 DEF Waiting
  <2>3. pc[q] \in {"write", "save"} => Grown(q, c)'
    <3> SUFFICES ASSUME pc[q] \in {"write", "save"} PROVE Grown(q, c)'
      OBVIOUS
    <3>1. Grown(q, c)
      BY <2>1 DEF Pushing
    <3>2. disk'[mem[q].x] = disk[mem[q].x]
      BY <1>4 DEF Spare, Pushes
    <3> QED
      BY <1>1, <3>1, <3>2 DEF Grown
  <2>4. Pushing(q, c)'
    BY <1>2, <1>3, <2>1, <2>2, <2>3 DEF Pushing, l
  <2> QED
    BY <1>4, <2>4 DEF Working, Pushes, Pops
<1>5. CASE mem[q].op \in Pops
  <2>1. Popping(q, c)
    BY <1>5 DEF Working
  <2>2. Popping(q, c)'
    BY <1>1, <1>2, <1>3, <2>1 DEF Popping, Lone, Copied, l
  <2> QED
    BY <1>5, <2>2 DEF Working, Pushes, Pops
<1>6. CASE mem[q].op = "update"
  <2>1. Setting(q, c)'
    BY <1>1, <1>2, <1>3, <1>6 DEF Working, Setting, Copied, l
  <2> QED
    BY <1>6, <2>1 DEF Working, Pushes, Pops
<1>7. CASE mem[q].op = "release"
  <2>1. Dropping(q, c)'
    BY <1>1, <1>2, <1>3, <1>7 DEF Working, Dropping, l
  <2> QED
    BY <1>7, <2>1 DEF Working, Pushes, Pops
<1> QED
  BY <1>4, <1>5, <1>6, <1>7 DEF Working
-----------------------------------------------------------------------------
(***************************************************************************)
(* A step of p changes nothing but its list l, its own variables and the   *)
(* blocks of the two.                                                      *)
(***************************************************************************)
Mine(p, l, ch) == Spare(p) \cup IF l \in lists THEN Body(ch, l) ELSE {}

Local(p, l, ch, ch2) ==
  /\ \A q \in Procs \ {p} : pc'[q] = pc[q] /\ mem'[q] = mem[q]
  /\ \A q \in Busy \ {p} : mem[q].list # l
  /\ pc[p] # "idle" => mem[p].list = l
  /\ pc'[p] # "idle" => mem'[p].list = l
  /\ \A b \in Blocks : disk'[b] # disk[b] => b \in Mine(p, l, ch)
  /\ \A k : k # l => /\ k \in lists' <=> k \in lists
                     /\ k \in linked' <=> k \in linked
                     /\ k \in damaged' <=> k \in damaged
  /\ \A k \in lists \ {l} : ch2[k] = ch[k]

\* What p and l own after the step they owned before, or it was free.
Handed(p, l, ch, ch2) ==
  /\ Mine(p, l, ch2)' \subseteq live'
  /\ \A b \in Mine(p, l, ch2)' : b \in Mine(p, l, ch) \/ b \notin live
  /\ live \ Mine(p, l, ch) \subseteq live'
  /\ l \in lists' => /\ l \notin Elements(ch2[l])
                     /\ Distinct(ch2[l])
                     /\ Spare(p)' \cap Body(ch2, l) = {}

LEMMA Elsewhere ==
  ASSUME NEW ch, NEW ch2, NEW p \in Procs, NEW l,
         Inv(ch), Local(p, l, ch, ch2)
  PROVE  /\ \A q \in Procs \ {p} : Job(q, ch2)' /\ Spare(q)' = Spare(q)
         /\ \A k \in lists' \ {l} : Rest(k, ch2)'
         /\ OneEach'
<1>1. \A q \in Procs \ {p} : Spare(q)' = Spare(q)
  BY DEF Local, Spare
<1>2. ASSUME NEW k \in lists, k # l
      PROVE  /\ ch2[k] = ch[k] /\ ch[k] \in Seq(Blocks) /\ k \in Blocks
             /\ \A b \in Body(ch, k) : disk'[b] = disk[b]
  <2>1. Body(ch, k) \cap Mine(p, l, ch) = {} /\ Body(ch, k) \subseteq Blocks
    BY <1>2 DEF Inv, Apart, Mine, TypeOK
  <2> QED
    BY <1>2, <2>1 DEF Local, Inv, TypeOK
<1>3. ASSUME NEW q \in Procs \ {p} PROVE Job(q, ch2)'
  <2>1. pc'[q] = pc[q] /\ mem'[q] = mem[q] /\ Job(q, ch)
    BY DEF Local, Inv
  <2>2. CASE pc[q] = "idle"
    BY <2>1, <2>2 DEF Job
  <2>3. CASE pc[q] # "idle" /\ mem[q].op = "create"
    <3>1. mem[q].list # l
      BY <2>3 DEF Local, Busy
    <3> QED
      BY <2>1, <2>3, <3>1 DEF Job, Creating, Local
  <2>4. CASE pc[q] # "idle" /\ mem[q].op # "create"
    <3> DEFINE k == mem[q].list
    <3>1. k # l /\ k \in Sound /\ Working(q, ch[k])
      BY <2>1, <2>4 DEF Local, Busy, Job
    <3>2. k \in Sound'
      BY <3>1 DEF Sound, Local
    <3>3. Spare(q) \cap Mine(p, l, ch) = {} /\ Spare(q) \subseteq Blocks
      BY DEF Inv, Apart, Mine, TypeOK
    <3>4. \A b \in Elements(ch[k]) \cup {k} \cup Spare(q) : disk'[b] = disk[b]
      BY <1>2, <3>1, <3>3 DEF Local, Sound, Body
    <3>5. Working(q, ch[k])'
      BY <1>2, <2>1, <2>4, <3>1, <3>4, SameCall DEF Sound
    <3> QED
      BY <1>2, <2>1, <2>4, <3>1, <3>2, <3>5 DEF Job, Sound
  <2> QED
    BY <2>2, <2>3, <2>4
<1>4. ASSUME NEW k \in lists' \ {l} PROVE Rest(k, ch2)'
  <2>1. k \in lists /\ k # l /\ Rest(k, ch)
    BY DEF Local, Inv
  <2>2. /\ Whole(ch[k])' <=> Whole(ch[k])
        /\ Forward(ch[k])' <=> Forward(ch[k])
        /\ Described(k, ch[k])' <=> Described(k, ch[k])
        /\ HeadOf(k)' = HeadOf(k) /\ SizeOf(k)' = SizeOf(k)
    BY <1>2, <2>1, SameChain, SameHeader DEF Body
  <2>3. (\A q \in Busy' : mem'[q].list # k) => \A q \in Busy : mem[q].list # k
    BY <2>1 DEF Busy, Local
  <2> QED
    BY <1>2, <2>1, <2>2, <2>3 DEF Rest, Intact, Readable, Local
<1>5. OneEach'
  BY DEF Inv, OneEach, Local, Busy
<1> QED
  BY <1>1, <1>3, <1>4, <1>5

LEMMA Ownership ==
  ASSUME NEW ch, NEW ch2, NEW p \in Procs, NEW l,
         Inv(ch), Local(p, l, ch, ch2), Handed(p, l, ch, ch2)
  PROVE  /\ Apart(ch2)'
         /\ Full(ch) /\ live' \subseteq live \cup Mine(p, l, ch2)'
              /\ Mine(p, l, ch) \cap live' \subseteq Mine(p, l, ch2)' => Full(ch2)'
<1>1. \A q \in Procs \ {p} : Spare(q)' = Spare(q)
  BY Elsewhere
<1>2. \A k \in lists \ {l} : Body(ch2, k) = Body(ch, k)
  BY DEF Local, Body
<1>3. \A k : k # l => (k \in lists' <=> k \in lists)
  BY DEF Local
<1> DEFINE old == Mine(p, l, ch)
           new == Mine(p, l, ch2)'
<1>4. /\ \A k \in lists \ {l} : Body(ch, k) \subseteq live /\ Body(ch, k) \cap old = {}
      /\ \A q \in Procs \ {p} : Spare(q) \subseteq live /\ Spare(q) \cap old = {}
  <2>1. \A q \in Procs \ {p} : l \in lists => Spare(q) \cap Body(ch, l) = {}
    BY DEF Inv, Apart
  <2> QED
    BY <2>1 DEF Inv, Apart, Mine
<1>5. /\ new \subseteq live'
      /\ \A b \in new : b \in old \/ b \notin live
      /\ live \ old \subseteq live'
  BY DEF Handed
<1>6. /\ \A k \in lists \ {l} : Body(ch, k) \subseteq live' /\ Body(ch, k) \cap new = {}
      /\ \A q \in Procs \ {p} : Spare(q) \subseteq live' /\ Spare(q) \cap new = {}
  BY <1>4, <1>5
<1>7. /\ Spare(p)' \subseteq new
      /\ l \in lists' => Body(ch2, l) \subseteq new
      /\ \A b \in new : b \in Spare(p)' \/ (l \in lists' /\ b \in Body(ch2, l))
  BY DEF Mine
<1>8. \A b \in old : b \in Spare(p) \/ (l \in lists /\ b \in Body(ch, l))
  BY DEF Mine
<1> HIDE DEF old, new
<1>9. \A k \in lists' : /\ Body(ch2, k) \subseteq live'
                        /\ k \notin Elements(ch2[k])
                        /\ Distinct(ch2[k])
  <2>1. ASSUME NEW k \in lists', k # l
        PROVE  /\ Body(ch2, k) \subseteq live'
               /\ k \notin Elements(ch2[k])
               /\ Distinct(ch2[k])
    <3>1. k \in lists /\ ch2[k] = ch[k]
      BY <1>3, <2>1 DEF Local
    <3> QED
      BY <1>2, <1>6, <2>1, <3>1 DEF Inv, Apart
  <2>2. l \in lists' => /\ Body(ch2, l) \subseteq live'
                        /\ l \notin Elements(ch2[l])
                        /\ Distinct(ch2[l])
    BY <1>5, <1>7 DEF Handed
  <2> QED
    BY <2>1, <2>2
<1>10. \A j, k \in lists' : j # k => Body(ch2, j) \cap Body(ch2, k) = {}
  <2>1. ASSUME NEW k \in lists', k # l PROVE k \in lists /\ Body(ch2, k) = Body(ch, k)
    BY <1>2, <1>3, <2>1
  <2>2. \A j, k \in lists : j # k => Body(ch, j) \cap Body(ch, k) = {}
    BY DEF Inv, Apart
  <2>3. \A k \in lists' : k # l /\ l \in lists' => Body(ch2, k) \cap Body(ch2, l) = {}
    BY <1>6, <1>7, <2>1
  <2> QED
    BY <2>1, <2>2, <2>3
<1>11. \A q \in Procs : /\ Spare(q)' \subseteq live'
                        /\ \A k \in lists' : Spare(q)' \cap Body(ch2, k) = {}
                        /\ \A r \in Procs : r # q => Spare(q)' \cap Spare(r)' = {}
  <2>1. \A q \in Procs \ {p} : \A k \in lists : Spare(q) \cap Body(ch, k) = {}
    BY DEF Inv, Apart
  <2>2. \A q, r \in Procs \ {p} : r # q => Spare(q) \cap Spare(r) = {}
    BY DEF Inv, Apart
  <2>3. l \in lists' => Spare(p)' \cap Body(ch2, l) = {}
    BY DEF Handed
  <2>4. ASSUME NEW q \in Procs, NEW k \in lists' PROVE Spare(q)' \cap Body(ch2, k) = {}
    <3>1. CASE q = p /\ k = l
      BY <2>3, <3>1
    <3>2. CASE q = p /\ k # l
      BY <1>2, <1>3, <1>6, <1>7, <3>2
    <3>3. CASE q # p /\ k = l
      BY <1>1, <1>6, <1>7, <3>3
    <3>4. CASE q # p /\ k # l
      BY <1>1, <1>2, <1>3, <2>1, <3>4
    <3> QED
      BY <3>1, <3>2, <3>3, <3>4
  <2>5. ASSUME NEW q \in Procs, NEW r \in Procs, r # q PROVE Spare(q)' \cap Spare(r)' = {}
    <3>1. CASE q # p /\ r # p
      BY <1>1, <2>2, <2>5, <3>1
    <3>2. CASE q = p
      BY <1>1, <1>6, <1>7, <2>5, <3>2
    <3>3. CASE r = p
      BY <1>1, <1>6, <1>7, <2>5, <3>3
    <3> QED
      BY <3>1, <3>2, <3>3
  <2>6. \A q \in Procs : Spare(q)' \subseteq live'
    BY <1>1, <1>5, <1>6, <1>7
  <2> QED
    BY <2>4, <2>5, <2>6
<1>12. ASSUME Full(ch), live' \subseteq live \cup new, old \cap live' \subseteq new
       PROVE  Full(ch2)'
  <2> SUFFICES ASSUME NEW b \in live'
               PROVE  \/ \E k \in lists' : b \in Body(ch2, k)
                      \/ \E q \in Procs : b \in Spare(q)'
    BY DEF Full
  <2>1. CASE b \in new
    BY <1>7, <2>1
  <2>2. CASE b \notin new
    <3>1. b \in live /\ b \notin old
      BY <1>12, <2>2
    <3>2. Spare(p) \subseteq old /\ (l \in lists => Body(ch, l) \subseteq old)
      BY DEF Mine, old
    <3>3. \/ \E k \in lists \ {l} : b \in Body(ch, k)
          \/ \E q \in Procs \ {p} : b \in Spare(q)
      BY <1>12, <3>1, <3>2 DEF Full
    <3> QED
      BY <1>1, <1>2, <1>3, <3>3
  <2> QED
    BY <2>1, <2>2
<1> QED
  BY <1>9, <1>10, <1>11, <1>12 DEF Apart, old, new

\* What is left to show of a step.
LEMMA Stepping ==
  ASSUME NEW ch, NEW ch2, NEW p \in Procs, NEW l,
         Inv(ch), Local(p, l, ch, ch2), Handed(p, l, ch, ch2),
         TypeOK', ch2 \in [lists' -> Seq(Blocks)],
         l \in linked' \cup damaged' => l \in lists',
         Job(p, ch2)', l \in lists' => Rest(l, ch2)'
  PROVE  Inv(ch2)'
<1>1. linked' \cup damaged' \subseteq lists'
  BY DEF Inv, Local
<1>2. \A q \in Procs : Job(q, ch2)'
  BY Elsewhere
<1>3. \A k \in lists' : Rest(k, ch2)'
  BY Elsewhere
<1> QED
  BY <1>1, <1>2, <1>3, Elsewhere, Ownership DEF Inv
-----------------------------------------------------------------------------
(***************************************************************************)
(* The calls start.                                                        *)
(***************************************************************************)
\* What a step on the way to the next state has to keep; ch2 are the chains
\* after it.
Keeps(p, l, ch, ch2) ==
  Inv(ch2)' /\ Local(p, l, ch, ch2) /\ (Full(ch) => Full(ch2)')

LEMMA SpareIs ==
  ASSUME NEW p \in Procs
  PROVE  /\ pc[p] = "idle" => Spare(p) = {}
         /\ pc[p] # "idle" /\ mem[p].op = "create" => Spare(p) = {mem[p].list}
         /\ pc[p] \in {"link", "write", "save"} /\ mem[p].op \in Pushes
              => Spare(p) = {mem[p].x}
         /\ pc[p] = "alloc" /\ mem[p].op \in Pushes => Spare(p) = {}
         /\ pc[p] = "free" /\ mem[p].op \in Pops /\ mem[p].head # NULL
              => Spare(p) = {mem[p].x}
         /\ pc[p] \in {"unlink", "save"} /\ mem[p].op \in Pops => Spare(p) = {}
         /\ Lone(p) /\ mem[p].op \in Pops => Spare(p) = {}
         /\ mem[p].op \in {"update", "release"} => Spare(p) = {}
  BY DEF Spare, Pushes, Pops, Lone

\* The same of the next state.
LEMMA SpareWillBe ==
  ASSUME NEW p \in Procs
  PROVE  /\ pc'[p] = "idle" => Spare(p)' = {}
         /\ pc'[p] # "idle" /\ mem'[p].op = "create" => Spare(p)' = {mem'[p].list}
         /\ pc'[p] \in {"link", "write", "save"} /\ mem'[p].op \in Pushes
              => Spare(p)' = {mem'[p].x}
         /\ pc'[p] = "alloc" /\ mem'[p].op \in Pushes => Spare(p)' = {}
         /\ pc'[p] = "free" /\ mem'[p].op \in Pops /\ mem'[p].head # NULL
              => Spare(p)' = {mem'[p].x}
         /\ pc'[p] \in {"unlink", "save"} /\ mem'[p].op \in Pops => Spare(p)' = {}
         /\ pc'[p] = "free" /\ mem'[p].head = NULL /\ mem'[p].op \in Pops => Spare(p)' = {}
         /\ mem'[p].op \in {"update", "release"} => Spare(p)' = {}
  BY DEF Spare, Pushes, Pops

LEMMA Ready ==
  ASSUME NEW ch, NEW l, Inv(ch), Exclusive(l)
  PROVE  /\ l \in Sound /\ l \in lists /\ l \in Blocks /\ l \in live
         /\ ch[l] \in Seq(Blocks)
         /\ Intact(l, ch[l])
         /\ HeadOf(l) = First(ch[l]) /\ TailOf(l) = Final(ch[l]) /\ SizeOf(l) = Len(ch[l])
         /\ HeadOf(l) \in Loc /\ TailOf(l) \in Loc /\ SizeOf(l) \in Nat
         /\ Elements(ch[l]) \subseteq live /\ l \notin Elements(ch[l]) /\ Distinct(ch[l])
<1>1. l \in Sound /\ l \in lists /\ l \in Blocks
  BY DEF Exclusive, Sound, Inv, TypeOK
<1>2. Intact(l, ch[l])
  BY <1>1 DEF Exclusive, Inv, Rest, Sound
<1>3. ch[l] \in Seq(Blocks)
  BY <1>1 DEF Inv
<1> QED
  BY <1>1, <1>2, <1>3, Members DEF Inv, Apart, Body, Intact, Described

LEMMA ListsInUse ==
  ASSUME NEW ch, Inv(ch), NEW q \in Busy
  PROVE  mem[q].list \in live
<1>1. CASE mem[q].op = "create"
  BY <1>1, SpareIs DEF Inv, Apart, Busy
<1>2. CASE mem[q].op # "create"
  BY <1>2 DEF Inv, Apart, Job, Busy, Sound, Body
<1> QED
  BY <1>1, <1>2

LEMMA CreateKeeps ==
  ASSUME NEW ch, Inv(ch), NEW p \in Procs, Create(p), NEW l, l = mem'[p].list
  PROVE  Keeps(p, l, ch, ch)
<1>1. PICK b \in Blocks \ live :
        /\ Begin(p, "save", [NoCall EXCEPT !.op = "create", !.list = b])
        /\ live' = live \cup {b}
  BY DEF Create
<1>2. UNCHANGED <<disk, lists, linked, damaged>>
  BY DEF Create, history
<1>3. /\ pc[p] = "idle" /\ pc' = [pc EXCEPT ![p] = "save"]
      /\ mem' = [mem EXCEPT ![p] = [NoCall EXCEPT !.op = "create", !.list = b]]
  BY <1>1 DEF Begin
<1>4. TypeOK
  BY DEF Inv
<1>5. /\ mem'[p].op = "create" /\ mem'[p].list = b
      /\ mem'[p].head = NULL /\ mem'[p].tail = NULL /\ mem'[p].size = 0
      /\ mem'[p] \in Call /\ pc'[p] = "save"
      /\ \A q \in Procs \ {p} : mem'[q] = mem[q] /\ pc'[q] = pc[q]
  BY <1>3, <1>4 DEF TypeOK, NoCall, Call, Loc, Ops
<1>6. TypeOK'
  BY <1>1, <1>2, <1>3, <1>4, <1>5 DEF TypeOK
<1>7. b \notin lists /\ Spare(p) = {} /\ Spare(p)' = {b}
  BY <1>3, <1>5, SpareIs, SpareWillBe DEF Inv, Apart, Body
<1>8. Local(p, b, ch, ch)
  BY <1>1, <1>2, <1>3, <1>5, ListsInUse DEF Local
<1>9. Mine(p, b, ch) = {} /\ Mine(p, b, ch)' = {b}
  BY <1>2, <1>7 DEF Mine
<1>10. Handed(p, b, ch, ch)
  BY <1>1, <1>2, <1>7, <1>9 DEF Handed
<1>11. Job(p, ch)'
  BY <1>2, <1>5, <1>7 DEF Job, Creating
<1>12. Inv(ch)'
  <2>1. ch \in [lists' -> Seq(Blocks)] /\ (b \in linked' \cup damaged' => b \in lists')
    BY <1>2 DEF Inv
  <2> QED
    BY <1>2, <1>6, <1>7, <1>8, <1>10, <1>11, <2>1, Stepping
<1> QED
  BY <1>1, <1>5, <1>8, <1>9, <1>10, <1>12, Ownership DEF Keeps

LEMMA StartKeeps ==
  ASSUME NEW ch, Inv(ch), NEW p \in Procs, NEW l, Exclusive(l),
         NEW label \in {"alloc", "unlink", "free", "set", "drop"}, NEW m \in Call,
         m.list = l, m.op # "create", Begin(p, label, m),
         UNCHANGED <<disk, live, lists, linked, damaged>>,
         Working(p, ch[l])', Spare(p)' = {}
  PROVE  Keeps(p, l, ch, ch)
<1>1. /\ pc[p] = "idle" /\ pc' = [pc EXCEPT ![p] = label]
      /\ mem' = [mem EXCEPT ![p] = m]
  BY DEF Begin
<1>2. TypeOK /\ TypeOK'
  BY <1>1 DEF Inv, TypeOK
<1>3. /\ mem'[p] = m /\ pc'[p] = label
      /\ \A q \in Procs \ {p} : mem'[q] = mem[q] /\ pc'[q] = pc[q]
  BY <1>1, <1>2 DEF TypeOK
<1>4. l \in Sound /\ l \in lists
  BY Ready
<1>5. Local(p, l, ch, ch)
  BY <1>1, <1>3 DEF Local, Exclusive, Busy
<1>6. Mine(p, l, ch) = Body(ch, l) /\ Mine(p, l, ch)' = Body(ch, l)
  BY <1>1, <1>4, SpareIs DEF Mine, Body
<1>7. Handed(p, l, ch, ch)
  BY <1>4, <1>6 DEF Handed, Inv, Apart
<1>8. Job(p, ch)'
  BY <1>3, <1>4 DEF Job, Sound
<1>9. Rest(l, ch)'
  BY <1>3, <1>4 DEF Rest, Busy, Sound
<1>10. Inv(ch)'
  <2>1. ch \in [lists' -> Seq(Blocks)] /\ (l \in linked' \cup damaged' => l \in lists')
    BY <1>4 DEF Inv
  <2> QED
    BY <1>2, <1>5, <1>7, <1>8, <1>9, <2>1, Stepping
<1> QED
  BY <1>5, <1>6, <1>7, <1>10, Ownership DEF Keeps

LEMMA Loaded ==
  ASSUME NEW ch, NEW l, Inv(ch), Exclusive(l), NEW op \in Ops
  PROVE  LET m == Load(op, l)
         IN /\ m \in Call
            /\ m.op = op /\ m.list = l
            /\ m.head = HeadOf(l) /\ m.tail = TailOf(l) /\ m.size = SizeOf(l)
            /\ m.prev = NULL /\ m.succ = NULL
<1>1. l \in Loc /\ HeadOf(l) \in Loc /\ TailOf(l) \in Loc /\ SizeOf(l) \in Nat
  BY Ready DEF Loc
<1> QED
  BY <1>1 DEF Load, NoCall, Call, Loc

\* The header a push works on, and a pop.
LEMMA OneMore ==
  ASSUME NEW r \in Call, NEW v \in Values
  PROVE  LET m == [r EXCEPT !.size = @ + 1, !.val = v]
         IN /\ m \in Call
            /\ m.op = r.op /\ m.list = r.list /\ m.head = r.head /\ m.tail = r.tail
            /\ m.size = r.size + 1 /\ m.prev = r.prev /\ m.succ = r.succ /\ m.val = v
<1>1. r.size + 1 \in Nat
  BY DEF Call
<1> QED
  BY <1>1 DEF Call

LEMMA OneLess ==
  ASSUME NEW r \in Call, r.size # 0, NEW x \in Loc, NEW new \in Loc
  PROVE  /\ LET m == [r EXCEPT !.size = @ - 1, !.x = x, !.tail = new]
            IN /\ m \in Call /\ m.op = r.op /\ m.list = r.list /\ m.head = r.head
               /\ m.tail = new /\ m.size = r.size - 1 /\ m.x = x
         /\ LET m == [r EXCEPT !.size = @ - 1, !.x = x, !.head = new]
            IN /\ m \in Call /\ m.op = r.op /\ m.list = r.list /\ m.tail = r.tail
               /\ m.head = new /\ m.size = r.size - 1 /\ m.x = x
<1>1. r.size - 1 \in Nat
  BY DEF Call
<1> QED
  BY <1>1 DEF Call

LEMMA NoEnd ==
  ASSUME NEW r \in Call
  PROVE  /\ LET m == [r EXCEPT !.head = NULL]
            IN /\ m \in Call /\ m.op = r.op /\ m.list = r.list /\ m.head = NULL
               /\ m.tail = r.tail /\ m.size = r.size /\ m.x = r.x
         /\ LET m == [r EXCEPT !.tail = NULL]
            IN /\ m \in Call /\ m.op = r.op /\ m.list = r.list /\ m.tail = NULL
               /\ m.head = r.head /\ m.size = r.size /\ m.x = r.x
<1>1. NULL \in Loc
  BY DEF Loc
<1> QED
  BY <1>1 DEF Call

LEMMA SameDisk ==
  ASSUME UNCHANGED disk, NEW l, NEW c \in Seq(Blocks)
  PROVE  /\ HeadOf(l)' = HeadOf(l)
         /\ Whole(c)' <=> Whole(c)
         /\ Forward(c)' <=> Forward(c)
         /\ \A v : Ends(c, v)' <=> Ends(c, v)
         /\ Described(l, c)' <=> Described(l, c)
         /\ Intact(l, c)' <=> Intact(l, c)
  BY SameChain, SameHeader DEF Intact

LEMMA PushKeeps ==
  ASSUME NEW ch, Inv(ch), NEW p \in Procs, NEW op \in Pushes, NEW l \in lists,
         NEW v \in Values, Push(p, op, l, v)
  PROVE  Keeps(p, l, ch, ch)
<1>1. /\ Exclusive(l) /\ Begin(p, "alloc", [Load(op, l) EXCEPT !.size = @ + 1, !.val = v])
      /\ UNCHANGED <<disk, live, lists, linked, damaged>>
  BY DEF Push, history
<1>c. PICK c : c = ch[l]
  OBVIOUS
<1>2. /\ Intact(l, c) /\ c \in Seq(Blocks) /\ SizeOf(l) \in Nat
      /\ HeadOf(l) = First(c) /\ TailOf(l) = Final(c) /\ SizeOf(l) = Len(c)
  BY <1>c, <1>1, Ready
<1>3. PICK r \in Call :
        /\ r = Load(op, l)
        /\ r.op = op /\ r.list = l /\ r.head = HeadOf(l)
        /\ r.tail = TailOf(l) /\ r.size = SizeOf(l) /\ r.prev = NULL /\ r.succ = NULL
  BY <1>1, Loaded DEF Ops
<1>m. PICK m : m = [r EXCEPT !.size = @ + 1, !.val = v]
  OBVIOUS
<1>4. /\ m \in Call
        /\ m.op = op /\ m.list = l /\ m.head = HeadOf(l) /\ m.tail = TailOf(l)
        /\ m.size = r.size + 1 /\ m.prev = NULL /\ m.succ = NULL /\ m.val = v
  BY <1>3, <1>m, OneMore
<1>5. Begin(p, "alloc", m)
  BY <1>1, <1>3, <1>m
<1>6. mem'[p] = m /\ pc'[p] = "alloc"
  BY <1>5 DEF Begin, Inv, TypeOK
<1>7. Working(p, c)'
  <2>1. Pushing(p, c)'
    BY <1>1, <1>2, <1>3, <1>4, <1>6, SameDisk DEF Pushing, Waiting, Intact
  <2> QED
    BY <1>4, <1>6, <2>1 DEF Working, Pushes, Pops
<1>8. Spare(p)' = {}
  BY <1>4, <1>6, SpareWillBe
<1> QED
  BY <1>c, <1>1, <1>4, <1>5, <1>7, <1>8, StartKeeps DEF Pushes

LEMMA PopTailKeeps ==
  ASSUME NEW ch, Inv(ch), NEW p \in Procs, NEW l \in lists, PopTail(p, l)
  PROVE  Keeps(p, l, ch, ch)
<1>a. PICK t : t = TailOf(l)
  OBVIOUS
<1>b. PICK new : new = PrevOf(t)
  OBVIOUS
<1>c. PICK r : r = Load("pop_tail", l)
  OBVIOUS
<1>d. PICK m : m = [r EXCEPT !.size = @ - 1, !.x = t, !.tail = new]
  OBVIOUS
<1>e. PICK n : n = [m EXCEPT !.head = NULL]
  OBVIOUS
<1>f. PICK c : c = ch[l]
  OBVIOUS
<1>1. /\ Exclusive(l) /\ SizeOf(l) # 0
      /\ \/ new # NULL /\ Begin(p, "unlink", m)
         \/ new = NULL /\ Begin(p, "free", n)
      /\ UNCHANGED <<disk, live, lists, linked, damaged>>
  BY <1>a, <1>b, <1>c, <1>d, <1>e DEF PopTail, history
<1>2. /\ Intact(l, c) /\ c \in Seq(Blocks) /\ l \in Blocks
      /\ HeadOf(l) = First(c) /\ t = Final(c) /\ SizeOf(l) = Len(c)
      /\ Len(c) # 0 /\ c # <<>>
  BY <1>a, <1>f, <1>1, Ready, Members
<1>3. t = c[Len(c)] /\ t \in Blocks /\ t # NULL /\ HeadOf(l) = c[1]
  BY <1>2, Members, ConstAssumption DEF First, Final
<1>4. \/ Len(c) = 1 /\ new = NULL
      \/ Len(c) >= 2 /\ new = c[Len(c) - 1] /\ new \in Blocks /\ new # NULL
  <2>1. CASE Len(c) = 1
    BY <1>b, <1>2, <1>3, <2>1 DEF Intact, Whole, Starts, PrevOf
  <2>2. CASE Len(c) # 1
    <3>1. Len(c) >= 2 /\ Len(c) \in 2 .. Len(c) /\ Len(c) - 1 \in 1 .. Len(c)
      BY <1>2, <2>2
    <3>2. disk[c[Len(c)]].first = c[Len(c) - 1]
      BY <1>2, <3>1 DEF Intact, Whole, Backward
    <3> QED
      BY <1>b, <1>2, <1>3, <3>1, <3>2, Members, ConstAssumption DEF PrevOf
  <2> QED
    BY <2>1, <2>2
<1>5. /\ m \in Call /\ m.op = "pop_tail" /\ m.list = l /\ m.head = HeadOf(l)
      /\ m.tail = new /\ m.size = SizeOf(l) - 1 /\ m.x = t
  <2>1. t \in Loc /\ new \in Loc /\ "pop_tail" \in Ops
    BY <1>3, <1>4 DEF Loc, Ops, Pops
  <2>2. /\ r \in Call /\ r.op = "pop_tail" /\ r.list = l /\ r.head = HeadOf(l)
        /\ r.size = SizeOf(l) /\ r.size # 0
    BY <1>c, <1>1, <2>1, Loaded
  <2>3. r.size - 1 \in Nat
    BY <2>2 DEF Call
  <2>4. /\ m \in Call /\ m.op = r.op /\ m.list = r.list /\ m.head = r.head
        /\ m.tail = new /\ m.size = r.size - 1 /\ m.x = t
    BY <1>d, <2>1, <2>2, <2>3 DEF Call
  <2> QED
    BY <2>2, <2>4
<1>6. /\ n \in Call /\ n.op = "pop_tail" /\ n.list = l /\ n.head = NULL
      /\ n.tail = new /\ n.size = SizeOf(l) - 1 /\ n.x = t
  BY <1>e, <1>5, NoEnd
<1>7. CASE new # NULL /\ Begin(p, "unlink", m)
  <2>1. mem'[p] = m /\ pc'[p] = "unlink"
    BY <1>7 DEF Begin, Inv, TypeOK
  <2>2. Len(c) >= 2
    BY <1>4, <1>7
  <2>3. Intact(l, c)'
    BY <1>1, <1>2, SameDisk
  <2>4. Popping(p, c)'
    BY <1>2, <1>3, <1>4, <1>5, <2>1, <2>2, <2>3 DEF Popping, Lone
  <2>5. Working(p, c)' /\ Spare(p)' = {}
    BY <1>5, <2>1, <2>4, SpareWillBe DEF Working, Pushes, Pops
  <2> QED
    BY <1>1, <1>5, <1>7, <1>f, <2>5, StartKeeps
<1>8. CASE new = NULL /\ Begin(p, "free", n)
  <2>1. mem'[p] = n /\ pc'[p] = "free"
    BY <1>8 DEF Begin, Inv, TypeOK
  <2>2. Len(c) = 1
    BY <1>4, <1>8
  <2>3. Intact(l, c)'
    BY <1>1, <1>2, SameDisk
  <2>4. Popping(p, c)'
    BY <1>2, <1>3, <1>6, <1>8, <2>1, <2>2, <2>3 DEF Popping, Lone
  <2>5. Working(p, c)' /\ Spare(p)' = {}
    BY <1>6, <1>8, <2>1, <2>4, SpareWillBe DEF Working, Pushes, Pops
  <2> QED
    BY <1>1, <1>6, <1>8, <1>f, <2>5, StartKeeps
<1> QED
  BY <1>1, <1>7, <1>8
LEMMA PopHeadKeeps ==
  ASSUME NEW ch, Inv(ch), NEW p \in Procs, NEW l \in lists, PopHead(p, l)
  PROVE  Keeps(p, l, ch, ch)
<1>a. PICK t : t = HeadOf(l)
  OBVIOUS
<1>b. PICK new : new = SuccOf(t)
  OBVIOUS
<1>c. PICK r : r = Load("pop_head", l)
  OBVIOUS
<1>d. PICK m : m = [r EXCEPT !.size = @ - 1, !.x = t, !.head = new]
  OBVIOUS
<1>e. PICK n : n = [m EXCEPT !.tail = NULL]
  OBVIOUS
<1>f. PICK c : c = ch[l]
  OBVIOUS
<1>1. /\ Exclusive(l) /\ SizeOf(l) # 0
      /\ \/ new # NULL /\ Begin(p, "unlink", m)
         \/ new = NULL /\ Begin(p, "free", n)
      /\ UNCHANGED <<disk, live, lists, linked, damaged>>
  BY <1>a, <1>b, <1>c, <1>d, <1>e DEF PopHead, history
<1>2. /\ Intact(l, c) /\ c \in Seq(Blocks) /\ l \in Blocks
      /\ TailOf(l) = Final(c) /\ t = First(c) /\ SizeOf(l) = Len(c)
      /\ Len(c) # 0 /\ c # <<>>
  BY <1>a, <1>f, <1>1, Ready, Members
<1>3. t = c[1] /\ t \in Blocks /\ t # NULL /\ TailOf(l) = c[Len(c)]
  BY <1>2, Members, ConstAssumption DEF First, Final
<1>4. \/ Len(c) = 1 /\ new = NULL
      \/ Len(c) >= 2 /\ new = c[2] /\ new \in Blocks /\ new # NULL
  <2>1. CASE Len(c) = 1
    BY <1>b, <1>2, <1>3, <2>1 DEF Intact, Whole, Ends, SuccOf
  <2>2. CASE Len(c) # 1
    <3>1. Len(c) >= 2 /\ 1 \in 1 .. Len(c) - 1 /\ 2 \in 1 .. Len(c)
      BY <1>2, <2>2
    <3>2. disk[c[1]].second = c[2]
      BY <1>2, <3>1 DEF Intact, Whole, Forward
    <3> QED
      BY <1>b, <1>2, <1>3, <3>1, <3>2, Members, ConstAssumption DEF SuccOf
  <2> QED
    BY <2>1, <2>2
<1>5. /\ m \in Call /\ m.op = "pop_head" /\ m.list = l /\ m.tail = TailOf(l)
      /\ m.head = new /\ m.size = SizeOf(l) - 1 /\ m.x = t
  <2>1. t \in Loc /\ new \in Loc /\ "pop_head" \in Ops
    BY <1>3, <1>4 DEF Loc, Ops, Pops
  <2>2. /\ r \in Call /\ r.op = "pop_head" /\ r.list = l /\ r.tail = TailOf(l)
        /\ r.size = SizeOf(l) /\ r.size # 0
    BY <1>c, <1>1, <2>1, Loaded
  <2>3. r.size - 1 \in Nat
    BY <2>2 DEF Call
  <2>4. /\ m \in Call /\ m.op = r.op /\ m.list = r.list /\ m.tail = r.tail
        /\ m.head = new /\ m.size = r.size - 1 /\ m.x = t
    BY <1>d, <2>1, <2>2, <2>3 DEF Call
  <2> QED
    BY <2>2, <2>4
<1>6. /\ n \in Call /\ n.op = "pop_head" /\ n.list = l /\ n.tail = NULL
      /\ n.head = new /\ n.size = SizeOf(l) - 1 /\ n.x = t
  BY <1>e, <1>5, NoEnd
<1>7. CASE new # NULL /\ Begin(p, "unlink", m)
  <2>1. mem'[p] = m /\ pc'[p] = "unlink"
    BY <1>7 DEF Begin, Inv, TypeOK
  <2>2. Len(c) >= 2
    BY <1>4, <1>7
  <2>3. Intact(l, c)'
    BY <1>1, <1>2, SameDisk
  <2>4. Popping(p, c)'
    BY <1>2, <1>3, <1>4, <1>5, <2>1, <2>2, <2>3 DEF Popping, Lone
  <2>5. Working(p, c)' /\ Spare(p)' = {}
    BY <1>5, <2>1, <2>4, SpareWillBe DEF Working, Pushes, Pops
  <2> QED
    BY <1>1, <1>5, <1>7, <1>f, <2>5, StartKeeps
<1>8. CASE new = NULL /\ Begin(p, "free", n)
  <2>1. mem'[p] = n /\ pc'[p] = "free"
    BY <1>8 DEF Begin, Inv, TypeOK
  <2>2. Len(c) = 1
    BY <1>4, <1>8
  <2>3. Intact(l, c)'
    BY <1>1, <1>2, SameDisk
  <2>4. Popping(p, c)'
    BY <1>2, <1>3, <1>6, <1>8, <2>1, <2>2, <2>3 DEF Popping, Lone
  <2>5. Working(p, c)' /\ Spare(p)' = {}
    BY <1>6, <1>8, <2>1, <2>4, SpareWillBe DEF Working, Pushes, Pops
  <2> QED
    BY <1>1, <1>6, <1>8, <1>f, <2>5, StartKeeps
<1> QED
  BY <1>1, <1>7, <1>8

\* Every set of indices has a smallest.
LEMMA SmallestIndex ==
  ASSUME NEW T \in SUBSET Nat, T # {}
  PROVE  \E i \in T : \A j \in T : ~ (j < i)
<1> DEFINE R == {p \in Nat \X Nat : p[1] < p[2]}
<1>1. R = OpToRel(<, Nat)
  BY DEF OpToRel
<1>2. IsWellFoundedOn(R, Nat)
  BY <1>1, NatLessThanWellFounded
<1>3. PICK i \in T : \A j \in T : ~ (<<j, i>> \in R)
  BY <1>2, WFMin
<1> QED
  BY <1>3

\* A walk of i steps from the head ends at the element with the index i.
LEMMA WalkIs ==
  ASSUME NEW c \in Seq(Blocks), Forward(c), NEW i \in Nat, i < Len(c)
  PROVE  Walk(First(c), i) = c[i + 1]
<1> DEFINE f == CHOOSE f : f = [n \in 0 .. i |-> IF n = 0 THEN First(c) ELSE SuccOf(f[n - 1])]
           g == [n \in 0 .. i |-> c[n + 1]]
<1>1. Walk(First(c), i) = f[i]
  BY DEF Walk
<1>2. g = [n \in 0 .. i |-> IF n = 0 THEN First(c) ELSE SuccOf(g[n - 1])]
  <2>1. c # <<>> /\ Len(c) \in Nat
    BY Members
  <2>2. ASSUME NEW n \in 0 .. i, n # 0 PROVE c[n + 1] = SuccOf(g[n - 1])
    <3>1. n - 1 \in 0 .. i /\ n \in 1 .. Len(c) - 1 /\ n - 1 + 1 = n /\ n \in 1 .. Len(c)
      BY <2>1, <2>2
    <3>2. g[n - 1] = c[n] /\ c[n] # NULL
      BY <3>1, Members, ConstAssumption
    <3>3. disk[c[n]].second = c[n + 1]
      BY <3>1 DEF Forward
    <3> QED
      BY <3>2, <3>3 DEF SuccOf
  <2>3. c[0 + 1] = First(c)
    BY <2>1 DEF First
  <2> HIDE DEF f
  <2> QED
    BY <2>2, <2>3
<1>3. f = [n \in 0 .. i |-> IF n = 0 THEN First(c) ELSE SuccOf(f[n - 1])]
  <2> HIDE DEF g
  <2> QED
    BY <1>2
<1>4. f[i] = g[i]
  <2> DEFINE wrong == {n \in 0 .. i : f[n] # g[n]}
  <2> HIDE DEF f, g
  <2>1. ASSUME wrong # {} PROVE FALSE
    <3>0. wrong \in SUBSET Nat /\ wrong # {}
      BY <2>1
    <3>1. PICK n \in wrong : \A k \in wrong : ~ (k < n)
      <4> HIDE DEF wrong
      <4> QED
        BY <3>0, SmallestIndex
    <3>2. n \in 0 .. i /\ f[n] # g[n]
      OBVIOUS
    <3>3. n # 0
      BY <1>2, <1>3, <3>2
    <3>4. n - 1 \in 0 .. i /\ n - 1 < n
      BY <3>2, <3>3
    <3>5. f[n - 1] = g[n - 1]
      BY <3>1, <3>4
    <3> QED
      BY <1>2, <1>3, <3>2, <3>3, <3>5
  <2>2. i \in 0 .. i
    OBVIOUS
  <2> QED
    BY <2>1, <2>2
<1>5. g[i] = c[i + 1]
  OBVIOUS
<1> QED
  BY <1>1, <1>4, <1>5

LEMMA UpdateKeeps ==
  ASSUME NEW ch, Inv(ch), NEW p \in Procs, NEW l \in lists, NEW i \in 0 .. SizeOf(l),
         NEW v \in Values, Update(p, l, i, v)
  PROVE  Keeps(p, l, ch, ch)
<1>c. PICK c : c = ch[l]
  OBVIOUS
<1>1. /\ Exclusive(l) /\ i < SizeOf(l)
      /\ Begin(p, "set", [Load("update", l) EXCEPT !.x = Walk(HeadOf(l), i), !.val = v,
                                                   !.index = i])
      /\ UNCHANGED <<disk, live, lists, linked, damaged>>
  BY DEF Update, history
<1>2. /\ Intact(l, c) /\ c \in Seq(Blocks) /\ SizeOf(l) \in Nat
      /\ HeadOf(l) = First(c) /\ TailOf(l) = Final(c) /\ SizeOf(l) = Len(c)
  BY <1>c, <1>1, Ready
<1>3. i \in Nat /\ i < Len(c)
  BY <1>1, <1>2
<1>4. Walk(HeadOf(l), i) = c[i + 1] /\ c[i + 1] \in Blocks
  <2>1. i + 1 \in 1 .. Len(c)
    BY <1>2, <1>3
  <2> QED
    BY <1>2, <1>3, <2>1, WalkIs, Members DEF Intact, Whole
<1>5. PICK b : b = c[i + 1]
  OBVIOUS
<1>6. PICK r \in Call :
        /\ r = Load("update", l)
        /\ r.op = "update" /\ r.list = l /\ r.head = HeadOf(l)
        /\ r.tail = TailOf(l) /\ r.size = SizeOf(l)
  BY <1>1, Loaded DEF Ops
<1>m. PICK m : m = [r EXCEPT !.x = b, !.val = v, !.index = i]
  OBVIOUS
<1>7. /\ m \in Call
      /\ m.op = "update" /\ m.list = l /\ m.head = HeadOf(l) /\ m.tail = TailOf(l)
      /\ m.size = SizeOf(l) /\ m.x = b /\ m.val = v /\ m.index = i
  <2>1. b \in Loc /\ v \in Values \cup {NULL}
    BY <1>4, <1>5 DEF Loc
  <2> QED
    BY <1>3, <1>6, <1>m, <2>1 DEF Call
<1>8. Begin(p, "set", m)
  BY <1>1, <1>4, <1>5, <1>6, <1>m
<1>9. mem'[p] = m /\ pc'[p] = "set"
  BY <1>8 DEF Begin, Inv, TypeOK
<1>10. Working(p, c)'
  <2>1. Setting(p, c)'
    BY <1>1, <1>2, <1>3, <1>5, <1>7, <1>9, SameDisk DEF Setting, Copied
  <2> QED
    BY <1>7, <1>9, <2>1 DEF Working, Pushes, Pops
<1>11. Spare(p)' = {}
  BY <1>7, <1>9, SpareWillBe
<1> QED
  BY <1>c, <1>1, <1>7, <1>8, <1>10, <1>11, StartKeeps

LEMMA DropKeeps ==
  ASSUME NEW ch, Inv(ch), NEW p \in Procs, NEW l \in lists, Drop(p, "release", l)
  PROVE  Keeps(p, l, ch, ch)
<1>c. PICK c : c = ch[l]
  OBVIOUS
<1>1. /\ Exclusive(l)
      /\ Begin(p, "drop", [Load("release", l) EXCEPT !.x = HeadOf(l)])
      /\ UNCHANGED <<disk, live, lists, linked, damaged>>
  BY DEF Drop, history
<1>2. /\ Intact(l, c) /\ c \in Seq(Blocks) /\ HeadOf(l) = First(c) /\ HeadOf(l) \in Loc
  BY <1>c, <1>1, Ready
<1>3. PICK r \in Call : r = Load("release", l) /\ r.op = "release" /\ r.list = l
  BY <1>1, Loaded DEF Ops, Drops
<1>m. PICK m : m = [r EXCEPT !.x = HeadOf(l)]
  OBVIOUS
<1>4. m \in Call /\ m.op = "release" /\ m.list = l /\ m.x = HeadOf(l)
  BY <1>2, <1>3, <1>m DEF Call
<1>5. Begin(p, "drop", m)
  BY <1>1, <1>3, <1>m
<1>6. mem'[p] = m /\ pc'[p] = "drop"
  BY <1>5 DEF Begin, Inv, TypeOK
<1>7. Working(p, c)'
  <2>1. Dropping(p, c)'
    BY <1>1, <1>2, <1>4, <1>6, SameDisk DEF Dropping, Intact, Whole
  <2> QED
    BY <1>4, <1>6, <2>1 DEF Working, Pushes, Pops
<1>8. Spare(p)' = {}
  BY <1>4, <1>6, SpareWillBe
<1> QED
  BY <1>c, <1>1, <1>4, <1>5, <1>7, <1>8, StartKeeps
-----------------------------------------------------------------------------
(***************************************************************************)
(* The calls go on.                                                        *)
(***************************************************************************)
LEMMA MidCall ==
  ASSUME NEW ch, Inv(ch), NEW p \in Procs, pc[p] # "idle", mem[p].op # "create",
         NEW l, l = mem[p].list
  PROVE  /\ l \in Sound /\ l \in lists /\ l \in Blocks /\ l \in live
         /\ l \notin linked /\ l \notin damaged
         /\ ch[l] \in Seq(Blocks) /\ Working(p, ch[l])
         /\ Elements(ch[l]) \subseteq live /\ l \notin Elements(ch[l]) /\ Distinct(ch[l])
         /\ Spare(p) \subseteq live /\ Spare(p) \cap (Elements(ch[l]) \cup {l}) = {}
         /\ \A q \in Busy \ {p} : mem[q].list # l
         /\ TypeOK /\ mem[p] \in Call /\ live \subseteq Blocks /\ ch \in [lists -> Seq(Blocks)]
<1>1. l \in Sound /\ Working(p, ch[l])
  BY DEF Inv, Job
<1>2. l \in lists /\ l \notin linked /\ l \notin damaged
  BY <1>1 DEF Sound
<1>3. p \in Busy
  BY DEF Busy
<1>4. TypeOK /\ mem[p] \in Call /\ live \subseteq Blocks /\ ch \in [lists -> Seq(Blocks)]
  BY DEF Inv, TypeOK
<1> QED
  BY <1>1, <1>2, <1>3, <1>4 DEF Inv, Apart, Body, OneEach

\* What is to show of a step inside a call, but the one that ends it: it turns
\* the chain c of its list l, and what it holds besides, into c2.
Turns(p, l, c, c2, m, label) ==
  LET old == Elements(c) \cup {l} \cup Spare(p)
      new == Elements(c2) \cup {l} \cup Spare(p)'
  IN /\ mem' = [mem EXCEPT ![p] = m] /\ m \in Call /\ m.list = l /\ m.op # "create"
     /\ pc' = [pc EXCEPT ![p] = label]
     /\ label \in {"alloc", "link", "write", "unlink", "free", "set", "drop", "save"}
     /\ UNCHANGED <<lists, linked, damaged>>
     /\ disk' \in [Blocks -> Block]
     /\ \A b \in Blocks : disk'[b] # disk[b] => b \in Elements(c) \cup Spare(p)
     /\ live' \subseteq Blocks /\ live \ old \subseteq live'
     /\ live' \subseteq live \cup new /\ old \cap live' \subseteq new
     /\ new \subseteq live' /\ \A b \in new : b \in old \/ b \notin live
     /\ c2 \in Seq(Blocks) /\ Distinct(c2) /\ l \notin Elements(c2)
     /\ Spare(p)' \cap (Elements(c2) \cup {l}) = {}
     /\ Working(p, c2)'

LEMMA WorkKeeps ==
  ASSUME NEW ch, Inv(ch), NEW p \in Procs, pc[p] # "idle", mem[p].op # "create",
         NEW l, l = mem[p].list, NEW c, c = ch[l],
         NEW c2, NEW m, NEW label, Turns(p, l, c, c2, m, label)
  PROVE  Keeps(p, l, ch, [ch EXCEPT ![l] = c2])
<1>a. PICK old : old = Elements(c) \cup {l} \cup Spare(p)
  OBVIOUS
<1>b. PICK new : new = Elements(c2) \cup {l} \cup Spare(p)'
  OBVIOUS
<1>t. /\ mem' = [mem EXCEPT ![p] = m] /\ m \in Call /\ m.list = l /\ m.op # "create"
      /\ pc' = [pc EXCEPT ![p] = label]
      /\ label \in {"alloc", "link", "write", "unlink", "free", "set", "drop", "save"}
      /\ UNCHANGED <<lists, linked, damaged>>
      /\ disk' \in [Blocks -> Block]
      /\ \A b \in Blocks : disk'[b] # disk[b] => b \in Elements(c) \cup Spare(p)
      /\ live' \subseteq Blocks /\ live \ old \subseteq live'
      /\ live' \subseteq live \cup new /\ old \cap live' \subseteq new
      /\ new \subseteq live' /\ \A b \in new : b \in old \/ b \notin live
      /\ c2 \in Seq(Blocks) /\ Distinct(c2) /\ l \notin Elements(c2)
      /\ Spare(p)' \cap (Elements(c2) \cup {l}) = {}
      /\ Working(p, c2)'
  BY <1>a, <1>b, Zenon DEF Turns
<1>1. /\ l \in Sound /\ l \in lists /\ l \notin linked /\ l \notin damaged
      /\ TypeOK /\ ch \in [lists -> Seq(Blocks)]
      /\ \A q \in Busy \ {p} : mem[q].list # l
  BY MidCall
<1>2. /\ mem'[p] = m /\ pc'[p] = label
      /\ \A q \in Procs \ {p} : mem'[q] = mem[q] /\ pc'[q] = pc[q]
  BY <1>1, <1>t DEF TypeOK
<1>3. TypeOK'
  BY <1>1, <1>t DEF TypeOK
<1>4. PICK ch2 : ch2 = [ch EXCEPT ![l] = c2]
  OBVIOUS
<1>5. ch2 \in [lists' -> Seq(Blocks)] /\ ch2[l] = c2 /\ \A k \in lists \ {l} : ch2[k] = ch[k]
  BY <1>1, <1>4, <1>t
<1>6. Mine(p, l, ch) = old /\ Mine(p, l, ch2)' = new
  BY <1>1, <1>5, <1>a, <1>b, <1>t DEF Mine, Body
<1>7. Local(p, l, ch, ch2)
  BY <1>1, <1>2, <1>5, <1>6, <1>a, <1>t DEF Local
<1>8. Handed(p, l, ch, ch2)
  BY <1>1, <1>5, <1>6, <1>a, <1>b, <1>t DEF Handed, Body
<1>9. Job(p, ch2)'
  BY <1>1, <1>2, <1>5, <1>t DEF Job, Sound
<1>10. Rest(l, ch2)'
  BY <1>1, <1>2, <1>t DEF Rest, Busy
<1>11. Inv(ch2)'
  BY <1>1, <1>3, <1>5, <1>7, <1>8, <1>9, <1>10, <1>t, Stepping
<1>12. Full(ch) => Full(ch2)'
  BY <1>6, <1>7, <1>8, <1>t, Ownership
<1> QED
  BY <1>4, <1>7, <1>11, <1>12 DEF Keeps

\* Which call a write belongs to.
LEMMA WhoWrites ==
  ASSUME NEW ch, Inv(ch), NEW p \in Procs
  PROVE  /\ pc[p] \in {"alloc", "link", "write"} => mem[p].op \in Pushes
         /\ pc[p] \in {"unlink", "free"} => mem[p].op \in Pops
         /\ pc[p] = "set" => mem[p].op = "update"
         /\ pc[p] = "drop" => mem[p].op = "release"
         /\ mem[p].op \in Pushes \cup Pops \cup {"update", "release"} => mem[p].op # "create"
         /\ pc[p] = "save" => mem[p].op \in Pushes \cup Pops \cup {"create", "update"}
  BY DEF Inv, Job, Creating, Working, Pushing, Popping, Setting, Dropping, Pushes, Pops

LEMMA PushAllocKeeps ==
  ASSUME NEW ch, Inv(ch), NEW p \in Procs, PushAlloc(p),
         NEW l, l = mem[p].list, NEW c, c = ch[l]
  PROVE  Keeps(p, l, ch, [ch EXCEPT ![l] = c])
<1>1. pc[p] = "alloc" /\ mem[p].op \in Pushes /\ mem[p].op # "create" /\ pc[p] # "idle"
  BY WhoWrites DEF PushAlloc, Goto
<1>2. /\ c \in Seq(Blocks) /\ Working(p, c) /\ mem[p] \in Call /\ live \subseteq Blocks
      /\ Elements(c) \subseteq live /\ l \in live /\ l \notin Elements(c) /\ Distinct(c)
      /\ l \in Blocks /\ TypeOK
  BY <1>1, MidCall
<1>3. Pushing(p, c) /\ Waiting(p, c)
  BY <1>1, <1>2 DEF Working, Pushing
<1>4. mem[p].head = NULL /\ mem[p].tail = NULL <=> c = <<>>
  BY <1>2, <1>3, Members DEF Waiting
<1>5. PICK b \in Blocks \ live :
        /\ live' = live \cup {b}
        /\ mem' = [mem EXCEPT ![p] =
                     IF mem[p].head = NULL /\ mem[p].tail = NULL
                     THEN [mem[p] EXCEPT !.x = b, !.head = b, !.tail = b]
                     ELSE [mem[p] EXCEPT !.x = b]]
  BY DEF PushAlloc
<1>6. /\ UNCHANGED <<disk, lists, linked, damaged>>
      /\ pc' = [pc EXCEPT ![p] = IF mem[p].head = NULL /\ mem[p].tail = NULL
                                 THEN "write" ELSE "link"]
  BY DEF PushAlloc, Goto, history
<1>m. PICK m : m = mem'[p]
  OBVIOUS
<1>7. PICK label : label = pc'[p]
  OBVIOUS
<1>8. /\ mem' = [mem EXCEPT ![p] = m] /\ pc' = [pc EXCEPT ![p] = label]
      /\ label = (IF c = <<>> THEN "write" ELSE "link")
      /\ m = IF c = <<>> THEN [mem[p] EXCEPT !.x = b, !.head = b, !.tail = b]
                         ELSE [mem[p] EXCEPT !.x = b]
  BY <1>2, <1>4, <1>5, <1>6, <1>7, <1>m DEF TypeOK
<1>9. /\ m \in Call /\ m.op = mem[p].op /\ m.list = l /\ m.size = mem[p].size
      /\ m.val = mem[p].val /\ m.x = b /\ m.prev = mem[p].prev /\ m.succ = mem[p].succ
      /\ m.head = (IF c = <<>> THEN b ELSE mem[p].head)
      /\ m.tail = (IF c = <<>> THEN b ELSE mem[p].tail)
  <2>1. b \in Loc
    BY DEF Loc
  <2>2. CASE c = <<>>
    BY <1>2, <1>8, <2>1, <2>2 DEF Call
  <2>3. CASE c # <<>>
    BY <1>2, <1>8, <2>1, <2>3 DEF Call
  <2> QED
    BY <2>2, <2>3
<1>10. Whole(c)' /\ (Described(l, c)' <=> Described(l, c))
  BY <1>2, <1>3, <1>6, SameDisk DEF Waiting
<1>11. Pushing(p, c)'
  <2>1. CASE c = <<>>
    <3>1. Grown(p, c)'
      BY <1>m, <1>3, <1>7, <1>8, <1>9, <1>10, <2>1
         DEF Grown, Waiting, Whole, Starts, Ends, First, Final
    <3> QED
      BY <1>m, <1>3, <1>7, <1>8, <1>9, <1>10, <2>1, <3>1 DEF Pushing
  <2>2. CASE c # <<>>
    <3>1. Waiting(p, c)'
      BY <1>m, <1>3, <1>7, <1>8, <1>9, <1>10, <2>2 DEF Waiting
    <3> QED
      BY <1>m, <1>3, <1>7, <1>8, <1>9, <1>10, <2>2, <3>1 DEF Pushing
  <2> QED
    BY <2>1, <2>2
<1>12. Working(p, c)'
  BY <1>m, <1>1, <1>9, <1>11 DEF Working, Pushes, Pops
<1>13. Spare(p) = {} /\ Spare(p)' = {b}
  BY <1>m, <1>1, <1>7, <1>8, <1>9, SpareIs, SpareWillBe
<1>14. b \notin live /\ b \in Blocks /\ disk' \in [Blocks -> Block]
  BY <1>2, <1>6 DEF TypeOK
<1>15. PICK old : old = Elements(c) \cup {l} \cup Spare(p)
  OBVIOUS
<1>16. PICK new : new = Elements(c) \cup {l} \cup Spare(p)'
  OBVIOUS
<1>17. /\ new \subseteq live' /\ \A a \in new : a \in old \/ a \notin live
       /\ live \ old \subseteq live' /\ live' \subseteq live \cup new
       /\ old \cap live' \subseteq new /\ live' \subseteq Blocks
       /\ Spare(p)' \cap (Elements(c) \cup {l}) = {}
  BY <1>2, <1>5, <1>13, <1>14, <1>15, <1>16
<1>18. \A a \in Blocks : disk'[a] # disk[a] => a \in Elements(c) \cup Spare(p)
  BY <1>6
<1>19. m.op # "create" /\ label \in {"write", "link"}
  BY <1>1, <1>8, <1>9
<1>20. Turns(p, l, c, c, m, label)
  BY <1>2, <1>6, <1>8, <1>9, <1>12, <1>14, <1>15, <1>16, <1>17, <1>18, <1>19 DEF Turns
<1> QED
  BY <1>1, <1>20, WorkKeeps
-----------------------------------------------------------------------------
(***************************************************************************)
(* A write to one field of an end of a chain.                              *)
(***************************************************************************)
LEMMA FieldIs ==
  ASSUME disk \in [Blocks -> Block], NEW a \in Blocks, NEW x \in Loc, NEW v \in Values
  PROVE  /\ disk' = [disk EXCEPT ![a].second = x] =>
              /\ disk' \in [Blocks -> Block]
              /\ \A b \in Blocks : b # a => disk'[b] = disk[b]
              /\ \A b \in Blocks : disk'[b].first = disk[b].first
              /\ disk'[a].second = x
         /\ disk' = [disk EXCEPT ![a].first = x] =>
              /\ disk' \in [Blocks -> Block]
              /\ \A b \in Blocks : b # a => disk'[b] = disk[b]
              /\ \A b \in Blocks : disk'[b].second = disk[b].second
              /\ disk'[a].first = x
         /\ disk' = [disk EXCEPT ![a].third = v] =>
              /\ disk' \in [Blocks -> Block]
              /\ \A b \in Blocks : b # a => disk'[b] = disk[b]
              /\ \A b \in Blocks : /\ disk'[b].first = disk[b].first
                                   /\ disk'[b].second = disk[b].second
  BY DEF Block

LEMMA TailWrite ==
  ASSUME NEW c \in Seq(Blocks), c # <<>>, Distinct(c), disk \in [Blocks -> Block],
         NEW x \in Loc, disk' = [disk EXCEPT ![Final(c)].second = x]
  PROVE  /\ disk' \in [Blocks -> Block]
         /\ \A b \in Blocks : disk'[b] # disk[b] => b \in Elements(c)
         /\ Forward(c) => Forward(c)'
         /\ Backward(c) => Backward(c)'
         /\ \A v : Starts(c, v) => Starts(c, v)'
         /\ Ends(c, x)'
<1> DEFINE a == Final(c)
<1>1. a = c[Len(c)] /\ a \in Blocks /\ Len(c) \in 1 .. Len(c)
  BY Members DEF Final
<1>2. /\ disk' \in [Blocks -> Block]
      /\ \A b \in Blocks : b # a => disk'[b] = disk[b]
      /\ \A b \in Blocks : disk'[b].first = disk[b].first
      /\ disk'[a].second = x
  BY <1>1, FieldIs, ConstAssumption
<1> HIDE DEF a
<1>3. \A i \in 1 .. Len(c) - 1 : c[i] \in Blocks /\ c[i] # a
  BY <1>1, Members DEF Distinct
<1>4. Forward(c) => Forward(c)'
  BY <1>2, <1>3 DEF Forward
<1>5. Backward(c) => Backward(c)'
  BY <1>2, Members DEF Backward
<1>6. \A v : Starts(c, v) => Starts(c, v)'
  BY <1>2, Members DEF Starts
<1>7. Ends(c, x)'
  BY <1>1, <1>2 DEF Ends
<1>8. \A b \in Blocks : disk'[b] # disk[b] => b \in Elements(c)
  BY <1>1, <1>2 DEF Elements
<1> QED
  BY <1>2, <1>4, <1>5, <1>6, <1>7, <1>8

LEMMA HeadWrite ==
  ASSUME NEW c \in Seq(Blocks), c # <<>>, Distinct(c), disk \in [Blocks -> Block],
         NEW x \in Loc, disk' = [disk EXCEPT ![First(c)].first = x]
  PROVE  /\ disk' \in [Blocks -> Block]
         /\ \A b \in Blocks : disk'[b] # disk[b] => b \in Elements(c)
         /\ Forward(c) => Forward(c)'
         /\ Backward(c) => Backward(c)'
         /\ \A v : Ends(c, v) => Ends(c, v)'
         /\ Starts(c, x)'
<1> DEFINE a == First(c)
<1>1. a = c[1] /\ a \in Blocks /\ 1 \in 1 .. Len(c)
  BY Members DEF First
<1>2. /\ disk' \in [Blocks -> Block]
      /\ \A b \in Blocks : b # a => disk'[b] = disk[b]
      /\ \A b \in Blocks : disk'[b].second = disk[b].second
      /\ disk'[a].first = x
  BY <1>1, FieldIs, ConstAssumption
<1> HIDE DEF a
<1>3. \A i \in 2 .. Len(c) : c[i] \in Blocks /\ c[i] # a
  BY <1>1, Members DEF Distinct
<1>4. Forward(c) => Forward(c)'
  BY <1>2, Members DEF Forward
<1>5. Backward(c) => Backward(c)'
  BY <1>2, <1>3 DEF Backward
<1>6. \A v : Ends(c, v) => Ends(c, v)'
  BY <1>2, Members DEF Ends
<1>7. Starts(c, x)'
  BY <1>1, <1>2 DEF Starts
<1>8. \A b \in Blocks : disk'[b] # disk[b] => b \in Elements(c)
  BY <1>1, <1>2 DEF Elements
<1> QED
  BY <1>2, <1>4, <1>5, <1>6, <1>7, <1>8

LEMMA PushLinkKeeps ==
  ASSUME NEW ch, Inv(ch), NEW p \in Procs, PushLink(p),
         NEW l, l = mem[p].list, NEW c, c = ch[l]
  PROVE  Keeps(p, l, ch, [ch EXCEPT ![l] = c])
<1>1. pc[p] = "link" /\ mem[p].op \in Pushes /\ mem[p].op # "create" /\ pc[p] # "idle"
  BY WhoWrites DEF PushLink, Goto
<1>2. /\ c \in Seq(Blocks) /\ Working(p, c) /\ mem[p] \in Call /\ live \subseteq Blocks
      /\ Elements(c) \subseteq live /\ l \in live /\ l \notin Elements(c) /\ Distinct(c)
      /\ Spare(p) \subseteq live /\ Spare(p) \cap (Elements(c) \cup {l}) = {}
      /\ l \in Blocks /\ TypeOK
  BY <1>1, MidCall
<1>3. /\ Pushing(p, c) /\ Waiting(p, c) /\ c # <<>> /\ mem[p].x \in Blocks
      /\ Whole(c) /\ Described(l, c)
  BY <1>1, <1>2 DEF Working, Pushing, Waiting
<1>4. /\ UNCHANGED <<live, lists, linked, damaged>> /\ pc' = [pc EXCEPT ![p] = "write"]
      /\ pc'[p] = "write"
  BY <1>2 DEF PushLink, Goto, history, TypeOK
<1>m. PICK m : m = mem'[p]
  OBVIOUS
<1>5. /\ mem' = [mem EXCEPT ![p] = m] /\ m \in Call /\ m.op = mem[p].op /\ m.list = l
      /\ m.size = mem[p].size /\ m.val = mem[p].val /\ m.x = mem[p].x
      /\ disk' \in [Blocks -> Block]
      /\ \A b \in Blocks : disk'[b] # disk[b] => b \in Elements(c)
      /\ Working(p, c)'
  <2>0. mem[p].x \in Loc /\ mem[p].head = First(c) /\ mem[p].tail = Final(c)
        /\ disk \in [Blocks -> Block]
        /\ mem[p].prev = NULL /\ mem[p].succ = NULL
    BY <1>2, <1>3 DEF Loc, Waiting, TypeOK
  <2>x. PICK x \in Loc : x = mem[p].x
    BY <2>0
  <2>w. Forward(c) /\ Backward(c) /\ Starts(c, NULL) /\ Ends(c, NULL)
    BY <1>3 DEF Whole
  <2>1. CASE mem[p].op = "push_tail"
    <3>1. /\ disk' = [disk EXCEPT ![Final(c)].second = x]
          /\ mem' = [mem EXCEPT ![p] = [mem[p] EXCEPT !.prev = mem[p].tail,
                                                     !.tail = mem[p].x]]
      BY <2>0, <2>1, <2>x DEF PushLink
    <3>2. /\ disk' \in [Blocks -> Block]
          /\ \A b \in Blocks : disk'[b] # disk[b] => b \in Elements(c)
          /\ Forward(c)' /\ Backward(c)' /\ Starts(c, NULL)' /\ Ends(c, x)'
      BY <1>2, <1>3, <2>0, <2>w, <3>1, TailWrite
    <3>3. /\ mem' = [mem EXCEPT ![p] = m]
          /\ m = [mem[p] EXCEPT !.prev = mem[p].tail, !.tail = mem[p].x]
      BY <1>2, <1>m, <3>1 DEF TypeOK
    <3>4. /\ m \in Call /\ m.op = mem[p].op /\ m.list = l
          /\ m.size = mem[p].size /\ m.val = mem[p].val /\ m.x = mem[p].x
          /\ m.head = First(c) /\ m.tail = m.x /\ m.prev = Final(c) /\ m.succ = NULL
      BY <1>2, <2>0, <3>3 DEF Call
    <3>5. Grown(p, c)'
      BY <1>m, <1>3, <1>4, <2>1, <2>x, <3>2, <3>4 DEF Grown
    <3>6. Described(l, c)'
      BY <1>2, <1>3, <3>2, SameHeader
    <3>7. Pushing(p, c)'
      BY <1>m, <1>3, <1>4, <3>4, <3>5, <3>6 DEF Pushing
    <3> QED
      BY <1>m, <1>1, <2>1, <3>2, <3>3, <3>4, <3>7 DEF Working, Pushes, Pops
  <2>2. CASE mem[p].op = "push_head"
    <3>1. /\ disk' = [disk EXCEPT ![First(c)].first = x]
          /\ mem' = [mem EXCEPT ![p] = [mem[p] EXCEPT !.succ = mem[p].head,
                                                     !.head = mem[p].x]]
      BY <2>0, <2>2, <2>x DEF PushLink
    <3>2. /\ disk' \in [Blocks -> Block]
          /\ \A b \in Blocks : disk'[b] # disk[b] => b \in Elements(c)
          /\ Forward(c)' /\ Backward(c)' /\ Starts(c, x)' /\ Ends(c, NULL)'
      BY <1>2, <1>3, <2>0, <2>w, <3>1, HeadWrite
    <3>3. /\ mem' = [mem EXCEPT ![p] = m]
          /\ m = [mem[p] EXCEPT !.succ = mem[p].head, !.head = mem[p].x]
      BY <1>2, <1>m, <3>1 DEF TypeOK
    <3>4. /\ m \in Call /\ m.op = mem[p].op /\ m.list = l
          /\ m.size = mem[p].size /\ m.val = mem[p].val /\ m.x = mem[p].x
          /\ m.head = m.x /\ m.tail = Final(c) /\ m.prev = NULL /\ m.succ = First(c)
      BY <1>2, <2>0, <3>3 DEF Call
    <3>5. Grown(p, c)'
      BY <1>m, <1>3, <1>4, <2>2, <2>x, <3>2, <3>4 DEF Grown
    <3>6. Described(l, c)'
      BY <1>2, <1>3, <3>2, SameHeader
    <3>7. Pushing(p, c)'
      BY <1>m, <1>3, <1>4, <3>4, <3>5, <3>6 DEF Pushing
    <3> QED
      BY <1>m, <1>1, <2>2, <3>2, <3>3, <3>4, <3>7 DEF Working, Pushes, Pops
  <2> QED
    BY <1>1, <2>1, <2>2 DEF Pushes
<1>6. Spare(p)' = Spare(p)
  BY <1>m, <1>1, <1>4, <1>5, SpareIs, SpareWillBe
<1>7. m.op # "create"
  BY <1>1, <1>5
<1>8. Turns(p, l, c, c, m, "write")
  BY <1>2, <1>4, <1>5, <1>6, <1>7 DEF Turns
<1> QED
  BY <1>1, <1>8, WorkKeeps

LEMMA PushWriteKeeps ==
  ASSUME NEW ch, Inv(ch), NEW p \in Procs, PushWrite(p),
         NEW l, l = mem[p].list, NEW c, c = ch[l]
  PROVE  Keeps(p, l, ch, [ch EXCEPT ![l] = c])
<1>1. pc[p] = "write" /\ mem[p].op \in Pushes /\ mem[p].op # "create" /\ pc[p] # "idle"
  BY WhoWrites DEF PushWrite, Goto
<1>2. /\ c \in Seq(Blocks) /\ Working(p, c) /\ mem[p] \in Call /\ live \subseteq Blocks
      /\ Elements(c) \subseteq live /\ l \in live /\ l \notin Elements(c) /\ Distinct(c)
      /\ Spare(p) \subseteq live /\ Spare(p) \cap (Elements(c) \cup {l}) = {}
      /\ l \in Blocks /\ TypeOK
  BY <1>1, MidCall
<1>m. PICK m : m = mem[p]
  OBVIOUS
<1>3. /\ Pushing(p, c) /\ Grown(p, c) /\ Described(l, c) /\ m.x \in Blocks
  BY <1>m, <1>1, <1>2 DEF Working, Pushing, Grown
<1>4. /\ UNCHANGED <<live, lists, linked, damaged, mem>> /\ pc' = [pc EXCEPT ![p] = "save"]
      /\ pc'[p] = "save" /\ mem' = [mem EXCEPT ![p] = m] /\ mem'[p] = m
      /\ m \in Call /\ m.op = mem[p].op /\ m.list = l
      /\ disk' = [disk EXCEPT ![m.x] = Node(m.prev, m.succ, m.val)]
  BY <1>m, <1>2 DEF PushWrite, Goto, history, TypeOK
<1>5. Spare(p) = {m.x} /\ Spare(p)' = {m.x}
  BY <1>m, <1>1, <1>4, SpareIs, SpareWillBe
<1>6. /\ disk' \in [Blocks -> Block] /\ disk'[m.x] = Node(m.prev, m.succ, m.val)
      /\ \A b \in Blocks : disk'[b] # disk[b] => b \in Spare(p)
  <2>1. Node(m.prev, m.succ, m.val) \in Block
    BY <1>m, <1>3, <1>4 DEF Node, Block, Call, Pushing
  <2> QED
    BY <1>2, <1>3, <1>4, <1>5, <2>1 DEF TypeOK
<1>7. /\ \A b \in Elements(c) : disk'[b] = disk[b]
      /\ disk'[l] = disk[l]
  BY <1>2, <1>6
<1>8. /\ Forward(c)' <=> Forward(c)
      /\ Backward(c)' <=> Backward(c)
      /\ \A v : Starts(c, v)' <=> Starts(c, v)
      /\ \A v : Ends(c, v)' <=> Ends(c, v)
      /\ Described(l, c)'
  BY <1>2, <1>3, <1>7, SameChain, SameHeader
<1>9. Grown(p, c)'
  BY <1>m, <1>1, <1>3, <1>4, <1>6, <1>8 DEF Grown
<1>10. Pushing(p, c)'
  BY <1>m, <1>3, <1>4, <1>8, <1>9 DEF Pushing
<1>11. Working(p, c)'
  BY <1>m, <1>1, <1>4, <1>10 DEF Working, Pushes, Pops
<1>12. m.op # "create"
  BY <1>1, <1>4
<1>13. Turns(p, l, c, c, m, "save")
  BY <1>2, <1>4, <1>5, <1>6, <1>11, <1>12 DEF Turns
<1> QED
  BY <1>1, <1>13, WorkKeeps
-----------------------------------------------------------------------------

LEMMA ShorterWhole ==
  ASSUME NEW c \in Seq(Blocks), c # <<>>, Whole(c)
  PROVE  LET d == Shorter(c) IN Forward(d) /\ Backward(d) /\ Starts(d, NULL)
<1> DEFINE d == Shorter(c)
<1>1. /\ Len(d) = Len(c) - 1 /\ Len(c) \in Nat /\ d \in Seq(Blocks)
      /\ \A i \in 1 .. Len(c) - 1 : d[i] = c[i]
  BY ShorterIs, Members
<1> HIDE DEF d
<1>2. Forward(d)
  BY <1>1 DEF Forward, Whole
<1>3. Backward(d)
  BY <1>1 DEF Backward, Whole
<1>4. Starts(d, NULL)
  <2>1. d # <<>> => d[1] = c[1]
    BY <1>1, Members
  <2> QED
    BY <2>1 DEF Starts, Whole
<1> QED
  BY <1>2, <1>3, <1>4 DEF d

LEMMA BeheadedWhole ==
  ASSUME NEW c \in Seq(Blocks), c # <<>>, Forward(c), Ends(c, NULL)
  PROVE  LET d == Beheaded(c)
         IN /\ Forward(d) /\ Ends(d, NULL)
            /\ Backward(c) => Backward(d)
            /\ disk[c[1]].second = First(d)
<1> DEFINE d == Beheaded(c)
<1>1. /\ Len(d) = Len(c) - 1 /\ Len(c) \in Nat /\ d \in Seq(Blocks)
      /\ \A i \in 1 .. Len(c) - 1 : d[i] = c[i + 1]
  BY BeheadedIs, Members
<1> HIDE DEF d
<1>2. Forward(d)
  <2>1. \A i \in 1 .. Len(d) - 1 : /\ i + 1 \in 1 .. Len(c) - 1
                                   /\ d[i] = c[i + 1] /\ d[i + 1] = c[(i + 1) + 1]
    BY <1>1
  <2> QED
    BY <2>1 DEF Forward
<1>3. Backward(c) => Backward(d)
  <2>1. \A i \in 2 .. Len(d) : /\ i + 1 \in 2 .. Len(c)
                               /\ d[i] = c[i + 1] /\ d[i - 1] = c[(i + 1) - 1]
    BY <1>1
  <2> QED
    BY <2>1 DEF Backward
<1>4. Ends(d, NULL)
  <2>1. d # <<>> => d[Len(d)] = c[Len(c)]
    BY <1>1, Members
  <2> QED
    BY <2>1 DEF Ends
<1>5. disk[c[1]].second = First(d)
  <2>1. CASE d = <<>>
    <3>1. Len(c) = 1
      BY <1>1, <2>1, Members
    <3> QED
      BY <2>1, <3>1 DEF Ends, First
  <2>2. CASE d # <<>>
    <3>1. 1 \in 1 .. Len(c) - 1 /\ First(d) = c[1 + 1]
      BY <1>1, <2>2, Members DEF First
    <3> QED
      BY <3>1 DEF Forward
  <2> QED
    BY <2>1, <2>2
<1> QED
  BY <1>2, <1>3, <1>4, <1>5 DEF d

\* The chain without the element that a pop removes.
Without(p, c) == IF mem[p].op = "pop_tail" THEN Shorter(c) ELSE Beheaded(c)

LEMMA WithoutIs ==
  ASSUME NEW p \in Procs, mem[p].op \in Pops, NEW c \in Seq(Blocks), c # <<>>,
         Distinct(c), NEW c2, c2 = Without(p, c)
  PROVE  /\ c2 \in Seq(Blocks) /\ Len(c2) = Len(c) - 1 /\ Distinct(c2)
         /\ \E b \in Elements(c) : /\ b \notin Elements(c2)
                                   /\ Elements(c) = Elements(c2) \cup {b}
                                   /\ mem[p].op = "pop_tail" => b = c[Len(c)]
                                   /\ mem[p].op = "pop_head" => b = c[1]
<1>1. CASE mem[p].op = "pop_tail"
  <2>1. c2 = Shorter(c)
    BY <1>1 DEF Without
  <2>2. c[Len(c)] \in Elements(c)
    BY Members DEF Elements
  <2> QED
    BY <1>1, <2>1, <2>2, ShorterIs
<1>2. CASE mem[p].op = "pop_head"
  <2>1. c2 = Beheaded(c)
    BY <1>2 DEF Without
  <2>2. c[1] \in Elements(c)
    BY Members DEF Elements
  <2> QED
    BY <1>2, <2>1, <2>2, BeheadedIs
<1> QED
  BY <1>1, <1>2 DEF Pops

LEMMA PopUnlinkKeeps ==
  ASSUME NEW ch, Inv(ch), NEW p \in Procs, PopUnlink(p),
         NEW l, l = mem[p].list, NEW c, c = ch[l], NEW d, d = Without(p, c)
  PROVE  Keeps(p, l, ch, [ch EXCEPT ![l] = d])
<1>m. PICK m : m = mem[p]
  OBVIOUS
<1>1. pc[p] = "unlink" /\ mem[p].op \in Pops /\ mem[p].op # "create" /\ pc[p] # "idle"
  BY WhoWrites DEF PopUnlink, Goto
<1>2. /\ c \in Seq(Blocks) /\ Working(p, c) /\ mem[p] \in Call /\ live \subseteq Blocks
      /\ Elements(c) \subseteq live /\ l \in live /\ l \notin Elements(c) /\ Distinct(c)
      /\ Spare(p) \subseteq live /\ Spare(p) \cap (Elements(c) \cup {l}) = {}
      /\ l \in Blocks /\ TypeOK /\ disk \in [Blocks -> Block]
  BY <1>1, MidCall DEF TypeOK
<1>3. /\ Whole(c) /\ Len(c) >= 2 /\ m.size = Len(c) - 1 /\ c # <<>> /\ m.x \in Blocks
      /\ m.op = "pop_tail" => m.x = c[Len(c)] /\ m.tail = c[Len(c) - 1] /\ m.head = c[1]
      /\ m.op = "pop_head" => m.x = c[1] /\ m.head = c[2] /\ m.tail = c[Len(c)]
  <2>1. Popping(p, c)
    BY <1>1, <1>2 DEF Working
  <2> QED
    BY <1>m, <1>1, <1>2, <2>1, Members DEF Popping, Intact
<1>4. /\ UNCHANGED <<live, lists, linked, damaged, mem>> /\ pc' = [pc EXCEPT ![p] = "free"]
      /\ pc'[p] = "free" /\ mem' = [mem EXCEPT ![p] = m] /\ mem'[p] = m
      /\ m \in Call /\ m.op = mem[p].op /\ m.list = l
  BY <1>m, <1>2 DEF PopUnlink, Goto, history, TypeOK
<1>5. /\ d \in Seq(Blocks) /\ Len(d) = Len(c) - 1 /\ Distinct(d) /\ d # <<>>
      /\ m.x \in Elements(c) /\ m.x \notin Elements(d)
      /\ Elements(c) = Elements(d) \cup {m.x}
  <2>0. c \in Seq(Blocks) /\ c # <<>> /\ Distinct(c) /\ mem[p].op \in Pops
    BY <1>1, <1>2, <1>3
  <2>1. PICK b \in Elements(c) :
          /\ d \in Seq(Blocks) /\ Len(d) = Len(c) - 1 /\ Distinct(d)
          /\ b \notin Elements(d) /\ Elements(c) = Elements(d) \cup {b}
          /\ mem[p].op = "pop_tail" => b = c[Len(c)]
          /\ mem[p].op = "pop_head" => b = c[1]
    BY <2>0, WithoutIs
  <2>2. m.x = b
    BY <1>m, <1>1, <1>3, <2>1 DEF Pops
  <2>3. d # <<>>
    BY <1>2, <1>3, <2>1, Members
  <2> QED
    BY <2>1, <2>2, <2>3
<1>6. /\ m.head = First(d) /\ m.tail = Final(d)
      /\ disk' \in [Blocks -> Block]
      /\ \A b \in Blocks : disk'[b] # disk[b] => b \in Elements(d)
      /\ Whole(d)'
  <2>0. NULL \in Loc /\ Len(c) \in Nat
    BY <1>2, Members DEF Loc
  <2>1. CASE mem[p].op = "pop_tail"
    <3>1. d = Shorter(c) /\ \A i \in 1 .. Len(c) - 1 : d[i] = c[i]
      BY <1>2, <1>3, <2>1, ShorterIs DEF Without
    <3>2. m.head = First(d) /\ m.tail = Final(d)
      BY <1>m, <1>3, <1>5, <2>0, <2>1, <3>1 DEF First, Final
    <3>3. Forward(d) /\ Backward(d) /\ Starts(d, NULL)
      BY <1>2, <1>3, <3>1, ShorterWhole
    <3>4. disk' = [disk EXCEPT ![Final(d)].second = NULL]
      BY <1>m, <2>1, <3>2 DEF PopUnlink
    <3>5. /\ disk' \in [Blocks -> Block]
          /\ \A b \in Blocks : disk'[b] # disk[b] => b \in Elements(d)
          /\ Forward(d)' /\ Backward(d)' /\ Starts(d, NULL)' /\ Ends(d, NULL)'
      BY <1>2, <1>5, <2>0, <3>3, <3>4, TailWrite
    <3> QED
      BY <3>2, <3>5 DEF Whole
  <2>2. CASE mem[p].op = "pop_head"
    <3>1. d = Beheaded(c) /\ \A i \in 1 .. Len(c) - 1 : d[i] = c[i + 1]
      BY <1>2, <1>3, <2>2, BeheadedIs DEF Without
    <3>2. m.head = First(d) /\ m.tail = Final(d)
      BY <1>m, <1>3, <1>5, <2>0, <2>2, <3>1 DEF First, Final
    <3>3. Forward(d) /\ Backward(d) /\ Ends(d, NULL)
      <4>1. Forward(c) /\ Backward(c) /\ Ends(c, NULL)
        BY <1>3 DEF Whole
      <4> QED
        BY <1>2, <1>3, <3>1, <4>1, BeheadedWhole
    <3>4. disk' = [disk EXCEPT ![First(d)].first = NULL]
      BY <1>m, <2>2, <3>2 DEF PopUnlink
    <3>5. /\ disk' \in [Blocks -> Block]
          /\ \A b \in Blocks : disk'[b] # disk[b] => b \in Elements(d)
          /\ Forward(d)' /\ Backward(d)' /\ Starts(d, NULL)' /\ Ends(d, NULL)'
      BY <1>2, <1>5, <2>0, <3>3, <3>4, HeadWrite
    <3> QED
      BY <3>2, <3>5 DEF Whole
  <2> QED
    BY <1>1, <2>1, <2>2 DEF Pops
<1>7. m.head # NULL
  BY <1>5, <1>6, Members
<1>8. Working(p, d)'
  <2>1. Popping(p, d)'
    BY <1>3, <1>4, <1>5, <1>6, <1>7 DEF Popping, Lone, Copied
  <2> QED
    BY <1>m, <1>1, <1>4, <2>1 DEF Working, Pushes, Pops
<1>9. Spare(p) = {} /\ Spare(p)' = {m.x}
  BY <1>m, <1>1, <1>4, <1>7, SpareIs, SpareWillBe
<1>10. m.op # "create"
  BY <1>1, <1>4
<1>11. /\ \A b \in Blocks : disk'[b] # disk[b] => b \in Elements(c)
       /\ Elements(c) \cup {l} = Elements(d) \cup {l} \cup {m.x}
       /\ l \notin Elements(d) /\ m.x \notin Elements(d) \cup {l}
       /\ Elements(c) \cup {l} \subseteq live /\ live' = live /\ live \subseteq Blocks
  BY <1>2, <1>4, <1>5, <1>6
<1>a. PICK old : old = Elements(c) \cup {l} \cup Spare(p)
  OBVIOUS
<1>b. PICK new : new = Elements(d) \cup {l} \cup Spare(p)'
  OBVIOUS
<1>12. /\ live' \subseteq Blocks /\ live \ old \subseteq live'
       /\ live' \subseteq live \cup new /\ old \cap live' \subseteq new
       /\ new \subseteq live' /\ \A b \in new : b \in old \/ b \notin live
       /\ Spare(p)' \cap (Elements(d) \cup {l}) = {}
       /\ \A b \in Blocks : disk'[b] # disk[b] => b \in Elements(c) \cup Spare(p)
  BY <1>9, <1>11, <1>a, <1>b
<1>13. Turns(p, l, c, d, m, "free")
  BY <1>4, <1>5, <1>6, <1>8, <1>10, <1>11, <1>12, <1>a, <1>b DEF Turns
<1> QED
  BY <1>1, <1>13, WorkKeeps

LEMMA PopFreeKeeps ==
  ASSUME NEW ch, Inv(ch), NEW p \in Procs, PopFree(p),
         NEW l, l = mem[p].list, NEW c, c = ch[l], NEW d, d = (IF Lone(p) THEN Without(p, c) ELSE c)
  PROVE  Keeps(p, l, ch, [ch EXCEPT ![l] = d])
<1>m. PICK m : m = mem[p]
  OBVIOUS
<1>1. pc[p] = "free" /\ mem[p].op \in Pops /\ mem[p].op # "create" /\ pc[p] # "idle"
  BY WhoWrites DEF PopFree, Goto
<1>2. /\ c \in Seq(Blocks) /\ Working(p, c) /\ mem[p] \in Call /\ live \subseteq Blocks
      /\ Elements(c) \subseteq live /\ l \in live /\ l \notin Elements(c) /\ Distinct(c)
      /\ Spare(p) \subseteq live /\ Spare(p) \cap (Elements(c) \cup {l}) = {}
      /\ l \in Blocks /\ TypeOK
  BY <1>1, MidCall
<1>3. Popping(p, c)
  BY <1>1, <1>2 DEF Working
<1>4. /\ UNCHANGED <<disk, lists, linked, damaged, mem>> /\ pc' = [pc EXCEPT ![p] = "save"]
      /\ pc'[p] = "save" /\ mem' = [mem EXCEPT ![p] = m] /\ mem'[p] = m
      /\ m \in Call /\ m.op = mem[p].op /\ m.list = l /\ live' = live \ {m.x}
      /\ disk' \in [Blocks -> Block]
  BY <1>m, <1>2 DEF PopFree, Goto, history, TypeOK
<1>5. m.op # "create" /\ Spare(p)' = {}
  BY <1>m, <1>1, <1>4, SpareWillBe, SpareIs DEF Pushes, Pops
<1>6. Turns(p, l, c, d, m, "save")
  <2>1. CASE Lone(p)
    <3>1. /\ Whole(c) /\ Len(c) = 1 /\ m.x = c[1] /\ c # <<>>
          /\ m.head = NULL /\ m.tail = NULL /\ m.size = 0
      <4>1. /\ Intact(m.list, c) /\ Len(c) = 1
            /\ m.x = c[1] /\ m.head = NULL /\ m.tail = NULL /\ m.size = 0
        BY <1>m, <1>3, <2>1 DEF Popping, Lone
      <4>2. Len(c) = 1 /\ c \in Seq(Blocks)
        BY <1>2, <4>1
      <4>3. c # <<>>
        <5> SUFFICES ASSUME c = <<>> PROVE Len(c) = 0
          BY <4>2
        <5> QED
          BY <4>2, Members
      <4> QED
        BY <4>1, <4>3 DEF Intact
    <3>2. Elements(c) = {m.x} /\ d = Without(p, c)
      BY <2>1, <3>1 DEF Elements
    <3>3. d = <<>>
      <4>1. d \in Seq(Blocks) /\ Len(d) = Len(c) - 1
        BY <1>1, <1>2, <3>1, <3>2, WithoutIs
      <4> QED
        BY <3>1, <4>1, Members
    <3>4. d \in Seq(Blocks) /\ Len(d) = 0 /\ Elements(d) = {} /\ Distinct(d)
      BY <3>3, EmptyIs
    <3>5. Whole(d)' /\ First(d) = NULL /\ Final(d) = NULL
      BY <3>3, <3>4 DEF Whole, Forward, Backward, Starts, Ends, First, Final
    <3>6. Popping(p, d)'
      BY <1>4, <3>1, <3>4, <3>5 DEF Popping, Lone, Copied
    <3>7. Working(p, d)'
      BY <1>m, <1>1, <1>4, <3>6 DEF Working, Pushes, Pops
    <3>8. Spare(p) = {}
      BY <1>1, <2>1, SpareIs DEF Lone
    <3> QED
      BY <1>2, <1>4, <1>5, <3>2, <3>4, <3>7, <3>8 DEF Turns
  <2>2. CASE ~Lone(p)
    <3>1. d = c
      BY <2>2
    <3>2. Whole(c) /\ Copied(p, c) /\ mem[p].head # NULL
      BY <1>1, <1>3, <2>2 DEF Popping, Lone
    <3>3. Whole(c)'
      BY <1>2, <1>4, <3>2, SameDisk
    <3>4. Popping(p, c)'
      BY <1>m, <1>4, <3>2, <3>3 DEF Popping, Lone, Copied
    <3>5. Working(p, c)'
      BY <1>m, <1>1, <1>4, <3>4 DEF Working, Pushes, Pops
    <3>6. Spare(p) = {m.x}
      BY <1>m, <1>1, <3>2, SpareIs
    <3> QED
      BY <1>2, <1>4, <1>5, <3>1, <3>5, <3>6 DEF Turns
  <2> QED
    BY <2>1, <2>2
<1> QED
  BY <1>1, <1>6, WorkKeeps

LEMMA UpdateSetKeeps ==
  ASSUME NEW ch, Inv(ch), NEW p \in Procs, UpdateSet(p),
         NEW l, l = mem[p].list, NEW c, c = ch[l]
  PROVE  Keeps(p, l, ch, [ch EXCEPT ![l] = c])
<1>m. PICK m : m = mem[p]
  OBVIOUS
<1>1. pc[p] = "set" /\ mem[p].op = "update" /\ mem[p].op # "create" /\ pc[p] # "idle"
  BY WhoWrites DEF UpdateSet, Goto
<1>2. /\ c \in Seq(Blocks) /\ Working(p, c) /\ mem[p] \in Call /\ live \subseteq Blocks
      /\ Elements(c) \subseteq live /\ l \in live /\ l \notin Elements(c) /\ Distinct(c)
      /\ l \in Blocks /\ TypeOK /\ disk \in [Blocks -> Block]
  BY <1>1, MidCall DEF TypeOK
<1>3. /\ Whole(c) /\ Described(l, c) /\ Copied(p, c) /\ m.val \in Values
      /\ m.index < Len(c) /\ m.x = c[m.index + 1] /\ m.index \in Nat
  BY <1>m, <1>1, <1>2 DEF Working, Setting, Intact, Call
<1>4. /\ UNCHANGED <<live, lists, linked, damaged, mem>> /\ pc' = [pc EXCEPT ![p] = "save"]
      /\ pc'[p] = "save" /\ mem' = [mem EXCEPT ![p] = m] /\ mem'[p] = m
      /\ m \in Call /\ m.op = "update" /\ m.list = l
      /\ disk' = [disk EXCEPT ![m.x].third = m.val]
  BY <1>m, <1>1, <1>2 DEF UpdateSet, Goto, history, TypeOK
<1>5. m.x \in Elements(c) /\ m.x \in Blocks
  <2>1. m.index + 1 \in 1 .. Len(c)
    BY <1>2, <1>3, Members
  <2> QED
    BY <1>2, <1>3, <2>1, Members DEF Elements
<1>6. /\ disk' \in [Blocks -> Block]
      /\ \A b \in Blocks : b # m.x => disk'[b] = disk[b]
      /\ \A b \in Blocks : /\ disk'[b].first = disk[b].first
                           /\ disk'[b].second = disk[b].second
  <2>1. PICK a \in Blocks : a = m.x
    BY <1>5
  <2>2. PICK v \in Values : v = m.val
    BY <1>3
  <2>3. disk' = [disk EXCEPT ![a].third = v]
    BY <1>4, <2>1, <2>2
  <2>4. NULL \in Loc
    BY DEF Loc
  <2> QED
    BY <1>2, <2>1, <2>3, <2>4, FieldIs
<1>7. Whole(c)'
  <2>1. \A i \in 1 .. Len(c) : c[i] \in Blocks
    BY <1>2, Members
  <2>2. Forward(c)'
    BY <1>2, <1>3, <1>6, <2>1, Members DEF Whole, Forward
  <2>3. Backward(c)'
    BY <1>2, <1>3, <1>6, <2>1, Members DEF Whole, Backward
  <2>4. Starts(c, NULL)' /\ Ends(c, NULL)'
    BY <1>2, <1>3, <1>6, <2>1, Members DEF Whole, Starts, Ends
  <2> QED
    BY <2>2, <2>3, <2>4 DEF Whole
<1>8. Described(l, c)'
  BY <1>2, <1>3, <1>5, <1>6, SameHeader
<1>9. Working(p, c)'
  <2>1. Setting(p, c)'
    BY <1>m, <1>3, <1>4, <1>7, <1>8 DEF Setting, Intact, Copied
  <2> QED
    BY <1>4, <2>1 DEF Working, Pushes, Pops
<1>10. Spare(p) = {} /\ Spare(p)' = {} /\ m.op # "create"
  BY <1>1, <1>4, SpareIs, SpareWillBe
<1>11. Turns(p, l, c, c, m, "save")
  BY <1>2, <1>4, <1>5, <1>6, <1>9, <1>10 DEF Turns
<1> QED
  BY <1>1, <1>11, WorkKeeps

LEMMA ReleaseNodeKeeps ==
  ASSUME NEW ch, Inv(ch), NEW p \in Procs, ReleaseNode(p),
         NEW l, l = mem[p].list, NEW c, c = ch[l], NEW d, d = Beheaded(c)
  PROVE  Keeps(p, l, ch, [ch EXCEPT ![l] = d])
<1>1. pc[p] = "drop" /\ mem[p].op = "release" /\ mem[p].op # "create" /\ pc[p] # "idle"
  BY WhoWrites DEF ReleaseNode
<1>2. /\ c \in Seq(Blocks) /\ Working(p, c) /\ mem[p] \in Call /\ live \subseteq Blocks
      /\ Elements(c) \subseteq live /\ l \in live /\ l \notin Elements(c) /\ Distinct(c)
      /\ l \in Blocks /\ TypeOK /\ disk \in [Blocks -> Block]
  BY <1>1, MidCall DEF TypeOK
<1>3. /\ mem[p].x = First(c) /\ mem[p].x # NULL /\ c # <<>> /\ mem[p].x = c[1]
      /\ c[1] \in Blocks /\ c[1] \in Elements(c)
      /\ Forward(c) /\ Ends(c, NULL)
      /\ HeadOf(l) = c[1] \/ (HeadOf(l) # NULL /\ HeadOf(l) \notin Elements(c))
  <2>1. /\ mem[p].x = First(c) /\ mem[p].x # NULL /\ Forward(c) /\ Ends(c, NULL)
        /\ mem[p].x = HeadOf(l) \/ (HeadOf(l) # NULL /\ HeadOf(l) \notin Elements(c))
    BY <1>1, <1>2 DEF Working, Dropping, ReleaseNode
  <2>2. c # <<>> /\ First(c) = c[1] /\ 1 \in 1 .. Len(c)
    BY <1>2, <2>1, Members DEF First
  <2>3. c[1] \in Blocks /\ c[1] \in Elements(c)
    BY <1>2, <2>2, Members DEF Elements
  <2> QED
    BY <2>1, <2>2, <2>3
<1>4. /\ d \in Seq(Blocks) /\ Elements(c) = Elements(d) \cup {c[1]}
      /\ Distinct(d) /\ c[1] \notin Elements(d)
      /\ Forward(d) /\ Ends(d, NULL) /\ disk[c[1]].second = First(d)
      /\ First(d) \in Loc /\ (First(d) = NULL \/ First(d) \in Elements(d))
  <2>1. /\ d \in Seq(Blocks) /\ Elements(c) = Elements(d) \cup {c[1]}
        /\ Distinct(d) /\ c[1] \notin Elements(d)
        /\ Forward(d) /\ Ends(d, NULL) /\ disk[c[1]].second = First(d)
    BY <1>2, <1>3, BeheadedIs, BeheadedWhole
  <2>2. First(d) \in Loc
    BY <2>1, Members
  <2>3. d # <<>> => 1 \in 1 .. Len(d)
    BY <2>1, Members
  <2>4. First(d) = NULL \/ First(d) \in Elements(d)
    BY <2>3 DEF First, Elements
  <2> QED
    BY <2>1, <2>2, <2>4
<1>m. PICK m : m = mem'[p]
  OBVIOUS
<1>5. /\ UNCHANGED <<disk, lists, linked, damaged, pc>> /\ pc' = [pc EXCEPT ![p] = "drop"]
      /\ pc'[p] = "drop" /\ live' = live \ {c[1]}
      /\ mem' = [mem EXCEPT ![p] = m] /\ m \in Call /\ m.op = "release" /\ m.list = l
      /\ m.x = First(d)
  <2>1. /\ UNCHANGED <<disk, lists, linked, damaged, pc>> /\ live' = live \ {c[1]}
        /\ mem' = [mem EXCEPT ![p].x = SuccOf(mem[p].x)]
    BY <1>3 DEF ReleaseNode, history
  <2>2. SuccOf(mem[p].x) = First(d)
    BY <1>3, <1>4 DEF SuccOf
  <2>3. m = [mem[p] EXCEPT !.x = First(d)] /\ mem' = [mem EXCEPT ![p] = m]
    BY <1>m, <1>2, <2>1, <2>2 DEF TypeOK
  <2>4. m \in Call /\ m.op = "release" /\ m.list = l /\ m.x = First(d)
    BY <1>1, <1>2, <1>4, <2>3 DEF Call
  <2>5. pc' = [pc EXCEPT ![p] = "drop"] /\ pc'[p] = "drop"
    BY <1>1, <1>2, <2>1 DEF TypeOK
  <2> QED
    BY <2>1, <2>3, <2>4, <2>5
<1>6. Working(p, d)'
  <2>0. d \in Seq(Blocks) /\ UNCHANGED disk /\ Forward(d) /\ Ends(d, NULL)
    BY <1>4, <1>5
  <2>1. HeadOf(l)' = HeadOf(l) /\ Forward(d)' /\ Ends(d, NULL)'
    BY <2>0, SameDisk
  <2>2. /\ m.x # HeadOf(l) /\ HeadOf(l) # NULL /\ HeadOf(l) \notin Elements(d)
    BY <1>3, <1>4, <1>5, ConstAssumption
  <2>3. Dropping(p, d)'
    BY <1>m, <1>5, <2>1, <2>2 DEF Dropping
  <2> QED
    BY <1>m, <1>5, <2>3 DEF Working, Pushes, Pops
<1>7. Spare(p) = {} /\ Spare(p)' = {} /\ m.op # "create"
  BY <1>m, <1>1, <1>5, SpareIs, SpareWillBe
<1>8. Turns(p, l, c, d, m, "drop")
  BY <1>2, <1>4, <1>5, <1>6, <1>7 DEF Turns, TypeOK
<1> QED
  BY <1>1, <1>8, WorkKeeps
-----------------------------------------------------------------------------
(***************************************************************************)
(* The calls end.                                                          *)
(***************************************************************************)
\* The chains after a call on l that leaves it as c2.
Saved(ch, l, c2) == [k \in lists \cup {l} |-> IF k = l THEN c2 ELSE ch[k]]

LEMMA EndKeeps ==
  ASSUME NEW ch, Inv(ch), NEW p \in Procs, pc[p] # "idle", NEW l \in Blocks, l = mem[p].list,
         l \notin linked, l \notin damaged,
         \A q \in Busy \ {p} : mem[q].list # l,
         NEW c2 \in Seq(Blocks), Distinct(c2), l \notin Elements(c2),
         Elements(c2) \cup {l} = Mine(p, l, ch), Mine(p, l, ch) \subseteq live,
         Return(p), UNCHANGED <<live, linked, damaged>>, lists' = lists \cup {l},
         disk' \in [Blocks -> Block], \A b \in Blocks : disk'[b] # disk[b] => b = l,
         Intact(l, c2)', NEW ch2, ch2 = Saved(ch, l, c2)
  PROVE  Keeps(p, l, ch, ch2)
<1>1. /\ TypeOK /\ ch \in [lists -> Seq(Blocks)]
  BY DEF Inv
<1>2. /\ mem'[p] = NoCall /\ pc'[p] = "idle"
      /\ \A q \in Procs \ {p} : mem'[q] = mem[q] /\ pc'[q] = pc[q]
  BY <1>1 DEF TypeOK, Return
<1>3. TypeOK'
  <2>1. NoCall \in Call
    BY DEF NoCall, Call, Loc
  <2>2. pc' = [pc EXCEPT ![p] = "idle"] /\ mem' = [mem EXCEPT ![p] = NoCall]
    BY DEF Return
  <2> QED
    BY <1>1, <2>1, <2>2 DEF TypeOK
<1>4. live' = live
  OBVIOUS
<1>5. /\ ch2 \in [lists' -> Seq(Blocks)] /\ ch2[l] = c2
      /\ \A k \in lists \ {l} : ch2[k] = ch[k]
  BY <1>1 DEF Saved
<1>6. Spare(p)' = {}
  BY <1>2, SpareWillBe
<1>7. Mine(p, l, ch2)' = Mine(p, l, ch)
  BY <1>5, <1>6 DEF Mine, Body
<1>8. Local(p, l, ch, ch2)
  BY <1>2, <1>5 DEF Local, Mine
<1>9. Handed(p, l, ch, ch2)
  BY <1>5, <1>6, <1>7 DEF Handed
<1>10. Job(p, ch2)'
  BY <1>2 DEF Job
<1>11. Rest(l, ch2)'
  BY <1>5 DEF Rest
<1>12. Inv(ch2)'
  BY <1>3, <1>5, <1>8, <1>9, <1>10, <1>11, Stepping
<1>13. Full(ch) => Full(ch2)'
  <2>1. /\ live' \subseteq live \cup Mine(p, l, ch2)'
        /\ Mine(p, l, ch) \cap live' \subseteq Mine(p, l, ch2)'
    BY <1>4, <1>7
  <2> QED
    BY <1>8, <1>9, <2>1, Ownership
<1> QED
  BY <1>8, <1>12, <1>13 DEF Keeps

LEMMA ReleaseHeaderKeeps ==
  ASSUME NEW ch, Inv(ch), NEW p \in Procs, ReleaseHeader(p),
         NEW l, l = mem[p].list, NEW ch2, ch2 = [k \in lists \ {l} |-> ch[k]]
  PROVE  Keeps(p, l, ch, ch2)
<1>c. PICK c : c = ch[l]
  OBVIOUS
<1>1. pc[p] = "drop" /\ mem[p].op = "release" /\ mem[p].op # "create" /\ pc[p] # "idle"
  BY WhoWrites DEF ReleaseHeader
<1>2. /\ c \in Seq(Blocks) /\ Working(p, c) /\ l \in lists
      /\ l \notin linked /\ l \notin damaged
      /\ \A q \in Busy \ {p} : mem[q].list # l
      /\ TypeOK /\ ch \in [lists -> Seq(Blocks)]
  BY <1>c, <1>1, MidCall
<1>3. Elements(c) = {}
  <2>1. First(c) = NULL
    BY <1>1, <1>2 DEF Working, Dropping, ReleaseHeader
  <2>2. c = <<>>
    BY <1>2, <2>1, Members
  <2> QED
    BY <2>2, EmptyIs
<1>4. /\ live' = live \ {l} /\ lists' = lists \ {l} /\ Return(p)
      /\ UNCHANGED <<disk, linked, damaged>>
  BY DEF ReleaseHeader, history
<1>5. /\ mem'[p] = NoCall /\ pc'[p] = "idle"
      /\ \A q \in Procs \ {p} : mem'[q] = mem[q] /\ pc'[q] = pc[q]
  BY <1>2, <1>4 DEF TypeOK, Return
<1>6. TypeOK'
  <2>1. NoCall \in Call
    BY DEF NoCall, Call, Loc
  <2>2. pc' = [pc EXCEPT ![p] = "idle"] /\ mem' = [mem EXCEPT ![p] = NoCall]
    BY <1>4 DEF Return
  <2> QED
    BY <1>2, <1>4, <2>1, <2>2 DEF TypeOK
<1>8. /\ ch2 \in [lists' -> Seq(Blocks)] /\ \A k \in lists \ {l} : ch2[k] = ch[k]
  BY <1>2, <1>4
<1>9. Spare(p)' = {} /\ Spare(p) = {}
  BY <1>1, <1>5, SpareIs, SpareWillBe
<1>10. Mine(p, l, ch2)' = {} /\ Mine(p, l, ch) = {l}
  BY <1>c, <1>2, <1>3, <1>4, <1>9 DEF Mine, Body
<1>11. Local(p, l, ch, ch2)
  BY <1>2, <1>4, <1>5, <1>8 DEF Local
<1>12. Handed(p, l, ch, ch2)
  BY <1>4, <1>10 DEF Handed
<1>13. Job(p, ch2)'
  BY <1>5 DEF Job
<1>14. Inv(ch2)'
  BY <1>2, <1>4, <1>6, <1>8, <1>11, <1>12, <1>13, Stepping
<1>15. Full(ch) => Full(ch2)'
  BY <1>4, <1>10, <1>11, <1>12, Ownership
<1> QED
  BY <1>11, <1>14, <1>15 DEF Keeps

\* A process is killed: what it leaves is a list as before, or one that a
\* history variable remembers.
LEMMA CrashKeeps ==
  ASSUME NEW ch, Inv(ch), NEW p \in Procs, Crash(p), NEW l, l = mem[p].list
  PROVE  Inv(ch)' /\ Local(p, l, ch, ch)
<1>1. /\ pc[p] # "idle" /\ Return(p) /\ UNCHANGED <<disk, live, lists>>
      /\ linked' = IF Linked(p) THEN linked \cup {l} ELSE linked
      /\ damaged' = IF Popped(p) \/ Dropped(p) THEN damaged \cup {l} ELSE damaged
  BY DEF Crash
<1>2. TypeOK /\ ch \in [lists -> Seq(Blocks)] /\ p \in Busy
  BY <1>1 DEF Inv, Busy
<1>3. /\ mem'[p] = NoCall /\ pc'[p] = "idle"
      /\ \A q \in Procs \ {p} : mem'[q] = mem[q] /\ pc'[q] = pc[q]
  BY <1>1, <1>2 DEF TypeOK, Return
<1>4. Spare(p)' = {}
  BY <1>3, SpareWillBe
<1>5. \A q \in Busy \ {p} : mem[q].list # l
  BY <1>2 DEF Inv, OneEach
<1>6. mem[p].op = "create" => /\ l \notin lists /\ linked' = linked /\ damaged' = damaged
  BY <1>1 DEF Inv, Job, Linked, Popped, Dropped, Pushes, Pops, Drops
<1>7. mem[p].op # "create" => /\ l \in lists /\ l \in Blocks /\ l \notin linked
                              /\ l \notin damaged /\ Working(p, ch[l])
                              /\ ch[l] \in Seq(Blocks) /\ Distinct(ch[l])
                              /\ l \notin Elements(ch[l])
  BY <1>1, MidCall
<1>8. TypeOK'
  <2>1. NoCall \in Call
    BY DEF NoCall, Call, Loc
  <2>2. pc' = [pc EXCEPT ![p] = "idle"] /\ mem' = [mem EXCEPT ![p] = NoCall]
    BY <1>1 DEF Return
  <2> QED
    BY <1>1, <1>2, <1>6, <1>7, <2>1, <2>2 DEF TypeOK
<1>9. Local(p, l, ch, ch)
  BY <1>1, <1>3, <1>5 DEF Local
<1>10. Handed(p, l, ch, ch)
  <2>1. Mine(p, l, ch)' \subseteq Mine(p, l, ch)
    BY <1>1, <1>4 DEF Mine, Body
  <2>2. Mine(p, l, ch) \subseteq live
    BY DEF Inv, Apart, Mine
  <2> QED
    BY <1>1, <1>4, <1>6, <1>7, <2>1, <2>2 DEF Handed
<1>11. Job(p, ch)'
  BY <1>3 DEF Job
<1>12. l \in lists' => Rest(l, ch)'
  <2> SUFFICES ASSUME l \in lists PROVE Rest(l, ch)'
    BY <1>1
  <2>c. PICK c : c = ch[l]
    OBVIOUS
  <2>1. /\ mem[p].op # "create" /\ l \notin linked /\ l \notin damaged /\ Working(p, c)
        /\ c \in Seq(Blocks)
    BY <1>6, <1>7, <2>c
  <2>2. l \notin linked' \cup damaged' => Intact(l, c)
    <3> SUFFICES ASSUME ~Linked(p), ~Popped(p), ~Dropped(p) PROVE Intact(l, c)
      BY <1>1
    <3>1. CASE mem[p].op \in Pushes
      <4>1. Pushing(p, c) /\ Described(l, c)
        BY <2>1, <3>1 DEF Working, Pushing
      <4>2. CASE pc[p] \in {"alloc", "link"}
        BY <4>1, <4>2 DEF Pushing, Waiting, Intact
      <4>3. CASE pc[p] \in {"write", "save"}
        <5>1. mem[p].prev = NULL /\ mem[p].succ = NULL /\ Grown(p, c)
          BY <3>1, <4>1, <4>3 DEF Linked, Pushing
        <5>2. First(c) = NULL \/ Final(c) = NULL
          BY <3>1, <5>1 DEF Grown, Pushes
        <5>3. c = <<>>
          BY <2>1, <5>2, Members
        <5>4. Whole(c)
          BY <5>1, <5>3 DEF Whole, Grown, Starts, Ends
        <5> QED
          BY <4>1, <5>4 DEF Intact
      <4> QED
        BY <4>1, <4>2, <4>3 DEF Pushing
    <3>2. CASE mem[p].op \in Pops
      <4>1. Popping(p, c)
        BY <2>1, <3>2 DEF Working
      <4>2. pc[p] = "unlink" \/ Lone(p)
        BY <3>2, <4>1 DEF Popping, Popped, Lone
      <4> QED
        BY <4>1, <4>2 DEF Popping
    <3>3. CASE mem[p].op = "update"
      BY <2>1, <3>3 DEF Working, Setting
    <3>4. CASE mem[p].op = "release"
      BY <2>1, <3>4 DEF Working, Dropping, Dropped, Drops
    <3> QED
      BY <2>1, <3>1, <3>2, <3>3, <3>4 DEF Working
  <2>3. l \in linked' \ damaged' => Readable(l, c)
    <3> SUFFICES ASSUME Linked(p) PROVE Readable(l, c)
      BY <1>1, <2>1
    <3>1. Pushing(p, c) /\ pc[p] \in {"write", "save"}
      BY <2>1 DEF Working, Linked
    <3> QED
      BY <3>1 DEF Pushing, Grown, Readable, Described
  <2>4. /\ Intact(l, c) => Intact(l, c)'
        /\ Readable(l, c) => Readable(l, c)'
    <3>1. /\ \A b \in Elements(c) : disk'[b] = disk[b]
          /\ disk'[l] = disk[l]
      BY <1>1
    <3> QED
      BY <2>1, <3>1, SameChain, SameHeader DEF Intact, Readable
  <2> QED
    BY <2>c, <2>2, <2>3, <2>4 DEF Rest
<1>13. ch \in [lists' -> Seq(Blocks)] /\ (l \in linked' \cup damaged' => l \in lists')
  BY <1>1, <1>2, <1>6, <1>7 DEF Inv
<1> QED
  BY <1>8, <1>9, <1>10, <1>11, <1>12, <1>13, Stepping

\* A node that is linked to an end of a chain makes it longer.
LEMMA GrowsAtEnd ==
  ASSUME NEW c \in Seq(Blocks), NEW x, NEW c2 \in Seq(Blocks), Len(c2) = Len(c) + 1,
         \A i \in 1 .. Len(c) : c2[i] = c[i], c2[Len(c) + 1] = x,
         Forward(c)', Backward(c)', Starts(c, NULL)', Ends(c, x)',
         disk'[x].first = Final(c), disk'[x].second = NULL
  PROVE  Whole(c2)'
<1>1. Len(c) \in Nat /\ (c = <<>> <=> Len(c) = 0) /\ c2 # <<>>
      /\ (c # <<>> => Len(c) \in 1 .. Len(c) /\ 1 \in 1 .. Len(c))
  BY Members
<1>2. Forward(c2)'
  <2> SUFFICES ASSUME NEW i \in 1 .. Len(c2) - 1 PROVE disk'[c2[i]].second = c2[i + 1]
    BY DEF Forward
  <2>1. CASE i = Len(c)
    <3>1. c2[i] = c[Len(c)] /\ c2[i + 1] = x /\ c # <<>>
      BY <1>1, <2>1
    <3> QED
      BY <3>1 DEF Ends
  <2>2. CASE i # Len(c)
    <3>1. i \in 1 .. Len(c) - 1 /\ c2[i] = c[i] /\ c2[i + 1] = c[i + 1]
      BY <1>1, <2>2
    <3> QED
      BY <3>1 DEF Forward
  <2> QED
    BY <2>1, <2>2
<1>3. Backward(c2)'
  <2> SUFFICES ASSUME NEW i \in 2 .. Len(c2) PROVE disk'[c2[i]].first = c2[i - 1]
    BY DEF Backward
  <2>1. CASE i = Len(c) + 1
    <3>1. c2[i] = x /\ c2[i - 1] = c[Len(c)] /\ c # <<>>
      BY <1>1, <2>1
    <3> QED
      BY <3>1 DEF Final
  <2>2. CASE i # Len(c) + 1
    <3>1. i \in 2 .. Len(c) /\ c2[i] = c[i] /\ c2[i - 1] = c[i - 1]
      BY <1>1, <2>2
    <3> QED
      BY <3>1 DEF Backward
  <2> QED
    BY <2>1, <2>2
<1>4. Starts(c2, NULL)'
  <2>1. CASE c = <<>>
    <3>1. c2[1] = x /\ Final(c) = NULL
      BY <1>1, <2>1 DEF Final
    <3> QED
      BY <3>1 DEF Starts
  <2>2. CASE c # <<>>
    <3>1. c2[1] = c[1]
      BY <1>1, <2>2
    <3> QED
      BY <2>2, <3>1 DEF Starts
  <2> QED
    BY <2>1, <2>2
<1>5. Ends(c2, NULL)'
  BY <1>1 DEF Ends
<1> QED
  BY <1>2, <1>3, <1>4, <1>5 DEF Whole

LEMMA GrowsAtStart ==
  ASSUME NEW c \in Seq(Blocks), NEW x, NEW c2 \in Seq(Blocks), Len(c2) = Len(c) + 1,
         \A i \in 1 .. Len(c) : c2[i + 1] = c[i], c2[1] = x,
         Forward(c)', Backward(c)', Starts(c, x)', Ends(c, NULL)',
         disk'[x].first = NULL, disk'[x].second = First(c)
  PROVE  Whole(c2)'
<1>1. Len(c) \in Nat /\ (c = <<>> <=> Len(c) = 0) /\ c2 # <<>>
      /\ (c # <<>> => Len(c) \in 1 .. Len(c) /\ 1 \in 1 .. Len(c))
  BY Members
<1>2. Forward(c2)'
  <2> SUFFICES ASSUME NEW i \in 1 .. Len(c2) - 1 PROVE disk'[c2[i]].second = c2[i + 1]
    BY DEF Forward
  <2>1. CASE i = 1
    <3>1. c2[i] = x /\ c2[i + 1] = c[1] /\ c # <<>>
      BY <1>1, <2>1
    <3> QED
      BY <3>1 DEF First
  <2>2. CASE i # 1
    <3>1. i - 1 \in 1 .. Len(c) - 1 /\ (i - 1) + 1 = i /\ i \in 1 .. Len(c)
      BY <1>1, <2>2
    <3>2. c2[i] = c[i - 1] /\ c2[i + 1] = c[(i - 1) + 1]
      BY <1>1, <3>1
    <3> QED
      BY <3>1, <3>2 DEF Forward
  <2> QED
    BY <2>1, <2>2
<1>3. Backward(c2)'
  <2> SUFFICES ASSUME NEW i \in 2 .. Len(c2) PROVE disk'[c2[i]].first = c2[i - 1]
    BY DEF Backward
  <2>1. CASE i = 2
    <3>1. 1 \in 1 .. Len(c) /\ c2[1 + 1] = c[1] /\ c2[i - 1] = x /\ c # <<>>
      BY <1>1, <2>1
    <3> QED
      BY <2>1, <3>1 DEF Starts
  <2>2. CASE i # 2
    <3>1. i - 1 \in 2 .. Len(c) /\ (i - 1) + 1 = i /\ (i - 2) + 1 = i - 1
          /\ i - 1 \in 1 .. Len(c) /\ i - 2 \in 1 .. Len(c) /\ (i - 1) - 1 = i - 2
      BY <1>1, <2>2
    <3>2. c2[i] = c[i - 1] /\ c2[i - 1] = c[(i - 1) - 1]
      BY <1>1, <3>1
    <3> QED
      BY <3>1, <3>2 DEF Backward
  <2> QED
    BY <2>1, <2>2
<1>4. Starts(c2, NULL)'
  BY <1>1 DEF Starts
<1>5. Ends(c2, NULL)'
  <2>1. CASE c = <<>>
    <3>1. c2[Len(c2)] = x /\ First(c) = NULL
      BY <1>1, <2>1 DEF First
    <3> QED
      BY <3>1 DEF Ends
  <2>2. CASE c # <<>>
    <3>1. c2[Len(c2)] = c[Len(c)]
      BY <1>1, <2>2
    <3> QED
      BY <2>2, <3>1 DEF Ends
  <2> QED
    BY <2>1, <2>2
<1> QED
  BY <1>2, <1>3, <1>4, <1>5 DEF Whole

LEMMA EmptyWhole == /\ First(<<>>) = NULL /\ Final(<<>>) = NULL
                    /\ Whole(<<>>) /\ Whole(<<>>)'
  BY EmptyIs DEF First, Final, Whole, Forward, Backward, Starts, Ends

\* The chain of a call's list before and after its save of the header.
Before(p, ch) == IF mem[p].op = "create" THEN <<>> ELSE ch[mem[p].list]

After(p, c) ==
  IF mem[p].op = "push_tail" THEN Longer(c, mem[p].x)
  ELSE IF mem[p].op = "push_head" THEN Headed(mem[p].x, c) ELSE c

LEMMA SaveHeaderKeeps ==
  ASSUME NEW ch, Inv(ch), NEW p \in Procs, SaveHeader(p),
         NEW l, l = mem[p].list,
         NEW c, c = Before(p, ch), NEW c2, c2 = After(p, c),
         NEW ch2, ch2 = Saved(ch, l, c2)
  PROVE  Keeps(p, l, ch, ch2)
<1>m. PICK m : m = mem[p]
  OBVIOUS
<1>1. /\ pc[p] = "save" /\ pc[p] # "idle" /\ Return(p)
      /\ disk' = [disk EXCEPT ![l] = Header(m.head, m.tail, m.size)]
      /\ lists' = lists \cup {l} /\ UNCHANGED <<live, linked, damaged>>
      /\ mem[p].op \in Pushes \cup Pops \cup {"create", "update"}
  BY <1>m, WhoWrites DEF SaveHeader, history
<1>2. TypeOK /\ disk \in [Blocks -> Block] /\ m \in Call
  BY <1>m DEF Inv, TypeOK
<1>3. ASSUME l \in Blocks
      PROVE  /\ disk' \in [Blocks -> Block] /\ \A b \in Blocks : disk'[b] # disk[b] => b = l
             /\ HeadOf(l)' = m.head /\ TailOf(l)' = m.tail /\ SizeOf(l)' = m.size
  <2>1. Header(m.head, m.tail, m.size) \in Block
    BY <1>2 DEF Header, Block, Call
  <2> QED
    BY <1>1, <1>2, <1>3, <2>1 DEF Header, HeadOf, TailOf, SizeOf
<1>4. CASE mem[p].op = "create"
  <2>1. Job(p, ch) /\ Creating(p) /\ l \notin lists
    BY <1>1, <1>4 DEF Inv, Job
  <2>2. l \in Blocks /\ m.head = NULL /\ m.tail = NULL /\ m.size = 0
    BY <1>m, <2>1 DEF Creating
  <2>3. c2 = <<>>
    BY <1>4 DEF Before, After
  <2>4. c2 \in Seq(Blocks) /\ Len(c2) = 0 /\ Elements(c2) = {} /\ Distinct(c2)
    BY <2>3, EmptyIs
  <2>5. Intact(l, c2)'
    <3>1. Whole(c2)' /\ First(c2) = NULL /\ Final(c2) = NULL
      BY <2>3, EmptyWhole
    <3> QED
      BY <1>3, <2>2, <2>4, <3>1 DEF Intact, Described
  <2>6. Spare(p) = {l}
    BY <1>1, <1>4, SpareIs
  <2>7. Mine(p, l, ch) = {l} /\ l \in live
    BY <2>1, <2>6 DEF Mine, Inv, Apart
  <2>8. l \notin linked /\ l \notin damaged
    BY <2>1 DEF Inv
  <2>9. \A q \in Busy \ {p} : mem[q].list # l
    BY <1>1 DEF Inv, OneEach, Busy
  <2>10. disk' \in [Blocks -> Block] /\ \A b \in Blocks : disk'[b] # disk[b] => b = l
    BY <1>3, <2>2
  <2>11. l \notin Elements(c2) /\ Elements(c2) \cup {l} = Mine(p, l, ch)
         /\ Mine(p, l, ch) \subseteq live
    BY <2>4, <2>7
  <2> QED
    BY <1>1, <2>2, <2>4, <2>5, <2>8, <2>9, <2>10, <2>11, EndKeeps
<1>5. CASE mem[p].op # "create"
  <2>1. /\ c \in Seq(Blocks) /\ Working(p, c) /\ l \in lists /\ l \in Blocks
        /\ l \notin linked /\ l \notin damaged
        /\ Elements(c) \subseteq live /\ l \in live /\ l \notin Elements(c) /\ Distinct(c)
        /\ Spare(p) \subseteq live /\ Spare(p) \cap (Elements(c) \cup {l}) = {}
        /\ \A q \in Busy \ {p} : mem[q].list # l
        /\ c = ch[l]
    <3>1. c = ch[l]
      BY <1>5 DEF Before
    <3> QED
      BY <1>1, <1>5, <3>1, MidCall
  <2>2. \A b \in Elements(c) \cup Spare(p) : disk'[b] = disk[b]
    <3>1. Elements(c) \cup Spare(p) \subseteq Blocks /\ l \notin Elements(c) \cup Spare(p)
      BY <1>2, <2>1 DEF TypeOK
    <3> QED
      BY <1>3, <2>1, <3>1
  <2>3. /\ Forward(c)' <=> Forward(c)
        /\ Backward(c)' <=> Backward(c)
        /\ \A v : Starts(c, v)' <=> Starts(c, v)
        /\ \A v : Ends(c, v)' <=> Ends(c, v)
        /\ Whole(c)' <=> Whole(c)
    BY <2>1, <2>2, SameChain
  <2>4. /\ c2 \in Seq(Blocks) /\ Distinct(c2) /\ Elements(c2) = Elements(c) \cup Spare(p)
        /\ Whole(c2)' /\ m.head = First(c2) /\ m.tail = Final(c2) /\ m.size = Len(c2)
    <3>1. CASE mem[p].op \in Pushes
      <4>1. Pushing(p, c) /\ Grown(p, c) /\ m.size = Len(c) + 1 /\ Spare(p) = {m.x}
            /\ m.x \in Blocks /\ m.x \notin Elements(c)
            /\ disk[m.x] = Node(m.prev, m.succ, m.val) /\ disk'[m.x] = disk[m.x]
            /\ disk'[m.x].first = m.prev /\ disk'[m.x].second = m.succ
        <5>1. Pushing(p, c) /\ Grown(p, c) /\ m.size = Len(c) + 1 /\ Spare(p) = {m.x}
          BY <1>m, <1>1, <2>1, <3>1, SpareIs DEF Working, Pushing
        <5>2. m.x \in Blocks /\ disk[m.x] = Node(m.prev, m.succ, m.val)
          BY <1>m, <1>1, <5>1 DEF Grown
        <5> QED
          BY <2>1, <2>2, <5>1, <5>2 DEF Node
      <4>2. Len(c) \in Nat /\ (c = <<>> <=> Len(c) = 0)
        BY <2>1, Members
      <4>3. CASE mem[p].op = "push_tail"
        <5>b. PICK b \in Blocks : b = m.x
          BY <4>1
        <5>1. c2 = Longer(c, b)
          BY <1>m, <4>3, <5>b DEF After
        <5>2. /\ m.prev = Final(c) /\ m.succ = NULL /\ m.tail = m.x
              /\ m.head = (IF c = <<>> THEN m.x ELSE First(c))
              /\ Forward(c) /\ Backward(c) /\ Starts(c, NULL) /\ Ends(c, m.x)
          BY <1>m, <4>1, <4>3 DEF Grown
        <5>3. /\ c2 \in Seq(Blocks) /\ Len(c2) = Len(c) + 1
              /\ \A i \in 1 .. Len(c) : c2[i] = c[i]
              /\ c2[Len(c) + 1] = m.x
              /\ Elements(c2) = Elements(c) \cup {m.x} /\ Distinct(c2)
          <6>1. b \notin Elements(c) /\ Distinct(c) /\ c \in Seq(Blocks)
            BY <2>1, <4>1, <5>b
          <6>d. PICK d : d = Longer(c, b)
            OBVIOUS
          <6>2. /\ d \in Seq(Blocks) /\ Len(d) = Len(c) + 1
                /\ \A i \in 1 .. Len(c) : d[i] = c[i]
                /\ d[Len(c) + 1] = b
                /\ Elements(d) = Elements(c) \cup {b} /\ Distinct(d)
            BY <6>1, <6>d, LongerIs
          <6> QED
            BY <5>b, <5>1, <6>d, <6>2
        <5>4. Whole(c2)'
          BY <2>1, <2>3, <4>1, <5>2, <5>3, GrowsAtEnd
        <5>5. First(c2) = m.head /\ Final(c2) = m.tail
          BY <4>2, <5>2, <5>3 DEF First, Final
        <5> QED
          BY <4>1, <5>3, <5>4, <5>5
      <4>4. CASE mem[p].op = "push_head"
        <5>b. PICK b \in Blocks : b = m.x
          BY <4>1
        <5>1. c2 = Headed(b, c)
          BY <1>m, <4>4, <5>b DEF After
        <5>2. /\ m.prev = NULL /\ m.succ = First(c) /\ m.head = m.x
              /\ m.tail = (IF c = <<>> THEN m.x ELSE Final(c))
              /\ Forward(c) /\ Backward(c) /\ Starts(c, m.x) /\ Ends(c, NULL)
          BY <1>m, <4>1, <4>4 DEF Grown
        <5>3. /\ c2 \in Seq(Blocks) /\ Len(c2) = Len(c) + 1 /\ c2[1] = m.x
              /\ \A i \in 1 .. Len(c) : c2[i + 1] = c[i]
              /\ Elements(c2) = Elements(c) \cup {m.x} /\ Distinct(c2)
          <6>1. b \notin Elements(c) /\ Distinct(c) /\ c \in Seq(Blocks)
            BY <2>1, <4>1, <5>b
          <6>d. PICK d : d = Headed(b, c)
            OBVIOUS
          <6>2. /\ d \in Seq(Blocks) /\ Len(d) = Len(c) + 1 /\ d[1] = b
                /\ \A i \in 1 .. Len(c) : d[i + 1] = c[i]
                /\ Elements(d) = Elements(c) \cup {b} /\ Distinct(d)
            BY <6>1, <6>d, HeadedIs
          <6> QED
            BY <5>b, <5>1, <6>d, <6>2
        <5>4. Whole(c2)'
          BY <2>1, <2>3, <4>1, <5>2, <5>3, GrowsAtStart
        <5>5. First(c2) = m.head /\ Final(c2) = m.tail
          <6>1. c # <<>> => c2[Len(c) + 1] = c[Len(c)]
            <7> SUFFICES ASSUME c # <<>> PROVE c2[Len(c) + 1] = c[Len(c)]
              OBVIOUS
            <7>1. Len(c) \in 1 .. Len(c)
              BY <4>2
            <7> QED
              BY <5>3, <7>1
          <6> QED
            BY <4>2, <5>2, <5>3, <6>1 DEF First, Final
        <5> QED
          BY <4>1, <5>3, <5>4, <5>5
      <4> QED
        BY <3>1, <4>3, <4>4 DEF Pushes
    <3>2. CASE mem[p].op \in Pops
      <4>1. c2 = c /\ Spare(p) = {}
        BY <1>1, <3>2, SpareIs DEF After, Pops
      <4>2. Whole(c) /\ Copied(p, c)
        BY <1>1, <2>1, <3>2 DEF Working, Popping, Lone
      <4> QED
        BY <1>m, <2>1, <2>3, <4>1, <4>2 DEF Copied
    <3>3. CASE mem[p].op = "update"
      <4>1. c2 = c /\ Spare(p) = {}
        BY <3>3, SpareIs DEF After
      <4>2. Whole(c) /\ Copied(p, c)
        BY <2>1, <3>3 DEF Working, Setting, Intact
      <4> QED
        BY <1>m, <2>1, <2>3, <4>1, <4>2 DEF Copied
    <3> QED
      BY <1>1, <1>5, <3>1, <3>2, <3>3
  <2>5. Intact(l, c2)'
    BY <1>3, <2>1, <2>4 DEF Intact, Described
  <2>6. /\ l \notin Elements(c2) /\ Elements(c2) \cup {l} = Mine(p, l, ch)
        /\ Mine(p, l, ch) \subseteq live
    <3>1. Mine(p, l, ch) = Elements(c) \cup {l} \cup Spare(p)
      BY <2>1 DEF Mine, Body
    <3> QED
      BY <2>1, <2>4, <3>1
  <2>7. disk' \in [Blocks -> Block] /\ \A b \in Blocks : disk'[b] # disk[b] => b = l
    BY <1>3, <2>1
  <2> QED
    BY <1>1, <2>1, <2>4, <2>5, <2>6, <2>7, EndKeeps
<1> QED
  BY <1>4, <1>5
-----------------------------------------------------------------------------
(***************************************************************************)
(* The invariant.                                                          *)
(***************************************************************************)
LEMMA InitHolds == Init => LET ch == [l \in {} |-> <<>>] IN Inv(ch) /\ Full(ch)
<1> SUFFICES ASSUME Init, NEW ch, ch = [l \in {} |-> <<>>] PROVE Inv(ch) /\ Full(ch)
  OBVIOUS
<1>1. /\ live = {} /\ lists = {} /\ linked = {} /\ damaged = {} /\ Busy = {}
      /\ \A p \in Procs : pc[p] = "idle" /\ mem[p] = NoCall
  BY DEF Init, Busy
<1>2. TypeOK
  <2>1. NoCall \in Call /\ Node(NULL, NULL, 0) \in Block
    BY DEF NoCall, Call, Node, Block, Loc
  <2> QED
    BY <2>1 DEF Init, TypeOK
<1>3. ch \in [lists -> Seq(Blocks)]
  BY <1>1
<1>4. \A p \in Procs : Spare(p) = {}
  BY <1>1, SpareIs
<1> QED
  BY <1>1, <1>2, <1>3, <1>4 DEF Inv, Full, Apart, OneEach, Job, Rest

LEMMA StillKeeps == ASSUME NEW ch, Inv(ch), UNCHANGED vars
                    PROVE  Inv(ch)' /\ (Full(ch) => Full(ch)')
<1>1. UNCHANGED <<disk, live, lists, pc, mem, linked, damaged>>
  BY DEF vars
<1>2. /\ Busy' = Busy /\ TypeOK'
      /\ \A p : Spare(p)' = Spare(p)
      /\ \A k : Body(ch, k)' = Body(ch, k)
  BY <1>1 DEF Busy, Inv, TypeOK, Spare, Body
<1>3. Apart(ch)' /\ OneEach'
  BY <1>1, <1>2 DEF Inv, Apart, OneEach
<1>4. \A c : /\ Forward(c)' = Forward(c) /\ Backward(c)' = Backward(c)
             /\ \A v : Starts(c, v)' = Starts(c, v) /\ Ends(c, v)' = Ends(c, v)
             /\ Whole(c)' = Whole(c)
  BY <1>1 DEF Forward, Backward, Starts, Ends, Whole
<1>5. \A l : /\ HeadOf(l)' = HeadOf(l) /\ SizeOf(l)' = SizeOf(l)
             /\ \A c : Described(l, c)' = Described(l, c) /\ Intact(l, c)' = Intact(l, c)
                       /\ Readable(l, c)' = Readable(l, c)
  BY <1>1, <1>4 DEF HeadOf, TailOf, SizeOf, Described, Intact, Readable
<1>6. \A l \in lists' : Rest(l, ch)'
  BY <1>1, <1>2, <1>5 DEF Inv, Rest
<1>7. ASSUME NEW p \in Procs PROVE Job(p, ch)'
  <2>1. Job(p, ch)
    BY DEF Inv
  <2>2. CASE pc[p] = "idle" \/ mem[p].op = "create"
    BY <1>1, <2>1, <2>2 DEF Job, Creating
  <2>3. CASE pc[p] # "idle" /\ mem[p].op # "create"
    <3>1. ch[mem[p].list] \in Seq(Blocks) /\ Working(p, ch[mem[p].list])
      BY <2>3, MidCall
    <3>2. Working(p, ch[mem[p].list])'
      BY <1>1, <2>3, <3>1, SameCall
    <3> QED
      BY <1>1, <2>1, <2>3, <3>2 DEF Job, Sound
  <2> QED
    BY <2>2, <2>3
<1> QED
  BY <1>1, <1>2, <1>3, <1>6, <1>7 DEF Inv, Full

LEMMA StartsKeep ==
  ASSUME NEW ch, Inv(ch), NEW p \in Procs, Start(p)
  PROVE  \E k : Keeps(p, k, ch, ch)
<1>1. CASE Create(p)
  <2>1. PICK l : l = mem'[p].list
    OBVIOUS
  <2> QED
    BY <1>1, <2>1, CreateKeeps
<1>2. ASSUME NEW l \in lists, NEW op \in Pushes, NEW v \in Values, Push(p, op, l, v)
      PROVE  \E k : Keeps(p, k, ch, ch)
  BY <1>2, PushKeeps
<1>3. ASSUME NEW l \in lists, NEW i \in 0 .. SizeOf(l), NEW v \in Values, Update(p, l, i, v)
      PROVE  \E k : Keeps(p, k, ch, ch)
  BY <1>3, UpdateKeeps
<1>4. ASSUME NEW l \in lists, PopTail(p, l) PROVE \E k : Keeps(p, k, ch, ch)
  BY <1>4, PopTailKeeps
<1>5. ASSUME NEW l \in lists, PopHead(p, l) PROVE \E k : Keeps(p, k, ch, ch)
  BY <1>5, PopHeadKeeps
<1>6. ASSUME NEW l \in lists, Drop(p, "release", l) PROVE \E k : Keeps(p, k, ch, ch)
  BY <1>6, DropKeeps
<1> QED
  BY <1>1, <1>2, <1>3, <1>4, <1>5, <1>6 DEF Start

LEMMA StepsKeep ==
  ASSUME NEW ch, Inv(ch), NEW p \in Procs, Step(p)
  PROVE  \E k, ch2 : Keeps(p, k, ch, ch2)
<1>l. PICK l : l = mem[p].list
  OBVIOUS
<1>c. PICK c : c = ch[l]
  OBVIOUS
<1>1. CASE PushAlloc(p)
  BY <1>l, <1>c, <1>1, PushAllocKeeps
<1>2. CASE PushLink(p)
  BY <1>l, <1>c, <1>2, PushLinkKeeps
<1>3. CASE PushWrite(p)
  BY <1>l, <1>c, <1>3, PushWriteKeeps
<1>4. CASE PopUnlink(p)
  <2>1. PICK d : d = Without(p, c)
    OBVIOUS
  <2> QED
    BY <1>l, <1>c, <1>4, <2>1, PopUnlinkKeeps
<1>5. CASE PopFree(p)
  <2>1. PICK d : d = IF Lone(p) THEN Without(p, c) ELSE c
    OBVIOUS
  <2> QED
    BY <1>l, <1>c, <1>5, <2>1, PopFreeKeeps
<1>6. CASE UpdateSet(p)
  BY <1>l, <1>c, <1>6, UpdateSetKeeps
<1>7. CASE ReleaseNode(p)
  <2>1. PICK d : d = Beheaded(c)
    OBVIOUS
  <2> QED
    BY <1>l, <1>c, <1>7, <2>1, ReleaseNodeKeeps
<1>8. CASE ReleaseHeader(p)
  <2>1. PICK ch2 : ch2 = [k \in lists \ {l} |-> ch[k]]
    OBVIOUS
  <2> QED
    BY <1>l, <1>8, <2>1, ReleaseHeaderKeeps
<1>9. CASE SaveHeader(p)
  <2>1. PICK c1 : c1 = Before(p, ch)
    OBVIOUS
  <2>2. PICK c2 : c2 = After(p, c1)
    OBVIOUS
  <2>3. PICK ch2 : ch2 = Saved(ch, l, c2)
    OBVIOUS
  <2> QED
    BY <1>l, <1>9, <2>1, <2>2, <2>3, SaveHeaderKeeps
<1> QED
  BY <1>1, <1>2, <1>3, <1>4, <1>5, <1>6, <1>7, <1>8, <1>9 DEF Step

\* The invariants proper: there are chains that explain the state.
Explained == \E ch : Inv(ch)
AllHeld == \E ch : Inv(ch) /\ Full(ch)

LEMMA AlwaysExplained == CrashSpec => []Explained
<1>1. Init => Explained
  BY InitHolds DEF Explained
<1>2. Explained /\ [Next \/ \E p \in Procs : Crash(p)]_vars => Explained'
  <2> SUFFICES ASSUME NEW ch, Inv(ch), [Next \/ \E p \in Procs : Crash(p)]_vars
               PROVE  \E ch2 : Inv(ch2)'
    BY DEF Explained
  <2>1. ASSUME NEW p \in Procs, Start(p) PROVE \E ch2 : Inv(ch2)'
    BY <2>1, StartsKeep DEF Keeps
  <2>2. ASSUME NEW p \in Procs, Step(p) PROVE \E ch2 : Inv(ch2)'
    BY <2>2, StepsKeep DEF Keeps
  <2>3. ASSUME NEW p \in Procs, Crash(p) PROVE \E ch2 : Inv(ch2)'
    <3>1. PICK l : l = mem[p].list
      OBVIOUS
    <3> QED
      BY <2>3, <3>1, CrashKeeps
  <2>4. CASE UNCHANGED vars
    BY <2>4, StillKeeps
  <2> QED
    BY <2>1, <2>2, <2>3, <2>4 DEF Next
<1> QED
  BY <1>1, <1>2, PTL DEF CrashSpec

\* Without kills nothing is held by nobody, and no list is out of order.
LEMMA AlwaysHeld == Spec => [](AllHeld /\ linked = {} /\ damaged = {})
<1>1. Init => AllHeld /\ linked = {} /\ damaged = {}
  BY InitHolds DEF AllHeld, Init
<1>2. AllHeld /\ linked = {} /\ damaged = {} /\ [Next]_vars
        => (AllHeld /\ linked = {} /\ damaged = {})'
  <2> SUFFICES ASSUME NEW ch, Inv(ch), Full(ch), linked = {}, damaged = {}, [Next]_vars
               PROVE  (\E ch2 : Inv(ch2)' /\ Full(ch2)') /\ linked' = {} /\ damaged' = {}
    BY DEF AllHeld
  <2>1. ASSUME NEW p \in Procs, Start(p)
        PROVE  (\E k, ch2 : Keeps(p, k, ch, ch2)) /\ UNCHANGED <<linked, damaged>>
    <3>1. UNCHANGED <<linked, damaged>>
      BY <2>1 DEF Start, Create, Push, PopTail, PopHead, Update, Drop, history
    <3> QED
      BY <2>1, <3>1, StartsKeep
  <2>2. ASSUME NEW p \in Procs, Step(p)
        PROVE  (\E k, ch2 : Keeps(p, k, ch, ch2)) /\ UNCHANGED <<linked, damaged>>
    <3>1. UNCHANGED <<linked, damaged>>
      BY <2>2 DEF Step, SaveHeader, PushAlloc, PushLink, PushWrite, PopUnlink, PopFree,
                  UpdateSet, ReleaseNode, ReleaseHeader, history
    <3> QED
      BY <2>2, <3>1, StepsKeep
  <2>3. CASE UNCHANGED vars
    <3>1. UNCHANGED <<linked, damaged>>
      BY <2>3 DEF vars
    <3> QED
      BY <2>3, <3>1, StillKeeps
  <2> QED
    BY <2>1, <2>2, <2>3 DEF Next, Keeps
<1> QED
  BY <1>1, <1>2, PTL DEF Spec
-----------------------------------------------------------------------------
(***************************************************************************)
(* What the invariant says to a reader of the lists.                       *)
(***************************************************************************)
LEMMA ChainIs ==
  ASSUME NEW l, NEW c \in Seq(Blocks), Intact(l, c)
  PROVE  /\ SizeOf(l) = Len(c)
         /\ \A i \in 1 .. Len(c) : Chain(l)[i] = c[i]
         /\ Nodes(l) = Elements(c)
<1>1. SizeOf(l) = Len(c) /\ Len(c) \in Nat /\ HeadOf(l) = First(c) /\ Forward(c)
  BY Members DEF Intact, Described, Whole
<1>2. ASSUME NEW i \in 1 .. Len(c) PROVE Chain(l)[i] = c[i]
  <2>1. i - 1 \in Nat /\ i - 1 < Len(c) /\ (i - 1) + 1 = i
    BY <1>1
  <2>2. Walk(First(c), i - 1) = c[i]
    BY <1>1, <2>1, WalkIs
  <2>3. Chain(l)[i] = Walk(HeadOf(l), i - 1)
    BY <1>1 DEF Chain
  <2> QED
    BY <1>1, <2>2, <2>3
<1>3. Nodes(l) = Elements(c)
  BY <1>1, <1>2 DEF Nodes, Elements
<1> QED
  BY <1>1, <1>2, <1>3

LEMMA QuietIs ==
  ASSUME NEW ch, Inv(ch), NEW l \in Quiet
  PROVE  /\ l \in lists /\ ch[l] \in Seq(Blocks) /\ Intact(l, ch[l])
         /\ Nodes(l) = Elements(ch[l]) /\ Nodes(l) \cup {l} = Body(ch, l)
<1>1. l \in lists /\ ch[l] \in Seq(Blocks) /\ Intact(l, ch[l])
  BY DEF Quiet, Inv, Rest
<1> QED
  BY <1>1, ChainIs DEF Body

\* Every list nobody is working on, and nobody died on, can be walked both
\* ways, at every moment of any number of calls and kills.
THEOREM LinksAgree == CrashSpec => []LinksMatch
<1>1. ASSUME NEW ch, Inv(ch), NEW l \in Quiet
      PROVE  LET n == SizeOf(l)
             IN IF n = 0 THEN HeadOf(l) = NULL /\ TailOf(l) = NULL
                ELSE /\ \A i \in 1 .. n : Chain(l)[i] \in Blocks
                     /\ PrevOf(Chain(l)[1]) = NULL
                     /\ SuccOf(Chain(l)[n]) = NULL
                     /\ TailOf(l) = Chain(l)[n]
                     /\ \A i \in 2 .. n : PrevOf(Chain(l)[i]) = Chain(l)[i - 1]
  <2>c. PICK c : c = ch[l]
    OBVIOUS
  <2>1. c \in Seq(Blocks) /\ Intact(l, c)
    BY <1>1, <2>c, QuietIs
  <2>2. /\ SizeOf(l) = Len(c) /\ Len(c) \in Nat /\ (c = <<>> <=> Len(c) = 0)
        /\ \A i \in 1 .. Len(c) : Chain(l)[i] = c[i] /\ c[i] \in Blocks /\ c[i] # NULL
    BY <2>1, ChainIs, Members, ConstAssumption
  <2>3. Whole(c) /\ Described(l, c)
    BY <2>1 DEF Intact
  <2>4. CASE Len(c) = 0
    BY <2>2, <2>3, <2>4 DEF Described, First, Final
  <2>5. CASE Len(c) # 0
    <3>1. 1 \in 1 .. Len(c) /\ Len(c) \in 1 .. Len(c) /\ c # <<>>
      BY <2>2, <2>5
    <3>2. PrevOf(Chain(l)[1]) = NULL
      BY <2>2, <2>3, <3>1 DEF PrevOf, Whole, Starts
    <3>3. SuccOf(Chain(l)[Len(c)]) = NULL
      BY <2>2, <2>3, <3>1 DEF SuccOf, Whole, Ends
    <3>4. TailOf(l) = Chain(l)[Len(c)]
      BY <2>2, <2>3, <3>1 DEF Described, Final
    <3>5. ASSUME NEW i \in 2 .. Len(c) PROVE PrevOf(Chain(l)[i]) = Chain(l)[i - 1]
      <4>1. i \in 1 .. Len(c) /\ i - 1 \in 1 .. Len(c)
        BY <2>2
      <4>2. disk[c[i]].first = c[i - 1]
        BY <2>3 DEF Whole, Backward
      <4> QED
        BY <2>2, <4>1, <4>2 DEF PrevOf
    <3> QED
      BY <2>2, <2>5, <3>2, <3>3, <3>4, <3>5
  <2> QED
    BY <2>4, <2>5
<1>2. Explained => LinksMatch
  BY <1>1 DEF Explained, LinksMatch
<1> QED
  BY <1>2, AlwaysExplained, PTL

\* The variables keep their types: no pointer leads outside of the blocks.
THEOREM TypeCorrect == CrashSpec => []TypeOK
<1>1. Explained => TypeOK
  BY DEF Explained, Inv
<1> QED
  BY <1>1, AlwaysExplained, PTL

\* A chain has as many blocks as its length says.
LEMMA CountIs ==
  ASSUME NEW c \in Seq(Blocks), Distinct(c), NEW l, l \notin Elements(c)
  PROVE  Cardinality(Elements(c) \cup {l}) = Len(c) + 1
<1>1. Len(c) \in Nat /\ \A i \in 1 .. Len(c) : c[i] \in Elements(c)
  BY Members DEF Elements
<1>2. PICK f : f = [i \in 1 .. Len(c) |-> c[i]]
  OBVIOUS
<1>3. f \in Bijection(1 .. Len(c), Elements(c))
  <2>1. f \in [1 .. Len(c) -> Elements(c)]
    BY <1>1, <1>2
  <2>2. \A i, j \in 1 .. Len(c) : f[i] = f[j] => i = j
    BY <1>2 DEF Distinct
  <2>3. \A x \in Elements(c) : \E i \in 1 .. Len(c) : f[i] = x
    BY <1>2 DEF Elements
  <2> QED
    BY <2>1, <2>2, <2>3, Fun_IsBij
<1>4. ExistsBijection(1 .. Len(c), Elements(c))
  BY <1>3, Fun_ExistsBij
<1>5. IsFiniteSet(Elements(c)) /\ Cardinality(Elements(c)) = Len(c)
  BY <1>1, <1>4, FS_NatBijection, FS_CountingElements
<1> QED
  BY <1>5, FS_AddElement

\* No block is part of two lists, twice of one, or freed while a list that is
\* at rest leads to it: what the calls of others free and take is never theirs.
THEOREM NothingIsShared == CrashSpec => []NothingShared
<1>1. ASSUME NEW ch, Inv(ch), NEW l \in Quiet
      PROVE  /\ Nodes(l) \cup {l} \subseteq live
             /\ Cardinality(Nodes(l) \cup {l}) = SizeOf(l) + 1
             /\ \A k \in Quiet \ {l} : (Nodes(l) \cup {l}) \cap (Nodes(k) \cup {k}) = {}
  <2>1. /\ l \in lists /\ ch[l] \in Seq(Blocks) /\ Intact(l, ch[l])
        /\ Nodes(l) = Elements(ch[l]) /\ Nodes(l) \cup {l} = Body(ch, l)
    BY <1>1, QuietIs
  <2>2. /\ Body(ch, l) \subseteq live /\ l \notin Elements(ch[l]) /\ Distinct(ch[l])
        /\ \A k \in lists : k # l => Body(ch, l) \cap Body(ch, k) = {}
    BY <1>1, <2>1 DEF Inv, Apart
  <2>3. SizeOf(l) = Len(ch[l])
    BY <2>1 DEF Intact, Described
  <2>4. Cardinality(Nodes(l) \cup {l}) = SizeOf(l) + 1
    BY <2>1, <2>2, <2>3, CountIs
  <2>5. \A k \in Quiet \ {l} : k \in lists /\ Nodes(k) \cup {k} = Body(ch, k)
    BY <1>1, QuietIs
  <2> QED
    BY <2>1, <2>2, <2>4, <2>5
<1>2. Explained => NothingShared
  BY <1>1 DEF Explained, NothingShared
<1> QED
  BY <1>2, AlwaysExplained, PTL

\* Without kills no block is lost: each that the allocator has handed out is
\* in a list whenever no call is running.
THEOREM NoBlockIsLost == Spec => []NoLeak
<1>1. AllHeld /\ linked = {} /\ damaged = {} => NoLeak
  <2> SUFFICES ASSUME NEW ch, Inv(ch), Full(ch), linked = {}, damaged = {}, Busy = {}
               PROVE  live = lists \cup UNION {Nodes(l) : l \in lists}
    BY DEF AllHeld, NoLeak
  <2>1. ASSUME NEW l \in lists PROVE Nodes(l) \cup {l} = Body(ch, l)
    BY QuietIs DEF Quiet
  <2>2. \A p \in Procs : Spare(p) = {}
    BY SpareIs DEF Busy
  <2>3. \A b \in live : \E l \in lists : b \in Nodes(l) \cup {l}
    BY <2>1, <2>2 DEF Full
  <2>4. \A l \in lists : Nodes(l) \cup {l} \subseteq live
    BY <2>1 DEF Inv, Apart
  <2> QED
    BY <2>3, <2>4
<1> QED
  BY <1>1, AlwaysHeld, PTL
-----------------------------------------------------------------------------
(***************************************************************************)
(* The lists implement ListStore.  What a list shows are the values along  *)
(* its chain, unless a release has begun to free it or a kill took it.     *)
(***************************************************************************)
Keys(c) == [i \in 1 .. Len(c) |-> disk[c[i]].third]

Shown == lists \ (damaged \cup Removed)
Contents == [l \in Shown |-> Visible(l)]

AskedBy(p) == [op |-> mem[p].op, list |-> mem[p].list, index |-> mem[p].index,
               val |-> mem[p].val]
Did(p) == Popped(p) \/ Dropped(p) \/ (mem[p].op = "update" /\ pc[p] = "save")

\* A reader that walks from head finds the values of the chain.
LEMMA WalkReads ==
  ASSUME NEW c \in Seq(Blocks), Forward(c), NEW h, h = First(c), NEW n, n = Len(c)
  PROVE  [i \in 1 .. n |-> KeyOf(Walk(h, i - 1))] = Keys(c)
<1>1. Len(c) \in Nat
  BY Members
<1>2. ASSUME NEW i \in 1 .. Len(c) PROVE Walk(h, i - 1) = c[i]
  <2>1. i - 1 \in Nat /\ i - 1 < Len(c) /\ (i - 1) + 1 = i
    BY <1>1
  <2> QED
    BY <2>1, WalkIs
<1> QED
  BY <1>2 DEF KeyOf, Keys

\* Nothing but its own call shows a list as released.
LEMMA ShownIs ==
  \A ch, l : \A p \in Procs :
    Inv(ch) /\ (\A q \in Busy \ {p} : mem[q].list # l) /\ (p \in Busy => mem[p].list = l)
      => (l \in Shown <=> l \in lists /\ l \notin damaged /\ ~Dropped(p))
<1> SUFFICES ASSUME NEW ch, NEW l, NEW p \in Procs, Inv(ch),
                    \A q \in Busy \ {p} : mem[q].list # l, p \in Busy => mem[p].list = l
             PROVE  l \in Shown <=> l \in lists /\ l \notin damaged /\ ~Dropped(p)
  OBVIOUS
<1>1. \A q \in Procs : Dropped(q) => q \in Busy
  BY DEF Dropped, Inv, Job, NoCall, Drops, Busy
<1>2. \A q \in Busy : q \in Procs
  BY DEF Busy
<1> QED
  BY <1>1, <1>2 DEF Shown, Removed

LEMMA Reads == \A ch, l : Inv(ch) /\ l \in Shown => Visible(l) = Keys(ch[l])
<1> SUFFICES ASSUME NEW ch, NEW l, Inv(ch), l \in Shown PROVE Visible(l) = Keys(ch[l])
  OBVIOUS
<1>c. PICK c : c = ch[l]
  OBVIOUS
<1>1. l \in lists /\ l \notin damaged /\ c \in Seq(Blocks) /\ Rest(l, ch)
      /\ \A q \in Busy : mem[q].list = l => ~Dropped(q)
  BY <1>c DEF Shown, Removed, Inv
<1>2. CASE \E q \in Busy : mem[q].list = l /\ Popped(q)
  <2>1. PICK q \in Busy : mem[q].list = l /\ Popped(q)
    BY <1>2
  <2>2. (CHOOSE p \in Busy : mem[p].list = l) = q
    <3>1. \A p \in Busy : mem[p].list = l => p = q
      BY <2>1 DEF Inv, OneEach
    <3> QED
      BY <2>1, <3>1
  <2>3. Visible(l) = [i \in 1 .. mem[q].size |-> KeyOf(Walk(mem[q].head, i - 1))]
    BY <1>2, <2>2 DEF Visible
  <2>4. Whole(c) /\ Copied(q, c)
    <3>1. q \in Procs /\ pc[q] # "idle" /\ mem[q].op \in Pops /\ mem[q].op # "create"
      BY <2>1 DEF Busy, Popped, Pops
    <3>2. Popping(q, c)
      BY <1>c, <2>1, <3>1, MidCall DEF Working
    <3> QED
      BY <2>1, <3>2 DEF Popping, Popped, Lone
  <2>5. PICK h, n : h = mem[q].head /\ n = mem[q].size
    OBVIOUS
  <2>6. h = First(c) /\ n = Len(c) /\ Forward(c)
    BY <2>4, <2>5 DEF Whole, Copied
  <2>7. [i \in 1 .. n |-> KeyOf(Walk(h, i - 1))] = Keys(c)
    BY <1>1, <2>6, WalkReads
  <2> QED
    BY <1>c, <2>3, <2>5, <2>7
<1>3. CASE ~\E q \in Busy : mem[q].list = l /\ Popped(q)
  <2>1. Visible(l) = [i \in 1 .. SizeOf(l) |-> KeyOf(Walk(HeadOf(l), i - 1))]
    BY <1>3 DEF Visible
  <2>2. HeadOf(l) = First(c) /\ SizeOf(l) = Len(c) /\ Forward(c)
    <3>1. CASE l \in linked
      BY <1>c, <1>1, <3>1 DEF Rest, Readable
    <3>2. CASE l \notin linked /\ \A q \in Busy : mem[q].list # l
      BY <1>c, <1>1, <3>2 DEF Rest, Intact, Whole, Described
    <3>3. CASE \E q \in Busy : mem[q].list = l
      <4>1. PICK q \in Busy : mem[q].list = l
        BY <3>3
      <4>2. q \in Procs /\ pc[q] # "idle" /\ mem[q].op # "create"
            /\ ~Popped(q) /\ ~Dropped(q)
        BY <1>1, <1>3, <4>1 DEF Busy, Inv, Job
      <4>3. Working(q, c)
        BY <1>c, <4>1, <4>2, MidCall
      <4>4. CASE mem[q].op \in Pushes
        BY <4>1, <4>3, <4>4 DEF Working, Pushing, Described, Waiting, Grown, Whole
      <4>5. CASE mem[q].op \in Pops
        <5>1. Popping(q, c)
          BY <4>3, <4>5 DEF Working
        <5>2. Intact(l, c)
          BY <4>1, <4>2, <4>5, <5>1 DEF Popping, Popped, Lone
        <5> QED
          BY <5>2 DEF Intact, Whole, Described
      <4>6. CASE mem[q].op = "update"
        BY <4>1, <4>3, <4>6 DEF Working, Setting, Intact, Whole, Described
      <4>7. CASE mem[q].op = "release"
        BY <4>1, <4>2, <4>3, <4>7 DEF Working, Dropping, Dropped, Drops, Intact, Whole, Described
      <4> QED
        BY <4>3, <4>4, <4>5, <4>6, <4>7 DEF Working
    <3> QED
      BY <3>1, <3>2, <3>3
  <2>3. PICK h, n : h = HeadOf(l) /\ n = SizeOf(l)
    OBVIOUS
  <2>4. [i \in 1 .. n |-> KeyOf(Walk(h, i - 1))] = Keys(c)
    BY <1>1, <2>2, <2>3, WalkReads
  <2> QED
    BY <1>c, <2>1, <2>3, <2>4
<1> QED
  BY <1>2, <1>3

\* The same of the next state.
LEMMA ShownWillBe ==
  (\A ch, l : \A p \in Procs :
    Inv(ch) /\ (\A q \in Busy \ {p} : mem[q].list # l) /\ (p \in Busy => mem[p].list = l)
      => (l \in Shown <=> l \in lists /\ l \notin damaged /\ ~Dropped(p)))'
  BY ShownIs, PTL

LEMMA WillRead == (\A ch, l : Inv(ch) /\ l \in Shown => Visible(l) = Keys(ch[l]))'
  BY Reads, PTL

\* What a step of p on l leaves as it was.
LEMMA OthersSame ==
  ASSUME NEW ch, NEW ch2, NEW p \in Procs, NEW l, Inv(ch),
         Inv(ch2)', Local(p, l, ch, ch2)
  PROVE  /\ \A q \in Procs \ {p} : AskedBy(q)' = AskedBy(q) /\ (Did(q)' <=> Did(q))
         /\ \A k : k # l => /\ k \in Shown' <=> k \in Shown
                            /\ k \in Shown => Keys(ch2[k])' = Keys(ch[k])
         /\ l \in Shown <=> l \in lists /\ l \notin damaged /\ ~Dropped(p)
         /\ l \in Shown' <=> l \in lists' /\ l \notin damaged' /\ ~Dropped(p)'
<1>1. Local(p, l, ch, ch2) /\ Inv(ch2)'
  OBVIOUS
<1>2. /\ \A q \in Procs \ {p} : pc'[q] = pc[q] /\ mem'[q] = mem[q]
      /\ \A q \in Busy \ {p} : mem[q].list # l
      /\ pc[p] # "idle" => mem[p].list = l
      /\ pc'[p] # "idle" => mem'[p].list = l
      /\ \A k : k # l => /\ k \in lists' <=> k \in lists
                         /\ k \in damaged' <=> k \in damaged
  BY <1>1 DEF Local
<1>3. /\ \A q \in Busy' \ {p} : mem'[q].list # l
      /\ p \in Busy => mem[p].list = l
      /\ p \in Busy' => mem'[p].list = l
  BY <1>2 DEF Busy
<1>4. /\ l \in Shown <=> l \in lists /\ l \notin damaged /\ ~Dropped(p)
      /\ l \in Shown' <=> l \in lists' /\ l \notin damaged' /\ ~Dropped(p)'
  BY <1>1, <1>2, <1>3, ShownIs, ShownWillBe
<1>5. ASSUME NEW k \in lists, k # l
      PROVE  /\ ch2[k] = ch[k] /\ disk'[k] = disk[k]
             /\ \A b \in Elements(ch[k]) : disk'[b] = disk[b]
  <2>1. Body(ch, k) \cap Mine(p, l, ch) = {} /\ Body(ch, k) \subseteq Blocks
    BY <1>5 DEF Inv, Apart, Mine, TypeOK
  <2> QED
    BY <1>1, <1>5, <2>1 DEF Local, Body
<1>6. ASSUME NEW q \in Procs \ {p}
      PROVE  AskedBy(q)' = AskedBy(q) /\ (Dropped(q)' <=> Dropped(q)) /\ (Did(q)' <=> Did(q))
  <2>1. pc'[q] = pc[q] /\ mem'[q] = mem[q]
    BY <1>2
  <2>2. Dropped(q)' <=> Dropped(q)
    <3>1. CASE mem[q].op \in Drops
      <4>1. pc[q] # "idle" /\ q \in Busy /\ mem[q].op # "create"
        BY <3>1 DEF Inv, Job, NoCall, Drops, Busy
      <4>2. mem[q].list \in lists /\ mem[q].list # l
        BY <1>2, <4>1, MidCall
      <4>3. HeadOf(mem[q].list)' = HeadOf(mem[q].list)
        BY <1>5, <2>1, <4>2 DEF HeadOf
      <4> QED
        BY <2>1, <4>3 DEF Dropped
    <3>2. CASE mem[q].op \notin Drops
      BY <2>1, <3>2 DEF Dropped
    <3> QED
      BY <3>1, <3>2
  <2> QED
    BY <2>1, <2>2 DEF AskedBy, Did, Popped
<1>7. ASSUME NEW k, k # l
      PROVE  /\ k \in Shown' <=> k \in Shown
             /\ k \in Shown => Keys(ch2[k])' = Keys(ch[k])
  <2>1. k \in Removed /\ k \in lists => \E q \in Procs \ {p} : mem[q].list = k /\ Dropped(q)
    <3> SUFFICES ASSUME k \in Removed
                 PROVE  \E q \in Procs \ {p} : mem[q].list = k /\ Dropped(q)
      OBVIOUS
    <3>1. PICK q \in Busy : mem[q].list = k /\ Dropped(q)
      BY DEF Removed
    <3> QED
      BY <1>2, <1>7, <3>1 DEF Busy
  <2>2. k \in Removed' /\ k \in lists' => \E q \in Procs \ {p} : mem'[q].list = k /\ Dropped(q)'
    <3> SUFFICES ASSUME k \in Removed'
                 PROVE  \E q \in Procs \ {p} : mem'[q].list = k /\ Dropped(q)'
      OBVIOUS
    <3>1. PICK q \in Busy' : mem'[q].list = k /\ Dropped(q)'
      BY DEF Removed
    <3> QED
      BY <1>2, <1>7, <3>1 DEF Busy
  <2>3. ASSUME NEW q \in Procs \ {p}, k \in lists
        PROVE  mem'[q].list = k /\ Dropped(q)' <=> mem[q].list = k /\ Dropped(q)
    BY <1>2, <1>6
  <2>4. \A q \in Procs \ {p} : Dropped(q) => q \in Busy
    BY DEF Dropped, Inv, Job, NoCall, Drops, Busy
  <2>5. \A q \in Procs \ {p} : Dropped(q)' => q \in Busy'
    BY <1>2, <1>6, <2>4 DEF Busy
  <2>6. k \in Shown' <=> k \in Shown
    <3>1. k \in lists' <=> k \in lists
      BY <1>2, <1>7
    <3>2. k \in damaged' <=> k \in damaged
      BY <1>2, <1>7
    <3>3. k \in lists => (k \in Removed' <=> k \in Removed)
      BY <2>1, <2>2, <2>3, <2>4, <2>5, <3>1 DEF Removed
    <3> QED
      BY <3>1, <3>2, <3>3 DEF Shown
  <2>7. k \in Shown => Keys(ch2[k])' = Keys(ch[k])
    <3> SUFFICES ASSUME k \in lists PROVE Keys(ch2[k])' = Keys(ch[k])
      BY DEF Shown
    <3>1. \A i \in 1 .. Len(ch[k]) : disk'[ch[k][i]] = disk[ch[k][i]]
      BY <1>5, <1>7 DEF Elements
    <3>2. ch2[k] = ch[k]
      BY <1>5, <1>7
    <3> QED
      BY <3>1, <3>2 DEF Keys
  <2> QED
    BY <2>6, <2>7
<1> QED
  BY <1>4, <1>6, <1>7

\* What such a step leaves of the contents.
LEMMA Frames ==
  ASSUME NEW ch, NEW ch2, NEW p \in Procs, NEW l, Inv(ch),
         Inv(ch2)', Local(p, l, ch, ch2), NEW s, l \in Shown' => s = Keys(ch2[l])'
  PROVE  /\ Contents = [k \in Shown |-> Visible(k)] /\ Contents' = [k \in Shown' |-> Visible(k)']
         /\ \A k : k # l => /\ k \in Shown' <=> k \in Shown
                            /\ k \in Shown => Visible(k)' = Visible(k)
         /\ l \in Shown => Visible(l) = Keys(ch[l])
         /\ l \in Shown' => Visible(l)' = s
<1>1. /\ Contents = [k \in Shown |-> Visible(k)]
      /\ Contents' = [k \in Shown' |-> Visible(k)']
  BY DEF Contents
<1>2. \A k \in Shown : Visible(k) = Keys(ch[k])
  BY Reads
<1>3. \A k \in Shown' : Visible(k)' = Keys(ch2[k])'
  BY WillRead
<1>4. \A k : k # l => /\ k \in Shown' <=> k \in Shown
                      /\ k \in Shown => Keys(ch2[k])' = Keys(ch[k])
  BY OthersSame
<1>5. \A k : k # l => /\ k \in Shown' <=> k \in Shown
                      /\ k \in Shown => Visible(k)' = Visible(k)
  BY <1>2, <1>3, <1>4
<1>6. (l \in Shown => Visible(l) = Keys(ch[l])) /\ (l \in Shown' => Visible(l)' = s)
  BY <1>2, <1>3
<1> QED
  BY <1>1, <1>5, <1>6

\* A list that stays as it was.
LEMMA Stays ==
  ASSUME NEW ch, NEW ch2, NEW p \in Procs, NEW l, Inv(ch),
         Inv(ch2)', Local(p, l, ch, ch2), NEW s, l \in Shown' => s = Keys(ch2[l])',
         l \in Shown <=> l \in Shown', l \in Shown => s = Keys(ch[l])
  PROVE  Contents' = Contents
<1>1. Contents = [k \in Shown |-> Visible(k)] /\ Contents' = [k \in Shown' |-> Visible(k)']
  BY Frames
<1>2. \A k : k # l => /\ k \in Shown' <=> k \in Shown
                      /\ k \in Shown => Visible(k)' = Visible(k)
  BY Frames
<1>3. (l \in Shown => Visible(l) = Keys(ch[l])) /\ (l \in Shown' => Visible(l)' = s)
  BY Frames
<1>5. ASSUME NEW k PROVE k \in Shown' <=> k \in Shown
  BY <1>2
<1>6. Shown' = Shown /\ \A k \in Shown : Visible(k)' = Visible(k)
  BY <1>2, <1>3, <1>5
<1> QED
  BY <1>1, <1>6

\* One that changes.
LEMMA Turned ==
  ASSUME NEW ch, NEW ch2, NEW p \in Procs, NEW l, Inv(ch),
         Inv(ch2)', Local(p, l, ch, ch2), NEW s, l \in Shown' => s = Keys(ch2[l])', l \in Shown, l \in Shown'
  PROVE  /\ l \in DOMAIN Contents /\ Contents[l] = Keys(ch[l])
         /\ Contents' = [Contents EXCEPT ![l] = s]
<1>1. Contents = [k \in Shown |-> Visible(k)] /\ Contents' = [k \in Shown' |-> Visible(k)']
  BY Frames
<1>2. \A k : k # l => /\ k \in Shown' <=> k \in Shown
                      /\ k \in Shown => Visible(k)' = Visible(k)
  BY Frames
<1>3. (l \in Shown => Visible(l) = Keys(ch[l])) /\ (l \in Shown' => Visible(l)' = s)
  BY Frames
<1>4. DOMAIN Contents = Shown /\ \A k \in Shown : Contents[k] = Visible(k)
  BY <1>1
<1>5. ASSUME NEW k PROVE k \in Shown' <=> k \in Shown
  BY <1>2
<1>6. Shown' = Shown /\ \A k \in Shown : Visible(k)' = IF k = l THEN s ELSE Visible(k)
  BY <1>2, <1>3, <1>5
<1>7. Contents' = [Contents EXCEPT ![l] = s]
  BY <1>1, <1>6
<1> QED
  BY <1>3, <1>4, <1>7

\* One that is gone.
LEMMA Gone ==
  ASSUME NEW ch, NEW ch2, NEW p \in Procs, NEW l, Inv(ch),
         Inv(ch2)', Local(p, l, ch, ch2), NEW s, l \in Shown' => s = Keys(ch2[l])', l \in Shown, l \notin Shown'
  PROVE  Contents' = [m \in DOMAIN Contents \ {l} |-> Contents[m]]
<1>1. Contents = [k \in Shown |-> Visible(k)] /\ Contents' = [k \in Shown' |-> Visible(k)']
  BY Frames
<1>2. \A k : k # l => /\ k \in Shown' <=> k \in Shown
                      /\ k \in Shown => Visible(k)' = Visible(k)
  BY Frames
<1>3. (l \in Shown => Visible(l) = Keys(ch[l])) /\ (l \in Shown' => Visible(l)' = s)
  BY Frames
<1>4. DOMAIN Contents = Shown /\ \A k \in Shown : Contents[k] = Visible(k)
  BY <1>1
<1>5. ASSUME NEW k PROVE k \in Shown' <=> (k \in Shown /\ k # l)
  BY <1>2
<1>6. Shown' = Shown \ {l} /\ \A k \in Shown' : Visible(k)' = Visible(k)
  BY <1>2, <1>5
<1> QED
  BY <1>1, <1>4, <1>6

(***************************************************************************)
(* The steps of ListStore, in those terms.                                 *)
(***************************************************************************)
\* p's call is the only one that changes.
Alone(p) == \A q \in Procs \ {p} : AskedBy(q)' = AskedBy(q) /\ (Did(q)' <=> Did(q))

LEMMA Asks ==
  ASSUME NEW p \in Procs, Alone(p), mem[p].op = "none", AskedBy(p)' \in Store!Request,
         mem'[p].op = "create" \/ mem'[p].list \in Shown, ~Did(p)', Contents' = Contents
  PROVE  Store!Ask(p)
  BY DEF Alone, Store!Ask, Store!Others, AskedBy, Did, Contents, Shown

LEMMA Acts ==
  ASSUME NEW p \in Procs, Alone(p), ~Did(p),
         \/ AskedBy(p)' = AskedBy(p) /\ Did(p)'
         \/ mem'[p].op = "none" /\ ~Did(p)',
         Store!Effect(AskedBy(p))
  PROVE  Store!Act(p)
  BY DEF Alone, Store!Act, Store!Others, AskedBy, Did

LEMMA Returns ==
  ASSUME NEW p \in Procs, Alone(p), Did(p), mem'[p].op = "none", ~Did(p)',
         Contents' = Contents
  PROVE  Store!Return(p)
  BY DEF Alone, Store!Return, Store!Others, AskedBy, Did, Contents, Shown

LEMMA Dies ==
  ASSUME NEW p \in Procs, Alone(p), mem[p].op # "none", mem'[p].op = "none", ~Did(p)',
         \/ Contents' = Contents
         \/ /\ Did(p) /\ mem[p].op \in {"pop_tail", "pop_head"}
            /\ Contents' = [m \in DOMAIN Contents \ {mem[p].list} |-> Contents[m]]
  PROVE  Store!Die(p)
  BY DEF Alone, Store!Die, Store!Others, Store!Erase, AskedBy, Did, Contents, Shown

LEMMA Stutters ==
  ASSUME NEW p \in Procs, Alone(p), AskedBy(p)' = AskedBy(p), Did(p)' <=> Did(p),
         Contents' = Contents
  PROVE  UNCHANGED Store!vars
<1>1. [q \in Procs |-> AskedBy(q)]' = [q \in Procs |-> AskedBy(q)]
  BY DEF Alone
<1>2. [q \in Procs |-> Did(q)]' = [q \in Procs |-> Did(q)]
  BY DEF Alone, Did
<1> QED
  BY <1>1, <1>2 DEF Store!vars, AskedBy, Did, Contents, Shown

(***************************************************************************)
(* The values along a chain that grows, shrinks or changes.                *)
(***************************************************************************)
Stored == Values \cup Nat

LEMMA KeysAre ==
  ASSUME disk \in [Blocks -> Block], NEW c \in Seq(Blocks)
  PROVE  /\ Keys(c) \in Seq(Stored) /\ Len(Keys(c)) = Len(c)
         /\ \A i \in 1 .. Len(c) : Keys(c)[i] = disk[c[i]].third
  BY Members DEF Keys, Stored, Block

LEMMA KeysWillBe ==
  ASSUME disk' \in [Blocks -> Block], NEW c \in Seq(Blocks)
  PROVE  /\ Keys(c)' \in Seq(Stored) /\ Len(Keys(c)') = Len(c)
         /\ \A i \in 1 .. Len(c) : Keys(c)'[i] = disk'[c[i]].third
  BY Members DEF Keys, Stored, Block

\* The sequence operators of ListStore, element by element.
LEMMA IsAppend ==
  ASSUME NEW S, NEW s \in Seq(S), NEW t \in Seq(S), Len(t) = Len(s) + 1,
         \A i \in 1 .. Len(s) : t[i] = s[i]
  PROVE  t = Append(s, t[Len(s) + 1])
  OBVIOUS

LEMMA IsCons ==
  ASSUME NEW S, NEW s \in Seq(S), NEW t \in Seq(S), Len(t) = Len(s) + 1,
         \A i \in 1 .. Len(s) : t[i + 1] = s[i]
  PROVE  t = Store!Cons(t[1], s)
<1>1. PICK u : u = <<t[1]>> \o s
  OBVIOUS
<1>2. /\ u \in Seq(S) /\ Len(u) = Len(s) + 1 /\ u[1] = t[1]
      /\ \A i \in 2 .. Len(s) + 1 : u[i] = s[i - 1]
  BY <1>1
<1>3. ASSUME NEW i \in 2 .. Len(s) + 1 PROVE t[i] = s[i - 1]
  <2>1. i - 1 \in 1 .. Len(s) /\ (i - 1) + 1 = i
    OBVIOUS
  <2> QED
    BY <2>1
<1>4. \A i \in 1 .. Len(t) : t[i] = u[i]
  BY <1>2, <1>3
<1>5. t = u
  BY <1>2, <1>4, SeqEqual
<1> QED
  BY <1>1, <1>5 DEF Store!Cons

LEMMA IsFront ==
  ASSUME NEW S, NEW s \in Seq(S), NEW t \in Seq(S), s # <<>>, Len(t) = Len(s) - 1,
         \A i \in 1 .. Len(t) : t[i] = s[i]
  PROVE  t = Store!Front(s)
  BY DEF Store!Front

LEMMA IsTail ==
  ASSUME NEW S, NEW s \in Seq(S), NEW t \in Seq(S), s # <<>>, Len(t) = Len(s) - 1,
         \A i \in 1 .. Len(t) : t[i] = s[i + 1]
  PROVE  t = Tail(s)
  OBVIOUS

LEMMA IsExcept ==
  ASSUME NEW S, NEW s \in Seq(S), NEW t \in Seq(S), Len(t) = Len(s), NEW j \in 1 .. Len(s),
         \A i \in 1 .. Len(s) : i # j => t[i] = s[i]
  PROVE  t = [s EXCEPT ![j] = t[j]]
  OBVIOUS

(***************************************************************************)
(* The calls that start.                                                   *)
(***************************************************************************)
LEMMA StartAsks ==
  ASSUME NEW ch, NEW p \in Procs, NEW l, Inv(ch), Keeps(p, l, ch, ch),
         pc[p] = "idle", mem'[p].list = l, mem'[p].op \in Ops \ {"clear"},
         mem'[p].op = "create" \/ l \in lists \ damaged,
         UNCHANGED <<disk, lists, damaged>>,
         ~Dropped(p)', pc'[p] # "save" \/ mem'[p].op = "create",
         pc'[p] = "free" => mem'[p].head = NULL
  PROVE  Store!Ask(p)
<1>1. Inv(ch)' /\ Local(p, l, ch, ch) /\ TypeOK'
  BY DEF Keeps, Inv
<1>2. mem[p] = NoCall
  BY DEF Inv, Job
<1>3. mem[p].op = "none" /\ ~Dropped(p)
  BY <1>2 DEF NoCall, Dropped, Drops
<1>4. ~Did(p)'
  BY DEF Did, Popped, Pops
<1>5. /\ Alone(p)
      /\ l \in Shown <=> l \in lists /\ l \notin damaged
      /\ l \in Shown' <=> l \in lists /\ l \notin damaged
  BY <1>1, <1>3, OthersSame DEF Alone
<1>6. PICK s : s = Keys(ch[l])
  OBVIOUS
<1>7. s = Keys(ch[l])'
  BY <1>6 DEF Keys
<1>8. Contents' = Contents
  BY <1>1, <1>5, <1>6, <1>7, Stays
<1>9. AskedBy(p)' \in Store!Request
  BY <1>1 DEF TypeOK, Call, AskedBy, Store!Request, Ops, Pushes, Pops, Drops
<1> QED
  BY <1>3, <1>4, <1>5, <1>8, <1>9, Asks

LEMMA StartsAsk ==
  ASSUME NEW ch, Inv(ch), NEW p \in Procs, Start(p)
  PROVE  Store!Ask(p)
<1>1. CASE Create(p)
  <2>1. PICK l : l = mem'[p].list
    OBVIOUS
  <2>2. Keeps(p, l, ch, ch)
    BY <1>1, <2>1, CreateKeeps
  <2>3. mem \in [Procs -> Call] /\ pc \in [Procs -> {"idle", "alloc", "link", "write", "unlink", "free", "set",
                       "drop", "save"}]
    BY DEF Inv, TypeOK
  <2>4. /\ pc[p] = "idle" /\ pc'[p] = "save" /\ mem'[p].op = "create"
        /\ UNCHANGED <<disk, lists, damaged>>
    BY <1>1, <2>3 DEF Create, Begin, NoCall, history
  <2>5. ~Dropped(p)'
    BY <2>4 DEF Dropped, Drops
  <2> QED
    BY <2>1, <2>2, <2>4, <2>5, StartAsks DEF Ops
<1>a. ASSUME NEW l \in lists, Exclusive(l), NEW label \in {"alloc", "unlink", "free", "set", "drop"},
             NEW m \in Call, m.list = l, m.op \in Ops \ {"clear", "create"},
             Begin(p, label, m), UNCHANGED <<disk, lists, damaged>>,
             m.op = "release" => m.x = HeadOf(l), label = "free" => m.head = NULL,
             Keeps(p, l, ch, ch)
      PROVE  Store!Ask(p)
  <2>1. pc[p] = "idle" /\ pc'[p] = label /\ mem'[p] = m
    BY <1>a DEF Begin, Inv, TypeOK
  <2>2. ~Dropped(p)'
    BY <1>a, <2>1 DEF Dropped, Drops, HeadOf
  <2>3. l \in lists \ damaged
    BY <1>a DEF Exclusive
  <2> QED
    BY <1>a, <2>1, <2>2, <2>3, StartAsks
<1>2. ASSUME NEW l \in lists, NEW op \in Pushes, NEW v \in Values, Push(p, op, l, v)
      PROVE  Store!Ask(p)
  <2>1. PICK r : r = Load(op, l)
    OBVIOUS
  <2>2. r \in Call /\ r.op = op /\ r.list = l
    BY <1>2, <2>1, Loaded DEF Push, Ops
  <2>3. PICK m : m = [r EXCEPT !.size = @ + 1, !.val = v]
    OBVIOUS
  <2>4. m \in Call /\ m.op = op /\ m.list = l
    BY <2>2, <2>3, OneMore
  <2>5. Exclusive(l) /\ Begin(p, "alloc", m) /\ UNCHANGED <<disk, lists, damaged>>
    BY <1>2, <2>1, <2>3 DEF Push, history
  <2> QED
    BY <1>2, <1>a, <2>4, <2>5, PushKeeps DEF Ops, Pushes
<1>3. ASSUME NEW l \in lists, NEW i \in 0 .. SizeOf(l), NEW v \in Values, Update(p, l, i, v)
      PROVE  Store!Ask(p)
  <2>1. PICK m : m = [Load("update", l) EXCEPT !.x = Walk(HeadOf(l), i), !.val = v, !.index = i]
    OBVIOUS
  <2>2. Exclusive(l) /\ Begin(p, "set", m) /\ UNCHANGED <<disk, lists, damaged>>
    BY <1>3, <2>1 DEF Update, history
  <2>3. Keeps(p, l, ch, ch)
    BY <1>3, UpdateKeeps
  <2>4. m \in Call /\ m.op = "update" /\ m.list = l
    <3>1. mem'[p] = m
      BY <2>2 DEF Begin, Inv, TypeOK
    <3>2. m \in Call
      BY <2>3, <3>1 DEF Keeps, Inv, TypeOK
    <3>3. PICK r : r = Load("update", l)
      OBVIOUS
    <3>4. r \in Call /\ r.op = "update" /\ r.list = l
      BY <2>2, <3>3, Loaded DEF Ops
    <3> QED
      BY <2>1, <3>2, <3>3, <3>4 DEF Call
  <2> QED
    BY <1>a, <2>2, <2>3, <2>4 DEF Ops
<1>4. ASSUME NEW l \in lists, PopTail(p, l) PROVE Store!Ask(p)
  <2>1. PICK t : t = TailOf(l)
    OBVIOUS
  <2>2. PICK new : new = PrevOf(t)
    OBVIOUS
  <2>3. PICK r : r = Load("pop_tail", l)
    OBVIOUS
  <2>4. PICK m : m = [r EXCEPT !.size = @ - 1, !.x = t, !.tail = new]
    OBVIOUS
  <2>5. PICK n : n = [m EXCEPT !.head = NULL]
    OBVIOUS
  <2>6. /\ Exclusive(l)
        /\ \/ Begin(p, "unlink", m)
           \/ new = NULL /\ Begin(p, "free", n)
        /\ UNCHANGED <<disk, lists, damaged>>
    BY <1>4, <2>1, <2>2, <2>3, <2>4, <2>5 DEF PopTail, history
  <2>7. r \in Call /\ r.op = "pop_tail" /\ r.list = l
    BY <2>3, <2>6, Loaded DEF Ops, Pops
  <2>8. m.op = "pop_tail" /\ m.list = l /\ m.tail = new
    BY <2>4, <2>7 DEF Call
  <2>9. Keeps(p, l, ch, ch)
    BY <1>4, PopTailKeeps
  <2>10. CASE Begin(p, "unlink", m)
    <3>1. mem'[p] = m
      BY <2>10 DEF Begin, Inv, TypeOK
    <3>2. m \in Call
      BY <2>9, <3>1 DEF Keeps, Inv, TypeOK
    <3> QED
      BY <1>a, <2>6, <2>8, <2>9, <2>10, <3>2 DEF Ops, Pops
  <2>11. CASE new = NULL /\ Begin(p, "free", n)
    <3>1. mem'[p] = n
      BY <2>11 DEF Begin, Inv, TypeOK
    <3>2. n \in Call
      BY <2>9, <3>1 DEF Keeps, Inv, TypeOK
    <3>3. n.op = "pop_tail" /\ n.list = l /\ n.head = NULL
      BY <2>4, <2>5, <2>7, <2>8, <2>11, <3>2 DEF Call
    <3> QED
      BY <1>a, <2>6, <2>9, <2>11, <3>2, <3>3 DEF Ops, Pops
  <2> QED
    BY <2>6, <2>10, <2>11
<1>5. ASSUME NEW l \in lists, PopHead(p, l) PROVE Store!Ask(p)
  <2>1. PICK t : t = HeadOf(l)
    OBVIOUS
  <2>2. PICK new : new = SuccOf(t)
    OBVIOUS
  <2>3. PICK r : r = Load("pop_head", l)
    OBVIOUS
  <2>4. PICK m : m = [r EXCEPT !.size = @ - 1, !.x = t, !.head = new]
    OBVIOUS
  <2>5. PICK n : n = [m EXCEPT !.tail = NULL]
    OBVIOUS
  <2>6. /\ Exclusive(l)
        /\ \/ Begin(p, "unlink", m)
           \/ new = NULL /\ Begin(p, "free", n)
        /\ UNCHANGED <<disk, lists, damaged>>
    BY <1>5, <2>1, <2>2, <2>3, <2>4, <2>5 DEF PopHead, history
  <2>7. r \in Call /\ r.op = "pop_head" /\ r.list = l
    BY <2>3, <2>6, Loaded DEF Ops, Pops
  <2>8. m.op = "pop_head" /\ m.list = l /\ m.head = new
    BY <2>4, <2>7 DEF Call
  <2>9. Keeps(p, l, ch, ch)
    BY <1>5, PopHeadKeeps
  <2>10. CASE Begin(p, "unlink", m)
    <3>1. mem'[p] = m
      BY <2>10 DEF Begin, Inv, TypeOK
    <3>2. m \in Call
      BY <2>9, <3>1 DEF Keeps, Inv, TypeOK
    <3> QED
      BY <1>a, <2>6, <2>8, <2>9, <2>10, <3>2 DEF Ops, Pops
  <2>11. CASE new = NULL /\ Begin(p, "free", n)
    <3>1. mem'[p] = n
      BY <2>11 DEF Begin, Inv, TypeOK
    <3>2. n \in Call
      BY <2>9, <3>1 DEF Keeps, Inv, TypeOK
    <3>3. n.op = "pop_head" /\ n.list = l /\ n.head = NULL
      BY <2>4, <2>5, <2>7, <2>8, <2>11, <3>2 DEF Call
    <3> QED
      BY <1>a, <2>6, <2>9, <2>11, <3>2, <3>3 DEF Ops, Pops
  <2> QED
    BY <2>6, <2>10, <2>11
<1>6. ASSUME NEW l \in lists, Drop(p, "release", l) PROVE Store!Ask(p)
  <2>1. PICK r : r = Load("release", l)
    OBVIOUS
  <2>2. r \in Call /\ r.op = "release" /\ r.list = l
    BY <1>6, <2>1, Loaded DEF Drop, Ops, Drops
  <2>3. PICK m : m = [r EXCEPT !.x = HeadOf(l)]
    OBVIOUS
  <2>4. Exclusive(l) /\ Begin(p, "drop", m) /\ UNCHANGED <<disk, lists, damaged>>
    BY <1>6, <2>1, <2>3 DEF Drop, history
  <2>5. Keeps(p, l, ch, ch)
    BY <1>6, DropKeeps
  <2>6. m \in Call /\ m.op = "release" /\ m.list = l /\ m.x = HeadOf(l)
    <3>1. mem'[p] = m
      BY <2>4 DEF Begin, Inv, TypeOK
    <3>2. m \in Call
      BY <2>5, <3>1 DEF Keeps, Inv, TypeOK
    <3> QED
      BY <2>2, <2>3, <3>2 DEF Call
  <2> QED
    BY <1>a, <2>4, <2>5, <2>6 DEF Ops, Drops
<1> QED
  BY <1>1, <1>2, <1>3, <1>4, <1>5, <1>6 DEF Start

(***************************************************************************)
(* The steps of a call.                                                    *)
(***************************************************************************)
\* Steps that nobody sees from outside.
LEMMA Silence ==
  ASSUME NEW ch, NEW ch2, NEW p \in Procs, NEW l, Inv(ch), Keeps(p, l, ch, ch2),
         UNCHANGED <<lists, damaged>>, AskedBy(p)' = AskedBy(p),
         Did(p)' <=> Did(p), Dropped(p)' <=> Dropped(p),
         ~Dropped(p) => Keys(ch2[l])' = Keys(ch[l])
  PROVE  Store!vars' = Store!vars
<1>1. Inv(ch2)' /\ Local(p, l, ch, ch2)
  BY DEF Keeps
<1>2. /\ Alone(p)
      /\ l \in Shown <=> l \in lists /\ l \notin damaged /\ ~Dropped(p)
      /\ l \in Shown' <=> l \in lists /\ l \notin damaged /\ ~Dropped(p)
  BY <1>1, OthersSame DEF Alone
<1>3. PICK s : s = Keys(ch2[l])'
  OBVIOUS
<1>5. Contents' = Contents
  BY <1>1, <1>3, <1>2, Stays
<1> QED
  BY <1>2, <1>5, Stutters

\* Steps that change what the list shows.
LEMMA Changes ==
  ASSUME NEW ch, NEW ch2, NEW p \in Procs, NEW l, Inv(ch), Keeps(p, l, ch, ch2),
         l \in lists, l \in lists', l \notin damaged, UNCHANGED damaged,
         ~Dropped(p), ~Dropped(p)', NEW s, s = Keys(ch2[l])'
  PROVE  /\ Alone(p) /\ l \in DOMAIN Contents /\ Contents[l] = Keys(ch[l])
         /\ Contents' = [Contents EXCEPT ![l] = s]
<1>1. Inv(ch2)' /\ Local(p, l, ch, ch2)
  BY DEF Keeps
<1>2. Alone(p) /\ l \in Shown /\ l \in Shown'
  BY <1>1, OthersSame DEF Alone
<1> QED
  BY <1>1, <1>2, Turned

LEMMA PushAllocStutters ==
  ASSUME NEW ch, Inv(ch), NEW p \in Procs, PushAlloc(p)
  PROVE  Store!vars' = Store!vars
<1>l. PICK l : l = mem[p].list
  OBVIOUS
<1>c. PICK c : c = ch[l]
  OBVIOUS
<1>d. PICK ch2 : ch2 = [ch EXCEPT ![l] = c]
  OBVIOUS
<1>1. pc[p] # "idle" /\ mem[p].op \in Pushes /\ mem[p].op # "create"
  BY WhoWrites DEF PushAlloc, Goto
<1>2. l \in lists /\ ch \in [lists -> Seq(Blocks)] /\ TypeOK
  BY <1>l, <1>1, MidCall
<1>3. /\ UNCHANGED <<disk, lists, damaged>>
      /\ mem'[p].op = mem[p].op /\ AskedBy(p)' = AskedBy(p)
  BY <1>2 DEF PushAlloc, AskedBy, TypeOK, Call, history
<1>4. ~Did(p) /\ ~Did(p)' /\ ~Dropped(p) /\ ~Dropped(p)'
  BY <1>1, <1>3 DEF Did, Popped, Dropped, Pushes, Pops, Drops
<1>5. Keeps(p, l, ch, ch2)
  BY <1>l, <1>c, <1>d, PushAllocKeeps
<1>6. Keys(ch2[l])' = Keys(ch[l])
  BY <1>c, <1>d, <1>2, <1>3 DEF Keys
<1> QED
  BY <1>3, <1>4, <1>5, <1>6, Silence

\* A link is written, no value changes.
LEMMA LinksAreNoValues ==
  ASSUME disk \in [Blocks -> Block], NEW a \in Blocks, NEW x \in Loc,
         disk' = [disk EXCEPT ![a].second = x] \/ disk' = [disk EXCEPT ![a].first = x]
  PROVE  disk' \in [Blocks -> Block] /\ \A b \in Blocks : disk'[b].third = disk[b].third
  BY DEF Block

LEMMA PushLinkStutters ==
  ASSUME NEW ch, Inv(ch), NEW p \in Procs, PushLink(p)
  PROVE  Store!vars' = Store!vars
<1>l. PICK l : l = mem[p].list
  OBVIOUS
<1>c. PICK c : c = ch[l]
  OBVIOUS
<1>d. PICK ch2 : ch2 = [ch EXCEPT ![l] = c]
  OBVIOUS
<1>m. PICK m : m = mem[p]
  OBVIOUS
<1>1. pc[p] = "link" /\ pc[p] # "idle" /\ mem[p].op \in Pushes /\ mem[p].op # "create"
  BY WhoWrites DEF PushLink, Goto
<1>2. /\ l \in lists /\ ch \in [lists -> Seq(Blocks)] /\ TypeOK
      /\ c \in Seq(Blocks) /\ Working(p, c)
  BY <1>l, <1>c, <1>1, MidCall
<1>3. /\ UNCHANGED <<lists, damaged>>
      /\ mem'[p].op = mem[p].op /\ AskedBy(p)' = AskedBy(p)
  <2>1. PICK n1 : n1 = [m EXCEPT !.prev = m.tail, !.tail = m.x]
    OBVIOUS
  <2>2. PICK n2 : n2 = [m EXCEPT !.succ = m.head, !.head = m.x]
    OBVIOUS
  <2>a. m \in Call
    BY <1>2, <1>m DEF TypeOK
  <2>b. n1.op = m.op /\ n1.list = m.list /\ n1.index = m.index /\ n1.val = m.val
    BY <2>1, <2>a DEF Call
  <2>c. n2.op = m.op /\ n2.list = m.list /\ n2.index = m.index /\ n2.val = m.val
    BY <2>2, <2>a DEF Call
  <2>4. mem'[p] \in {n1, n2}
    BY <1>2, <1>m, <2>1, <2>2 DEF PushLink, TypeOK
  <2>5. AskedBy(p)' = AskedBy(p) /\ mem'[p].op = mem[p].op
    BY <1>m, <2>b, <2>c, <2>4 DEF AskedBy
  <2> QED
    BY <2>5 DEF PushLink, history
<1>4. ~Did(p) /\ ~Did(p)' /\ ~Dropped(p) /\ ~Dropped(p)'
  BY <1>1, <1>3 DEF Did, Popped, Dropped, Pushes, Pops, Drops
<1>5. Keeps(p, l, ch, ch2)
  BY <1>l, <1>c, <1>d, PushLinkKeeps
<1>6. \A b \in Blocks : disk'[b].third = disk[b].third
  <2>1. c # <<>> /\ m.head = First(c) /\ m.tail = Final(c) /\ m.x \in Blocks
    BY <1>m, <1>1, <1>2 DEF Working, Pushing, Waiting
  <2>2. m.head \in Blocks /\ m.tail \in Blocks /\ m.x \in Loc
    BY <1>2, <2>1, Members DEF Loc
  <2>3. \/ disk' = [disk EXCEPT ![m.tail].second = m.x]
        \/ disk' = [disk EXCEPT ![m.head].first = m.x]
    BY <1>m DEF PushLink
  <2> QED
    BY <1>2, <2>2, <2>3, LinksAreNoValues DEF TypeOK
<1>7. Keys(ch2[l])' = Keys(ch[l])
  BY <1>c, <1>d, <1>2, <1>6, Members DEF Keys
<1> QED
  BY <1>3, <1>4, <1>5, <1>7, Silence

LEMMA PushWriteStutters ==
  ASSUME NEW ch, Inv(ch), NEW p \in Procs, PushWrite(p)
  PROVE  Store!vars' = Store!vars
<1>l. PICK l : l = mem[p].list
  OBVIOUS
<1>c. PICK c : c = ch[l]
  OBVIOUS
<1>d. PICK ch2 : ch2 = [ch EXCEPT ![l] = c]
  OBVIOUS
<1>1. pc[p] = "write" /\ pc[p] # "idle" /\ mem[p].op \in Pushes /\ mem[p].op # "create"
  BY WhoWrites DEF PushWrite, Goto
<1>2. /\ l \in lists /\ ch \in [lists -> Seq(Blocks)] /\ TypeOK
      /\ c \in Seq(Blocks) /\ Spare(p) \cap (Elements(c) \cup {l}) = {}
  BY <1>l, <1>c, <1>1, MidCall
<1>3. /\ UNCHANGED <<lists, damaged, mem>> /\ AskedBy(p)' = AskedBy(p)
  BY DEF PushWrite, AskedBy, history
<1>4. ~Did(p) /\ ~Did(p)' /\ ~Dropped(p) /\ ~Dropped(p)'
  BY <1>1, <1>3 DEF Did, Popped, Dropped, Pushes, Pops, Drops
<1>5. Keeps(p, l, ch, ch2)
  BY <1>l, <1>c, <1>d, PushWriteKeeps
<1>6. \A b \in Elements(c) : disk'[b] = disk[b]
  <2>1. mem[p].x \notin Elements(c)
    BY <1>1, <1>2, SpareIs
  <2> QED
    BY <1>2, <2>1, Members DEF PushWrite, TypeOK, Elements
<1>7. Keys(ch2[l])' = Keys(ch[l])
  BY <1>c, <1>d, <1>2, <1>6, Members DEF Keys, Elements
<1> QED
  BY <1>3, <1>4, <1>5, <1>7, Silence

\* A pop takes the value at its end.
LEMMA PopEffect ==
  ASSUME NEW p \in Procs, NEW l, l = mem[p].list, NEW s, NEW old, Contents[l] = old,
         Contents' = [Contents EXCEPT ![l] = s], old # <<>>,
         \/ mem[p].op = "pop_tail" /\ s = Store!Front(old)
         \/ mem[p].op = "pop_head" /\ s = Tail(old)
  PROVE  Store!Effect(AskedBy(p))
<1>1. PICK r : r = AskedBy(p)
  OBVIOUS
<1>2. r.op = mem[p].op /\ r.list = l
  BY <1>1 DEF AskedBy
<1>3. Store!Effect(r)
  BY <1>2 DEF Store!Effect, Store!Become, Contents, Shown
<1> QED
  BY <1>1, <1>3

LEMMA PopValues ==
  ASSUME disk \in [Blocks -> Block], disk' \in [Blocks -> Block],
         \A b \in Blocks : disk'[b].third = disk[b].third,
         NEW c \in Seq(Blocks), c # <<>>, NEW p \in Procs, mem[p].op \in Pops,
         NEW d, d = Without(p, c), NEW old, old = Keys(c), NEW s, s = Keys(d)'
  PROVE  /\ old # <<>>
         /\ \/ mem[p].op = "pop_tail" /\ s = Store!Front(old)
            \/ mem[p].op = "pop_head" /\ s = Tail(old)
<1>1. /\ old \in Seq(Stored) /\ Len(old) = Len(c)
      /\ \A i \in 1 .. Len(c) : old[i] = disk[c[i]].third
  BY KeysAre
<1>2. Len(c) \in Nat /\ Len(c) # 0 /\ \A i \in 1 .. Len(c) : c[i] \in Blocks
  BY Members
<1>3. old # <<>>
  BY <1>1, <1>2
<1>4. CASE mem[p].op = "pop_tail"
  <2>1. d = Shorter(c)
    BY <1>4 DEF Without
  <2>2. d \in Seq(Blocks) /\ Len(d) = Len(c) - 1 /\ \A i \in 1 .. Len(c) - 1 : d[i] = c[i]
    BY <2>1, ShorterIs
  <2>3. /\ s \in Seq(Stored) /\ Len(s) = Len(d)
        /\ \A i \in 1 .. Len(d) : s[i] = disk'[d[i]].third
    BY <2>2, KeysWillBe
  <2>4. \A i \in 1 .. Len(s) : s[i] = old[i]
    BY <1>1, <1>2, <2>2, <2>3
  <2>5. s = Store!Front(old)
    BY <1>1, <1>3, <2>2, <2>3, <2>4, IsFront
  <2> QED
    BY <1>3, <1>4, <2>5
<1>5. CASE mem[p].op = "pop_head"
  <2>1. d = Beheaded(c)
    BY <1>5 DEF Without
  <2>2. d \in Seq(Blocks) /\ Len(d) = Len(c) - 1 /\ \A i \in 1 .. Len(c) - 1 : d[i] = c[i + 1]
    BY <2>1, BeheadedIs
  <2>3. /\ s \in Seq(Stored) /\ Len(s) = Len(d)
        /\ \A i \in 1 .. Len(d) : s[i] = disk'[d[i]].third
    BY <2>2, KeysWillBe
  <2>4. ASSUME NEW i \in 1 .. Len(s) PROVE s[i] = old[i + 1]
    <3>1. i \in 1 .. Len(d) /\ i \in 1 .. Len(c) - 1 /\ i + 1 \in 1 .. Len(c)
      BY <1>2, <2>2, <2>3
    <3> QED
      BY <1>1, <1>2, <2>2, <2>3, <3>1
  <2>5. s = Tail(old)
    BY <1>1, <1>3, <2>2, <2>3, <2>4, IsTail
  <2> QED
    BY <1>3, <1>5, <2>5
<1> QED
  BY <1>4, <1>5 DEF Pops

LEMMA PopUnlinkActs ==
  ASSUME NEW ch, Inv(ch), NEW p \in Procs, PopUnlink(p)
  PROVE  Store!Act(p)
<1>l. PICK l : l = mem[p].list
  OBVIOUS
<1>c. PICK c : c = ch[l]
  OBVIOUS
<1>d. PICK d : d = Without(p, c)
  OBVIOUS
<1>e. PICK ch2 : ch2 = [ch EXCEPT ![l] = d]
  OBVIOUS
<1>m. PICK m : m = mem[p]
  OBVIOUS
<1>1. pc[p] = "unlink" /\ pc[p] # "idle" /\ mem[p].op \in Pops /\ mem[p].op # "create"
  BY WhoWrites DEF PopUnlink, Goto
<1>2. /\ l \in lists /\ l \notin damaged /\ ch \in [lists -> Seq(Blocks)] /\ TypeOK
      /\ c \in Seq(Blocks) /\ Working(p, c)
  BY <1>l, <1>c, <1>1, MidCall
<1>3. /\ UNCHANGED <<lists, damaged, mem>> /\ AskedBy(p)' = AskedBy(p)
      /\ pc'[p] = "free"
  BY <1>2 DEF PopUnlink, Goto, AskedBy, history, TypeOK
<1>4. /\ c # <<>> /\ m.head \in Blocks /\ m.tail \in Blocks
  <2>1. Popping(p, c)
    BY <1>1, <1>2 DEF Working
  <2>2. /\ Len(c) >= 2
        /\ m.op = "pop_tail" => m.tail = c[Len(c) - 1] /\ m.head = c[1]
        /\ m.op = "pop_head" => m.head = c[2] /\ m.tail = c[Len(c)]
    BY <1>m, <1>1, <2>1 DEF Popping
  <2>3. 1 \in 1 .. Len(c) /\ 2 \in 1 .. Len(c) /\ Len(c) - 1 \in 1 .. Len(c)
        /\ Len(c) \in 1 .. Len(c)
    BY <1>2, <2>2, Members
  <2> QED
    BY <1>m, <1>1, <1>2, <2>2, <2>3, Members DEF Pops
<1>5. ~Did(p) /\ ~Dropped(p) /\ ~Dropped(p)' /\ Did(p)'
  <2>1. m.head # NULL
    BY <1>4, ConstAssumption
  <2> QED
    BY <1>m, <1>1, <1>3, <2>1 DEF Did, Popped, Dropped, Pops, Drops
<1>6. disk' \in [Blocks -> Block] /\ \A b \in Blocks : disk'[b].third = disk[b].third
  <2>1. \/ disk' = [disk EXCEPT ![m.tail].second = NULL]
        \/ disk' = [disk EXCEPT ![m.head].first = NULL]
    BY <1>m DEF PopUnlink
  <2> QED
    BY <1>2, <1>4, <2>1, LinksAreNoValues DEF TypeOK, Loc
<1>7. Keeps(p, l, ch, ch2)
  BY <1>l, <1>c, <1>d, <1>e, PopUnlinkKeeps
<1>8. PICK s : s = Keys(ch2[l])'
  OBVIOUS
<1>9. PICK old : old = Keys(c)
  OBVIOUS
<1>10. /\ Alone(p) /\ Contents[l] = old
       /\ Contents' = [Contents EXCEPT ![l] = s]
  BY <1>c, <1>2, <1>3, <1>5, <1>7, <1>8, <1>9, Changes
<1>11. s = Keys(d)'
  BY <1>e, <1>2, <1>8
<1>12. /\ old # <<>>
       /\ \/ mem[p].op = "pop_tail" /\ s = Store!Front(old)
          \/ mem[p].op = "pop_head" /\ s = Tail(old)
  BY <1>d, <1>1, <1>2, <1>4, <1>6, <1>9, <1>11, PopValues DEF TypeOK
<1>13. Store!Effect(AskedBy(p))
  BY <1>l, <1>10, <1>12, PopEffect
<1> QED
  BY <1>3, <1>5, <1>10, <1>13, Acts

LEMMA PopFreeActs ==
  ASSUME NEW ch, Inv(ch), NEW p \in Procs, PopFree(p)
  PROVE  Store!Act(p) \/ Store!vars' = Store!vars
<1>l. PICK l : l = mem[p].list
  OBVIOUS
<1>c. PICK c : c = ch[l]
  OBVIOUS
<1>d. PICK d : d = IF Lone(p) THEN Without(p, c) ELSE c
  OBVIOUS
<1>e. PICK ch2 : ch2 = [ch EXCEPT ![l] = d]
  OBVIOUS
<1>1. pc[p] = "free" /\ pc[p] # "idle" /\ mem[p].op \in Pops /\ mem[p].op # "create"
  BY WhoWrites DEF PopFree, Goto
<1>2. /\ l \in lists /\ l \notin damaged /\ ch \in [lists -> Seq(Blocks)] /\ TypeOK
      /\ c \in Seq(Blocks) /\ Working(p, c)
  BY <1>l, <1>c, <1>1, MidCall
<1>3. /\ UNCHANGED <<disk, lists, damaged, mem>> /\ AskedBy(p)' = AskedBy(p)
      /\ pc'[p] = "save"
  BY <1>2 DEF PopFree, Goto, AskedBy, history, TypeOK
<1>4. Keeps(p, l, ch, ch2)
  BY <1>l, <1>c, <1>d, <1>e, PopFreeKeeps
<1>5. Did(p)' /\ ~Dropped(p) /\ ~Dropped(p)' /\ (Did(p) <=> ~Lone(p))
  BY <1>1, <1>3 DEF Did, Popped, Dropped, Pops, Drops, Lone
<1>6. CASE ~Lone(p)
  <2>1. Keys(ch2[l])' = Keys(ch[l])
    BY <1>c, <1>d, <1>e, <1>2, <1>3, <1>6 DEF Keys
  <2> QED
    BY <1>3, <1>4, <1>5, <1>6, <2>1, Silence
<1>7. CASE Lone(p)
  <2>1. d = Without(p, c)
    BY <1>d, <1>7
  <2>2. c # <<>>
    BY <1>1, <1>2, <1>7, Members DEF Working, Popping
  <2>3. PICK s : s = Keys(ch2[l])'
    OBVIOUS
  <2>4. PICK old : old = Keys(c)
    OBVIOUS
  <2>5. /\ Alone(p) /\ Contents[l] = old
        /\ Contents' = [Contents EXCEPT ![l] = s]
    BY <1>c, <1>2, <1>3, <1>4, <1>5, <2>3, <2>4, Changes
  <2>6. s = Keys(d)'
    BY <1>e, <1>2, <2>3
  <2>7. /\ old # <<>>
        /\ \/ mem[p].op = "pop_tail" /\ s = Store!Front(old)
           \/ mem[p].op = "pop_head" /\ s = Tail(old)
    BY <1>1, <1>2, <1>3, <2>1, <2>2, <2>4, <2>6, PopValues DEF TypeOK
  <2>8. Store!Effect(AskedBy(p))
    BY <1>l, <2>5, <2>7, PopEffect
  <2> QED
    BY <1>3, <1>5, <1>7, <2>5, <2>8, Acts
<1> QED
  BY <1>6, <1>7

LEMMA UpdateSetActs ==
  ASSUME NEW ch, Inv(ch), NEW p \in Procs, UpdateSet(p)
  PROVE  Store!Act(p)
<1>l. PICK l : l = mem[p].list
  OBVIOUS
<1>c. PICK c : c = ch[l]
  OBVIOUS
<1>e. PICK ch2 : ch2 = [ch EXCEPT ![l] = c]
  OBVIOUS
<1>m. PICK m : m = mem[p]
  OBVIOUS
<1>j. PICK j : j = m.index + 1
  OBVIOUS
<1>1. pc[p] = "set" /\ pc[p] # "idle" /\ mem[p].op = "update" /\ mem[p].op # "create"
  BY WhoWrites DEF UpdateSet, Goto
<1>2. /\ l \in lists /\ l \notin damaged /\ ch \in [lists -> Seq(Blocks)] /\ TypeOK
      /\ c \in Seq(Blocks) /\ Working(p, c) /\ Distinct(c)
  BY <1>l, <1>c, <1>1, MidCall
<1>3. /\ UNCHANGED <<lists, damaged, mem>> /\ AskedBy(p)' = AskedBy(p)
      /\ pc'[p] = "save" /\ disk' = [disk EXCEPT ![m.x].third = m.val]
  BY <1>m, <1>2 DEF UpdateSet, Goto, AskedBy, history, TypeOK
<1>4. /\ m.index \in Nat /\ m.index < Len(c) /\ m.val \in Values
      /\ m.x = c[j] /\ j \in 1 .. Len(c) /\ c[j] \in Blocks
  <2>1. m.index < Len(c) /\ m.x = c[m.index + 1] /\ m.val \in Values
    BY <1>m, <1>1, <1>2 DEF Working, Setting
  <2>2. m.index \in Nat
    BY <1>m, <1>2 DEF TypeOK, Call
  <2>3. j \in 1 .. Len(c)
    BY <1>j, <1>2, <2>1, <2>2, Members
  <2> QED
    BY <1>j, <1>2, <2>1, <2>2, <2>3, Members
<1>5. ~Did(p) /\ ~Dropped(p) /\ ~Dropped(p)' /\ Did(p)'
  BY <1>1, <1>3 DEF Did, Popped, Dropped, Pops, Drops
<1>6. Keeps(p, l, ch, ch2)
  BY <1>l, <1>c, <1>e, UpdateSetKeeps
<1>7. PICK s : s = Keys(ch2[l])'
  OBVIOUS
<1>8. PICK old : old = Keys(c)
  OBVIOUS
<1>9. /\ Alone(p) /\ Contents[l] = old
      /\ Contents' = [Contents EXCEPT ![l] = s]
  BY <1>c, <1>2, <1>3, <1>5, <1>6, <1>7, <1>8, Changes
<1>10. s = Keys(c)'
  BY <1>e, <1>2, <1>7
<1>11. /\ disk' \in [Blocks -> Block] /\ disk'[c[j]].third = m.val
       /\ \A b \in Blocks : b # c[j] => disk'[b] = disk[b]
  BY <1>2, <1>3, <1>4 DEF TypeOK, Block
<1>12. /\ old \in Seq(Stored) /\ Len(old) = Len(c)
       /\ \A i \in 1 .. Len(c) : old[i] = disk[c[i]].third
  BY <1>2, <1>8, KeysAre DEF TypeOK
<1>13. /\ s \in Seq(Stored) /\ Len(s) = Len(c)
       /\ \A i \in 1 .. Len(c) : s[i] = disk'[c[i]].third
  BY <1>2, <1>10, <1>11, KeysWillBe
<1>14. ASSUME NEW i \in 1 .. Len(c), i # j PROVE s[i] = old[i]
  <2>1. c[i] \in Blocks /\ c[i] # c[j]
    BY <1>2, <1>4, <1>14, Members DEF Distinct
  <2>2. disk'[c[i]] = disk[c[i]]
    BY <1>11, <2>1
  <2> QED
    BY <1>12, <1>13, <2>2
<1>15. s[j] = m.val
  BY <1>4, <1>11, <1>13
<1>16. s = [old EXCEPT ![j] = s[j]]
  BY <1>4, <1>12, <1>13, <1>14, IsExcept
<1>17. Store!Effect(AskedBy(p))
  <2>1. PICK r : r = AskedBy(p)
    OBVIOUS
  <2>2. r.op = "update" /\ r.list = l /\ r.index = m.index /\ r.val = m.val
    BY <1>l, <1>m, <1>1, <2>1 DEF AskedBy
  <2>3. r.index < Len(old) /\ s = [old EXCEPT ![r.index + 1] = r.val]
    BY <1>j, <1>4, <1>12, <1>15, <1>16, <2>2
  <2>4. Store!Effect(r)
    BY <1>9, <2>2, <2>3 DEF Store!Effect, Store!Become, Contents, Shown
  <2> QED
    BY <2>1, <2>4
<1> QED
  BY <1>3, <1>5, <1>9, <1>17, Acts

\* A list that is released is gone.
LEMMA Vanishes ==
  ASSUME NEW ch, NEW ch2, NEW p \in Procs, NEW l, Inv(ch), Keeps(p, l, ch, ch2),
         mem[p].op = "release", l = mem[p].list, l \in lists, l \notin damaged, ~Dropped(p),
         l \notin lists' \/ Dropped(p)'
  PROVE  Alone(p) /\ Store!Effect(AskedBy(p))
<1>1. Inv(ch2)' /\ Local(p, l, ch, ch2)
  BY DEF Keeps
<1>2. Alone(p) /\ l \in Shown /\ l \notin Shown'
  BY <1>1, OthersSame DEF Alone
<1>3. PICK s : s = Keys(ch2[l])'
  OBVIOUS
<1>4. Contents' = [m \in DOMAIN Contents \ {l} |-> Contents[m]]
  BY <1>1, <1>2, <1>3, Gone
<1>5. PICK r : r = AskedBy(p)
  OBVIOUS
<1>6. r.op = "release" /\ r.list = l
  BY <1>5 DEF AskedBy
<1>7. Store!Effect(r)
  BY <1>4, <1>6 DEF Store!Effect, Store!Erase, Contents, Shown
<1> QED
  BY <1>2, <1>5, <1>7

LEMMA ReleaseNodeActs ==
  ASSUME NEW ch, Inv(ch), NEW p \in Procs, ReleaseNode(p)
  PROVE  Store!Act(p) \/ Store!vars' = Store!vars
<1>l. PICK l : l = mem[p].list
  OBVIOUS
<1>c. PICK c : c = ch[l]
  OBVIOUS
<1>d. PICK d : d = Beheaded(c)
  OBVIOUS
<1>e. PICK ch2 : ch2 = [ch EXCEPT ![l] = d]
  OBVIOUS
<1>m. PICK m : m = mem[p]
  OBVIOUS
<1>n. PICK n : n = [m EXCEPT !.x = SuccOf(m.x)]
  OBVIOUS
<1>1. pc[p] = "drop" /\ pc[p] # "idle" /\ mem[p].op = "release" /\ mem[p].op # "create"
  BY WhoWrites DEF ReleaseNode
<1>2. /\ l \in lists /\ l \notin damaged /\ ch \in [lists -> Seq(Blocks)] /\ TypeOK
      /\ c \in Seq(Blocks) /\ Working(p, c) /\ Distinct(c)
  BY <1>l, <1>c, <1>1, MidCall
<1>3. /\ UNCHANGED <<disk, lists, damaged, pc>> /\ mem'[p] = n
  BY <1>m, <1>n, <1>2 DEF ReleaseNode, history, TypeOK
<1>4. n.op = m.op /\ n.list = m.list /\ n.index = m.index /\ n.val = m.val
      /\ n.x = SuccOf(m.x)
  <2>1. m \in Call
    BY <1>m, <1>2 DEF TypeOK
  <2> QED
    BY <1>n, <2>1 DEF Call
<1>5. AskedBy(p)' = AskedBy(p) /\ HeadOf(l)' = HeadOf(l)
  BY <1>m, <1>3, <1>4 DEF AskedBy, HeadOf
<1>6. n.x # HeadOf(l)
  <2>1. /\ m.x = First(c) /\ m.x # NULL /\ Forward(c) /\ Ends(c, NULL)
        /\ m.x = HeadOf(l) \/ (HeadOf(l) # NULL /\ HeadOf(l) \notin Elements(c))
    BY <1>l, <1>m, <1>1, <1>2 DEF Working, Dropping, ReleaseNode
  <2>2. c # <<>> /\ m.x = c[1] /\ 1 \in 1 .. Len(c) /\ c[1] \in Blocks
    BY <1>2, <2>1, Members DEF First
  <2>3. n.x = First(d)
    BY <1>d, <1>2, <1>4, <2>1, <2>2, BeheadedWhole DEF SuccOf
  <2>4. /\ d \in Seq(Blocks) /\ Elements(c) = Elements(d) \cup {c[1]}
        /\ c[1] \notin Elements(d)
    BY <1>d, <1>2, <2>2, BeheadedIs
  <2>5. d # <<>> => 1 \in 1 .. Len(d)
    BY <2>4, Members
  <2>6. First(d) = NULL \/ First(d) \in Elements(d)
    BY <2>5 DEF First, Elements
  <2> QED
    BY <2>1, <2>2, <2>3, <2>4, <2>6, ConstAssumption
<1>7. Dropped(p)'
  BY <1>l, <1>m, <1>1, <1>3, <1>4, <1>5, <1>6 DEF Dropped, Drops
<1>8. Did(p)' /\ (Did(p) <=> Dropped(p))
  BY <1>1, <1>7 DEF Did, Popped, Pops
<1>9. Keeps(p, l, ch, ch2)
  BY <1>l, <1>c, <1>d, <1>e, ReleaseNodeKeeps
<1>10. CASE Dropped(p)
  BY <1>3, <1>5, <1>7, <1>8, <1>9, <1>10, Silence
<1>11. CASE ~Dropped(p)
  <2>1. Alone(p) /\ Store!Effect(AskedBy(p))
    BY <1>l, <1>1, <1>2, <1>7, <1>9, <1>11, Vanishes
  <2> QED
    BY <1>5, <1>8, <1>11, <2>1, Acts
<1> QED
  BY <1>10, <1>11

LEMMA ReleaseHeaderActs ==
  ASSUME NEW ch, Inv(ch), NEW p \in Procs, ReleaseHeader(p)
  PROVE  Store!Act(p) \/ Store!Return(p)
<1>l. PICK l : l = mem[p].list
  OBVIOUS
<1>e. PICK ch2 : ch2 = [k \in lists \ {l} |-> ch[k]]
  OBVIOUS
<1>1. pc[p] = "drop" /\ pc[p] # "idle" /\ mem[p].op = "release" /\ mem[p].op # "create"
  BY WhoWrites DEF ReleaseHeader
<1>2. l \in lists /\ l \notin damaged /\ TypeOK
  BY <1>l, <1>1, MidCall
<1>3. /\ UNCHANGED damaged /\ mem'[p] = NoCall /\ l \notin lists'
  BY <1>l, <1>2 DEF ReleaseHeader, Return, history, TypeOK
<1>4. mem'[p].op = "none" /\ ~Did(p)'
  BY <1>3 DEF NoCall, Did, Popped, Dropped, Pops, Drops
<1>5. Did(p) <=> Dropped(p)
  BY <1>1 DEF Did, Popped, Pops
<1>6. Keeps(p, l, ch, ch2)
  BY <1>l, <1>e, ReleaseHeaderKeeps
<1>7. CASE Dropped(p)
  <2>1. Inv(ch2)' /\ Local(p, l, ch, ch2)
    BY <1>6 DEF Keeps
  <2>2. Alone(p) /\ l \notin Shown /\ l \notin Shown'
    BY <1>3, <1>7, <2>1, OthersSame DEF Alone
  <2>3. PICK s : s = Keys(ch2[l])'
    OBVIOUS
  <2>5. Contents' = Contents
    BY <2>1, <2>3, <2>2, Stays
  <2> QED
    BY <1>4, <1>5, <1>7, <2>2, <2>5, Returns
<1>8. CASE ~Dropped(p)
  <2>1. Alone(p) /\ Store!Effect(AskedBy(p))
    BY <1>l, <1>1, <1>2, <1>3, <1>6, <1>8, Vanishes
  <2> QED
    BY <1>4, <1>5, <1>8, <2>1, Acts
<1> QED
  BY <1>7, <1>8

\* The values of a chain that a push made longer.
LEMMA PushValues ==
  ASSUME disk \in [Blocks -> Block], disk' \in [Blocks -> Block],
         NEW c \in Seq(Blocks), NEW b \in Blocks, NEW v \in Values, disk'[b].third = v,
         \A e \in Elements(c) : disk'[e] = disk[e], NEW old, old = Keys(c)
  PROVE  /\ \A d, s : d = Longer(c, b) /\ s = Keys(d)' => s = Append(old, v)
         /\ \A d, s : d = Headed(b, c) /\ s = Keys(d)' => s = Store!Cons(v, old)
<1>1. /\ old \in Seq(Stored) /\ Len(old) = Len(c)
      /\ \A i \in 1 .. Len(c) : old[i] = disk[c[i]].third
  BY KeysAre
<1>2. Len(c) \in Nat /\ \A i \in 1 .. Len(c) : c[i] \in Blocks /\ c[i] \in Elements(c)
  BY Members DEF Elements
<1>3. ASSUME NEW d, NEW s, d = Longer(c, b), s = Keys(d)' PROVE s = Append(old, v)
  <2>1. /\ d \in Seq(Blocks) /\ Len(d) = Len(c) + 1
        /\ \A i \in 1 .. Len(c) : d[i] = c[i]
        /\ d[Len(c) + 1] = b
    BY <1>3, LongerIs
  <2>2. /\ s \in Seq(Stored) /\ Len(s) = Len(d)
        /\ \A i \in 1 .. Len(d) : s[i] = disk'[d[i]].third
    BY <1>3, <2>1, KeysWillBe
  <2>3. \A i \in 1 .. Len(old) : s[i] = old[i]
    BY <1>1, <1>2, <2>1, <2>2
  <2>4. s[Len(old) + 1] = v
    BY <1>1, <1>2, <2>1, <2>2
  <2> QED
    BY <1>1, <2>1, <2>2, <2>3, <2>4, IsAppend
<1>4. ASSUME NEW d, NEW s, d = Headed(b, c), s = Keys(d)' PROVE s = Store!Cons(v, old)
  <2>1. /\ d \in Seq(Blocks) /\ Len(d) = Len(c) + 1 /\ d[1] = b
        /\ \A i \in 1 .. Len(c) : d[i + 1] = c[i]
    BY <1>4, HeadedIs
  <2>2. /\ s \in Seq(Stored) /\ Len(s) = Len(d)
        /\ \A i \in 1 .. Len(d) : s[i] = disk'[d[i]].third
    BY <1>4, <2>1, KeysWillBe
  <2>3. \A i \in 1 .. Len(old) : s[i + 1] = old[i]
    <3> SUFFICES ASSUME NEW i \in 1 .. Len(old) PROVE s[i + 1] = old[i]
      OBVIOUS
    <3>1. i \in 1 .. Len(c) /\ i + 1 \in 1 .. Len(d)
      BY <1>1, <1>2, <2>1
    <3> QED
      BY <1>1, <1>2, <2>1, <2>2, <3>1
  <2>4. s[1] = v
    BY <1>2, <2>1, <2>2
  <2>5. s = Store!Cons(s[1], old)
    <3>1. old \in Seq(Stored) /\ s \in Seq(Stored) /\ Len(s) = Len(old) + 1
      BY <1>1, <2>1, <2>2
    <3> QED
      BY <2>3, <3>1, IsCons
  <2> QED
    BY <2>4, <2>5
<1> QED
  BY <1>3, <1>4

\* A list that is created is empty.
LEMMA Appears ==
  ASSUME NEW ch, NEW ch2, NEW p \in Procs, NEW l, Inv(ch), Inv(ch2)', Local(p, l, ch, ch2),
         mem[p].op = "create", l = mem[p].list, l \notin Shown, l \in Shown',
         NEW s, s = Keys(ch2[l])', s = <<>>
  PROVE  Store!Effect(AskedBy(p))
<1>1. Contents = [k \in Shown |-> Visible(k)] /\ Contents' = [k \in Shown' |-> Visible(k)']
  BY Frames
<1>2. \A k : k # l => /\ k \in Shown' <=> k \in Shown
                      /\ k \in Shown => Visible(k)' = Visible(k)
  BY Frames
<1>3. Visible(l)' = <<>>
  BY Frames
<1>4. DOMAIN Contents = Shown /\ \A k \in Shown : Contents[k] = Visible(k)
  BY <1>1
<1>5. ASSUME NEW k PROVE k \in Shown' <=> (k \in Shown \/ k = l)
  BY <1>2
<1>6. Shown' = DOMAIN Contents \cup {l}
  BY <1>4, <1>5
<1>7. \A k \in Shown' : Visible(k)' = IF k = l THEN <<>> ELSE Contents[k]
  BY <1>2, <1>3, <1>4
<1>8. PICK r : r = AskedBy(p)
  OBVIOUS
<1>9. r.op = "create" /\ r.list = l
  BY <1>8 DEF AskedBy
<1>10. Contents' = [m \in DOMAIN Contents \cup {r.list} |->
                     IF m = r.list THEN <<>> ELSE Contents[m]]
  BY <1>1, <1>6, <1>7, <1>9
<1>11. r.list \notin DOMAIN Contents
  BY <1>4, <1>9
<1>12. Store!Effect(r)
  BY <1>9, <1>10, <1>11 DEF Store!Effect, Contents, Shown
<1> QED
  BY <1>8, <1>12

LEMMA SaveHeaderActs ==
  ASSUME NEW ch, Inv(ch), NEW p \in Procs, SaveHeader(p)
  PROVE  Store!Act(p) \/ Store!Return(p)
<1>l. PICK l : l = mem[p].list
  OBVIOUS
<1>c. PICK c : c = Before(p, ch)
  OBVIOUS
<1>d. PICK d : d = After(p, c)
  OBVIOUS
<1>e. PICK ch2 : ch2 = Saved(ch, l, d)
  OBVIOUS
<1>m. PICK m : m = mem[p]
  OBVIOUS
<1>1. /\ pc[p] = "save" /\ pc[p] # "idle" /\ TypeOK
      /\ mem[p].op \in Pushes \cup Pops \cup {"create", "update"}
  BY WhoWrites DEF SaveHeader, Inv
<1>2. /\ UNCHANGED damaged /\ mem'[p] = NoCall /\ lists' = lists \cup {l}
      /\ disk' = [disk EXCEPT ![l] = Header(m.head, m.tail, m.size)]
  BY <1>l, <1>m, <1>1 DEF SaveHeader, Return, history, TypeOK
<1>3. mem'[p].op = "none" /\ ~Did(p)' /\ ~Dropped(p) /\ ~Dropped(p)'
  BY <1>1, <1>2 DEF NoCall, Did, Popped, Dropped, Pushes, Pops, Drops
<1>4. Keeps(p, l, ch, ch2)
  BY <1>l, <1>c, <1>d, <1>e, SaveHeaderKeeps
<1>5. Inv(ch2)' /\ Local(p, l, ch, ch2) /\ disk' \in [Blocks -> Block] /\ ch2[l] = d
  BY <1>e, <1>4 DEF Keeps, Inv, TypeOK, Saved
<1>6. PICK s : s = Keys(ch2[l])'
  OBVIOUS
<1>7. s = Keys(d)'
  BY <1>5, <1>6
<1>8. /\ Alone(p)
      /\ l \in Shown <=> l \in lists /\ l \notin damaged
      /\ l \in Shown' <=> l \notin damaged
  BY <1>2, <1>3, <1>5, OthersSame DEF Alone
<1>9. CASE mem[p].op = "create"
  <2>1. l \notin lists /\ l \notin damaged
    BY <1>l, <1>1, <1>9 DEF Inv, Job
  <2>2. d = <<>>
    BY <1>c, <1>d, <1>9 DEF Before, After
  <2>3. s = <<>>
    <3>1. d \in Seq(Blocks) /\ Len(d) = 0
      BY <2>2, EmptyIs
    <3>2. s \in Seq(Stored) /\ Len(s) = 0
      BY <1>5, <1>7, <3>1, KeysWillBe
    <3> QED
      BY <3>2
  <2>4. l \notin Shown /\ l \in Shown'
    BY <1>8, <2>1
  <2>8. Store!Effect(AskedBy(p))
    BY <1>l, <1>5, <1>6, <1>9, <2>3, <2>4, Appears
  <2>9. ~Did(p)
    BY <1>9 DEF Did, Popped, Dropped, Pops, Drops
  <2> QED
    BY <1>3, <1>8, <2>8, <2>9, Acts
<1>10. CASE mem[p].op # "create"
  <2>1. /\ c = ch[l] /\ c \in Seq(Blocks) /\ Working(p, c) /\ l \in lists /\ l \notin damaged
        /\ l \in Blocks /\ l \notin Elements(c)
        /\ Spare(p) \cap (Elements(c) \cup {l}) = {}
    <3>1. c = ch[l]
      BY <1>l, <1>c, <1>10 DEF Before
    <3> QED
      BY <1>l, <1>1, <1>10, <3>1, MidCall
  <2>2. \A b \in Blocks : b # l => disk'[b] = disk[b]
    BY <1>1, <1>2 DEF TypeOK
  <2>3. \A b \in Elements(c) : disk'[b] = disk[b]
    BY <2>1, <2>2, Members DEF Elements
  <2>4. CASE mem[p].op \in Pushes
    <3>1. /\ m.x \in Blocks /\ m.val \in Values /\ disk[m.x] = Node(m.prev, m.succ, m.val)
          /\ m.x # l
      <4>1. Pushing(p, c) /\ Grown(p, c) /\ Spare(p) = {m.x}
        BY <1>m, <1>1, <2>1, <2>4, SpareIs DEF Working, Pushing
      <4> QED
        BY <1>m, <1>1, <2>1, <4>1 DEF Pushing, Grown
    <3>2. disk'[m.x].third = m.val
      BY <2>2, <3>1 DEF Node
    <3>3. PICK b \in Blocks : b = m.x
      BY <3>1
    <3>4. PICK v \in Values : v = m.val
      BY <3>1
    <3>5. PICK old : old = Keys(c)
      OBVIOUS
    <3>6. /\ d = Longer(c, b) => s = Append(old, v)
          /\ d = Headed(b, c) => s = Store!Cons(v, old)
      <4>1. disk \in [Blocks -> Block] /\ disk'[b].third = v
        BY <1>1, <3>2, <3>3, <3>4 DEF TypeOK
      <4> QED
        BY <1>5, <1>7, <2>1, <2>3, <3>5, <4>1, PushValues
    <3>7. Contents[l] = old /\ Contents' = [Contents EXCEPT ![l] = s]
      <4>1. l \in lists'
        BY <1>2
      <4> QED
        BY <1>2, <1>3, <1>4, <1>6, <2>1, <3>5, <4>1, Changes
    <3>8. PICK r : r = AskedBy(p)
      OBVIOUS
    <3>9. r.op = mem[p].op /\ r.list = l /\ r.val = v
      BY <1>l, <1>m, <3>4, <3>8 DEF AskedBy
    <3>10. ASSUME mem[p].op = "push_tail" PROVE Store!Effect(r)
      <4>1. s = Append(old, v)
        BY <1>d, <1>m, <3>3, <3>6, <3>10 DEF After
      <4> QED
        BY <3>7, <3>9, <3>10, <4>1 DEF Store!Effect, Store!Become, Contents, Shown
    <3>11. ASSUME mem[p].op = "push_head" PROVE Store!Effect(r)
      <4>1. s = Store!Cons(v, old)
        BY <1>d, <1>m, <3>3, <3>6, <3>11 DEF After
      <4> QED
        BY <3>7, <3>9, <3>11, <4>1 DEF Store!Effect, Store!Become, Contents, Shown
    <3>12. Store!Effect(r)
      BY <2>4, <3>10, <3>11 DEF Pushes
    <3>13. ~Did(p)
      BY <2>4 DEF Did, Popped, Dropped, Pushes, Pops, Drops
    <3> QED
      BY <1>3, <1>8, <3>8, <3>12, <3>13, Acts
  <2>5. CASE mem[p].op \in Pops \cup {"update"}
    <3>1. d = c
      BY <1>d, <2>5 DEF After, Pops
    <3>2. Did(p)
      BY <1>1, <2>5 DEF Did, Popped
    <3>3. s = Keys(ch[l])
      BY <1>7, <2>1, <2>3, <3>1 DEF Keys, Elements
    <3>5. Contents' = Contents
      BY <1>5, <1>6, <1>8, <2>1, <3>3, Stays
    <3> QED
      BY <1>3, <1>8, <3>2, <3>5, Returns
  <2> QED
    BY <1>1, <1>10, <2>4, <2>5
<1> QED
  BY <1>9, <1>10

(***************************************************************************)
(* A kill, and the whole of it.                                            *)
(***************************************************************************)
LEMMA CrashDies ==
  ASSUME NEW ch, Inv(ch), NEW p \in Procs, Crash(p)
  PROVE  Store!Die(p)
<1>l. PICK l : l = mem[p].list
  OBVIOUS
<1>1. /\ pc[p] # "idle" /\ UNCHANGED <<disk, lists>> /\ mem'[p] = NoCall
      /\ damaged' = IF Popped(p) \/ Dropped(p) THEN damaged \cup {l} ELSE damaged
  BY <1>l DEF Crash, Return, Inv, TypeOK
<1>2. mem'[p].op = "none" /\ ~Did(p)' /\ ~Dropped(p)'
  BY <1>1 DEF NoCall, Did, Popped, Dropped, Pops, Drops
<1>3. mem[p].op # "none"
  BY <1>1 DEF Inv, Job, Working, Pushes, Pops
<1>4. Inv(ch)' /\ Local(p, l, ch, ch)
  BY <1>l, CrashKeeps
<1>5. /\ Alone(p)
      /\ l \in Shown <=> l \in lists /\ l \notin damaged /\ ~Dropped(p)
      /\ l \in Shown' <=> l \in lists /\ l \notin damaged'
  BY <1>1, <1>2, <1>4, OthersSame DEF Alone
<1>6. PICK s : s = Keys(ch[l])'
  OBVIOUS
<1>7. s = Keys(ch[l])
  BY <1>1, <1>6 DEF Keys
<1>8. CASE Popped(p)
  <2>1. mem[p].op \in Pops /\ ~Dropped(p) /\ mem[p].op # "create"
    BY <1>8 DEF Popped, Dropped, Pops, Drops
  <2>2. l \in lists /\ l \notin damaged
    BY <1>l, <1>1, <2>1, MidCall
  <2>3. l \in Shown /\ l \notin Shown'
    BY <1>1, <1>5, <1>8, <2>1, <2>2
  <2>4. Contents' = [m \in DOMAIN Contents \ {l} |-> Contents[m]]
    BY <1>4, <1>6, <2>3, Gone
  <2>5. Contents' = [m \in DOMAIN Contents \ {mem[p].list} |-> Contents[m]]
    BY <1>l, <2>4
  <2> QED
    BY <1>2, <1>3, <1>5, <1>8, <2>1, <2>5, Dies DEF Did, Pops
<1>9. CASE ~Popped(p)
  <2>1. l \in Shown <=> l \in Shown'
    BY <1>1, <1>5, <1>9
  <2>2. Contents' = Contents
    BY <1>4, <1>6, <1>7, <2>1, Stays
  <2> QED
    BY <1>2, <1>3, <1>5, <2>2, Dies
<1> QED
  BY <1>8, <1>9

LEMMA StoreInit == Init => Store!Init
<1> SUFFICES ASSUME Init PROVE Store!Init
  OBVIOUS
<1>1. lists = {} /\ \A p \in Procs : mem[p] = NoCall /\ mem[p].op = "none"
  BY DEF Init, NoCall
<1>2. \A p \in Procs : Did(p) = FALSE
  BY <1>1 DEF Did, Popped, Dropped, Pops, Drops
<1>3. Contents = <<>>
  BY <1>1 DEF Contents, Shown
<1> QED
  BY <1>1, <1>2, <1>3 DEF Store!Init, Contents, Shown, Did

\* Every step of the lists is a step of ListStore or changes nothing there.
LEMMA StoreNext ==
  Explained /\ [Next \/ \E p \in Procs : Crash(p)]_vars => [Store!Next]_(Store!vars)
<1> SUFFICES ASSUME NEW ch, Inv(ch), [Next \/ \E p \in Procs : Crash(p)]_vars
             PROVE  [Store!Next]_(Store!vars)
  BY DEF Explained
<1>1. ASSUME NEW p \in Procs, Start(p) PROVE Store!Next
  BY <1>1, StartsAsk DEF Store!Next
<1>2. ASSUME NEW p \in Procs, Step(p) PROVE Store!Next \/ Store!vars' = Store!vars
  <2>1. CASE PushAlloc(p)
    BY <2>1, PushAllocStutters
  <2>2. CASE PushLink(p)
    BY <2>2, PushLinkStutters
  <2>3. CASE PushWrite(p)
    BY <2>3, PushWriteStutters
  <2>4. CASE PopUnlink(p)
    BY <2>4, PopUnlinkActs DEF Store!Next
  <2>5. CASE PopFree(p)
    BY <2>5, PopFreeActs DEF Store!Next
  <2>6. CASE UpdateSet(p)
    BY <2>6, UpdateSetActs DEF Store!Next
  <2>7. CASE ReleaseNode(p)
    BY <2>7, ReleaseNodeActs DEF Store!Next
  <2>8. CASE ReleaseHeader(p)
    BY <2>8, ReleaseHeaderActs DEF Store!Next
  <2>9. CASE SaveHeader(p)
    BY <2>9, SaveHeaderActs DEF Store!Next
  <2> QED
    BY <1>2, <2>1, <2>2, <2>3, <2>4, <2>5, <2>6, <2>7, <2>8, <2>9 DEF Step
<1>3. ASSUME NEW p \in Procs, Crash(p) PROVE Store!Next
  BY <1>3, CrashDies DEF Store!Next
<1>4. CASE UNCHANGED vars
  <2>1. UNCHANGED <<disk, lists, pc, mem, damaged>>
    BY <1>4 DEF vars
  <2>2. Inv(ch)'
    BY <1>4, StillKeeps
  <2>3. ASSUME NEW p
        PROVE  AskedBy(p)' = AskedBy(p) /\ (Dropped(p)' <=> Dropped(p)) /\ (Did(p)' <=> Did(p))
    BY <2>1 DEF AskedBy, Did, Popped, Dropped, HeadOf
  <2>4. Shown' = Shown
    <3>1. Removed' = Removed
      BY <2>1, <2>3 DEF Removed, Busy
    <3> QED
      BY <2>1, <3>1 DEF Shown
  <2>5. \A k \in Shown : Visible(k)' = Visible(k)
    <3>1. \A k \in Shown : Visible(k) = Keys(ch[k])
      BY Reads
    <3>2. \A k \in Shown' : Visible(k)' = Keys(ch[k])'
      BY <2>2, WillRead
    <3>3. \A k : Keys(ch[k])' = Keys(ch[k])
      BY <2>1 DEF Keys
    <3> QED
      BY <2>4, <3>1, <3>2, <3>3
  <2>6. Contents' = Contents
    BY <2>4, <2>5 DEF Contents
  <2> QED
    BY <2>3, <2>6 DEF Store!vars, AskedBy, Did, Contents, Shown
<1> QED
  BY <1>1, <1>2, <1>3, <1>4 DEF Next

\* The lists implement ListStore, kills included: every call takes effect at
\* one write, once and on its own list (db_list.h).
THEOREM ListsImplementStore == CrashSpec => StoreSpec
<1>1. Init => Store!Init
  BY StoreInit
<1>2. Explained /\ [Next \/ \E p \in Procs : Crash(p)]_vars => [Store!Next]_(Store!vars)
  BY StoreNext
<1> QED
  BY <1>1, <1>2, AlwaysExplained, PTL DEF CrashSpec, StoreSpec, Store!Spec
=============================================================================
