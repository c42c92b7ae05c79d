------------------------------ MODULE Encoding ------------------------------
(***************************************************************************)
(* How the layers above lay out a block of 128 bytes: the conversions of   *)
(* file_operation.h, save and load of the structures, the order of keys    *)
(* and the names that uprint makes.  The other modules keep a block as a   *)
(* record of its fields, keys as numbers and names as values;              *)
(* EncodingProofs shows what the bytes keep of them.                       *)
(***************************************************************************)
EXTENDS Integers, Sequences

NodeBlockSize == 128
KLen == 32
VLen == 64
QLen == 64

Byte == 0 .. 255
Bytes(n) == [0 .. n - 1 -> Byte]
Block == Bytes(NodeBlockSize)

\* 32 bits; -1, the null file and line, is the largest.
Unsigned == {n \in Nat : ((n \div 256) \div 256) \div 256 < 256}
Location == [filenum : Unsigned, linenum : Unsigned]

(***************************************************************************)
(* Conversions.  Bytes that nothing is put into stay what the buffer on    *)
(* the stack happened to hold.                                             *)
(***************************************************************************)
Shift(num) == num \div 256             \* num >> 8

PutIntToBlock(b, s, num) ==
  [b EXCEPT ![s] = Shift(Shift(Shift(num))) % 256,
            ![s + 1] = Shift(Shift(num)) % 256,
            ![s + 2] = Shift(num) % 256,
            ![s + 3] = num % 256]

TransBlockToInt(b, s) ==
  256 * (256 * (256 * b[s] + b[s + 1]) + b[s + 2]) + b[s + 3]

PutCharToBlock(b, s, len, data) ==
  [i \in DOMAIN b |-> IF i \in s .. s + len - 1 THEN data[i - s] ELSE b[i]]

TransBlockToCharArray(b, s, len) == [i \in 0 .. len - 1 |-> b[s + i]]

PutLocation(b, s, loc) ==
  PutIntToBlock(PutIntToBlock(b, s, loc.filenum), s + 4, loc.linenum)

TransBlockToLocation(b, s) ==
  [filenum |-> TransBlockToInt(b, s), linenum |-> TransBlockToInt(b, s + 4)]

\* Two Booleans in one byte: a type is 0 for unsigned, 1 for a string.
Mode(k, v) == (IF k THEN 128 ELSE 0) + (IF v THEN 64 ELSE 0)
Bit(n, m) == (n \div m) % 2 = 1

(***************************************************************************)
(* queue_node.  load takes the first of the four bytes of the type.        *)
(***************************************************************************)
QueueNode == [prev : Location, succ : Location, key : Bytes(QLen), k_type : BOOLEAN]

SaveQueueNode(x, b) ==
  LET links == PutLocation(PutLocation(b, 0, x.prev), 8, x.succ)
      data == PutCharToBlock(links, 16, QLen, x.key)
  IN PutIntToBlock(data, 16 + QLen, Mode(x.k_type, FALSE))

LoadQueueNode(b) ==
  [prev |-> TransBlockToLocation(b, 0), succ |-> TransBlockToLocation(b, 8),
   key |-> TransBlockToCharArray(b, 16, QLen), k_type |-> b[16 + QLen] = 128]

(***************************************************************************)
(* binary_tree_node                                                        *)
(***************************************************************************)
TreeNode ==
  [left : Location, right : Location, size : Unsigned, hash : Unsigned,
   random : Unsigned, key : Bytes(KLen), value : Bytes(VLen),
   k_type : BOOLEAN, v_type : BOOLEAN]

SaveTreeNode(x, b) ==
  LET links == PutLocation(PutLocation(b, 0, x.left), 8, x.right)
      size == PutIntToBlock(links, 16, x.size)
      hash == PutIntToBlock(size, 20, x.hash)
      random == PutIntToBlock(hash, 24, x.random)
      key == PutCharToBlock(random, 28, KLen, x.key)
      value == PutCharToBlock(key, KLen + 28, VLen, x.value)
  IN PutIntToBlock(value, KLen + VLen + 28, Mode(x.k_type, x.v_type))

LoadTreeNode(b) ==
  LET mode == TransBlockToInt(b, 28 + KLen + VLen)
  IN [left |-> TransBlockToLocation(b, 0), right |-> TransBlockToLocation(b, 8),
      size |-> TransBlockToInt(b, 16), hash |-> TransBlockToInt(b, 20),
      random |-> TransBlockToInt(b, 24),
      key |-> TransBlockToCharArray(b, 28, KLen),
      value |-> TransBlockToCharArray(b, 28 + KLen, VLen),
      k_type |-> Bit(mode, 128), v_type |-> Bit(mode, 64)]

(***************************************************************************)
(* The headers of a list and of a map, and db_root.dat                     *)
(***************************************************************************)
ListHeader ==
  [head : Location, tail : Location, size : Unsigned, name : Bytes(KLen),
   k_type : BOOLEAN]

SaveList(l, b) ==
  LET links == PutLocation(PutLocation(b, 0, l.head), 8, l.tail)
      size == PutIntToBlock(links, 16, l.size)
      name == PutCharToBlock(size, 20, KLen, l.name)
  IN PutIntToBlock(name, 20 + KLen, Mode(l.k_type, FALSE))

LoadList(b) ==
  [head |-> TransBlockToLocation(b, 0), tail |-> TransBlockToLocation(b, 8),
   size |-> TransBlockToInt(b, 16), name |-> TransBlockToCharArray(b, 20, KLen),
   k_type |-> TransBlockToInt(b, 20 + KLen) = 128]

MapHeader ==
  [root : Location, hash_top : Unsigned, name : Bytes(KLen),
   k_type : BOOLEAN, v_type : BOOLEAN]

SaveMap(m, b) ==
  LET root == PutLocation(b, 0, m.root)
      top == PutIntToBlock(root, 8, m.hash_top)
      name == PutCharToBlock(top, 12, KLen, m.name)
  IN PutIntToBlock(name, 44, Mode(m.k_type, m.v_type))

LoadMap(b) ==
  LET mode == TransBlockToInt(b, 44)
  IN [root |-> TransBlockToLocation(b, 0), hash_top |-> TransBlockToInt(b, 8),
      name |-> TransBlockToCharArray(b, 12, KLen),
      k_type |-> Bit(mode, 128), v_type |-> Bit(mode, 64)]

Roots == [map1 : Location, map2 : Location]

SaveRoots(r, b) == PutLocation(PutLocation(b, 0, r.map1), 8, r.map2)

LoadRoots(b) ==
  [map1 |-> TransBlockToLocation(b, 0), map2 |-> TransBlockToLocation(b, 8)]

(***************************************************************************)
(* Keys: data_type2's operators <, == and =.                               *)
(***************************************************************************)
\* cmpstr(a, b) = 1: the first byte that differs is smaller in a.
StringLess(a, b) ==
  \E i \in 0 .. KLen - 1 : a[i] < b[i] /\ \A j \in 0 .. i - 1 : a[j] = b[j]

KeyLess(k_type, a, b) ==
  IF k_type THEN StringLess(a, b)
  ELSE TransBlockToInt(a, 0) < TransBlockToInt(b, 0)

KeyEqual(k_type, a, b) ==
  IF k_type THEN \A i \in 0 .. KLen - 1 : a[i] = b[i]
  ELSE TransBlockToInt(a, 0) = TransBlockToInt(b, 0)

\* operator =: a number takes the first four bytes along, a string all of them.
AssignKey(k_type, a, b) ==
  [i \in 0 .. KLen - 1 |-> IF k_type \/ i < 4 THEN b[i] ELSE a[i]]

(***************************************************************************)
(* Names: uprint(ret, maxlen, "s", name) clears the buffer and copies at   *)
(* most maxlen bytes of a string without zeros.                            *)
(***************************************************************************)
Name == Seq(Byte \ {0})

Uprint(maxlen, name) ==
  [i \in 0 .. maxlen - 1 |-> IF i < Len(name) THEN name[i + 1] ELSE 0]
=============================================================================
