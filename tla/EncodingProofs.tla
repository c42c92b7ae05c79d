--------------------------- MODULE EncodingProofs ---------------------------
(***************************************************************************)
(* What the bytes of a block keep of a structure, for every value of every *)
(* field and whatever the buffer held before.                              *)
(***************************************************************************)
EXTENDS Encoding, SequenceTheorems, WellFoundedInduction, TLAPS

(***************************************************************************)
(* Integers and byte strings in a block                                    *)
(***************************************************************************)
\* Four bytes hold 32 bits.
LEMMA Digits ==
  ASSUME NEW n \in Unsigned
  PROVE  /\ Shift(Shift(Shift(n))) % 256 \in Byte
         /\ Shift(Shift(n)) % 256 \in Byte
         /\ Shift(n) % 256 \in Byte
         /\ n % 256 \in Byte
         /\ n = 256 * (256 * (256 * (Shift(Shift(Shift(n))) % 256) + (Shift(Shift(n)) % 256))
                         + (Shift(n) % 256)) + (n % 256)
<1>1. \A m \in Nat : /\ Shift(m) \in Nat /\ m % 256 \in Byte
                     /\ m = 256 * Shift(m) + (m % 256)
  BY SMT DEF Shift, Byte
<1>2. \A m \in Nat : m < 256 => m % 256 = m
  BY SMT
<1>3. n \in Nat /\ Shift(Shift(Shift(n))) < 256
  BY DEF Unsigned, Shift
<1> DEFINE q1 == Shift(n)
           q2 == Shift(q1)
           q3 == Shift(q2)
<1>4. /\ q1 \in Nat /\ n % 256 \in Byte /\ n = 256 * q1 + (n % 256)
      /\ q2 \in Nat /\ q1 % 256 \in Byte /\ q1 = 256 * q2 + (q1 % 256)
      /\ q3 \in Nat /\ q2 % 256 \in Byte /\ q2 = 256 * q3 + (q2 % 256)
      /\ q3 % 256 = q3 /\ q3 \in Byte
  <2>1. q1 \in Nat /\ n % 256 \in Byte /\ n = 256 * q1 + (n % 256)
    BY <1>1, <1>3
  <2>2. q2 \in Nat /\ q1 % 256 \in Byte /\ q1 = 256 * q2 + (q1 % 256)
    BY <1>1, <2>1
  <2>3. q3 \in Nat /\ q2 % 256 \in Byte /\ q2 = 256 * q3 + (q2 % 256)
    BY <1>1, <2>2
  <2>4. q3 % 256 = q3 /\ q3 \in Byte
    BY <1>2, <1>3, <2>3, SMT DEF Byte
  <2> QED
    BY <2>1, <2>2, <2>3, <2>4
<1> HIDE DEF q1, q2, q3
<1>5. n = 256 * (256 * (256 * (q3 % 256) + (q2 % 256)) + (q1 % 256)) + (n % 256)
  BY <1>4
<1> QED
  BY <1>4, <1>5 DEF q1, q2, q3

\* put_int_to_block writes four bytes and no other.
LEMMA PutIntBytes ==
  ASSUME NEW N \in Nat, NEW b \in Bytes(N), NEW s \in Nat, s + 3 < N,
         NEW n \in Unsigned
  PROVE  /\ PutIntToBlock(b, s, n) \in Bytes(N)
         /\ PutIntToBlock(b, s, n)[s] = Shift(Shift(Shift(n))) % 256
         /\ PutIntToBlock(b, s, n)[s + 1] = Shift(Shift(n)) % 256
         /\ PutIntToBlock(b, s, n)[s + 2] = Shift(n) % 256
         /\ PutIntToBlock(b, s, n)[s + 3] = n % 256
         /\ \A i \in 0 .. N - 1 : i \notin s .. s + 3 => PutIntToBlock(b, s, n)[i] = b[i]
<1> DEFINE d0 == Shift(Shift(Shift(n))) % 256
           d1 == Shift(Shift(n)) % 256
           d2 == Shift(n) % 256
           d3 == n % 256
<1>1. /\ d0 \in Byte /\ d1 \in Byte /\ d2 \in Byte /\ d3 \in Byte
  BY Digits
<1>2. PutIntToBlock(b, s, n)
        = [b EXCEPT ![s] = d0, ![s + 1] = d1, ![s + 2] = d2, ![s + 3] = d3]
  BY DEF PutIntToBlock
<1> HIDE DEF d0, d1, d2, d3
<1>3. /\ s \in 0 .. N - 1 /\ s + 1 \in 0 .. N - 1
      /\ s + 2 \in 0 .. N - 1 /\ s + 3 \in 0 .. N - 1
  OBVIOUS
<1>4. /\ PutIntToBlock(b, s, n) \in Bytes(N)
      /\ PutIntToBlock(b, s, n)[s] = d0
      /\ PutIntToBlock(b, s, n)[s + 1] = d1
      /\ PutIntToBlock(b, s, n)[s + 2] = d2
      /\ PutIntToBlock(b, s, n)[s + 3] = d3
      /\ \A i \in 0 .. N - 1 : i \notin s .. s + 3 => PutIntToBlock(b, s, n)[i] = b[i]
  BY <1>1, <1>2, <1>3 DEF Bytes
<1> QED
  BY <1>4 DEF d0, d1, d2, d3

\* trans_block_to_int reads back what put_int_to_block wrote.
LEMMA IntSurvives ==
  ASSUME NEW N \in Nat, NEW b \in Bytes(N), NEW s \in Nat, s + 3 < N,
         NEW n \in Unsigned
  PROVE  /\ PutIntToBlock(b, s, n) \in Bytes(N)
         /\ TransBlockToInt(PutIntToBlock(b, s, n), s) = n
<1>1. TransBlockToInt(PutIntToBlock(b, s, n), s)
        = 256 * (256 * (256 * (Shift(Shift(Shift(n))) % 256) + (Shift(Shift(n)) % 256))
                   + (Shift(n) % 256)) + (n % 256)
  BY PutIntBytes, SMTT(30) DEF TransBlockToInt
<1>2. TransBlockToInt(PutIntToBlock(b, s, n), s) = n
  BY <1>1, Digits
<1> QED
  BY <1>2, PutIntBytes

\* put_char_to_block writes len bytes and no other.
LEMMA PutCharBytes ==
  ASSUME NEW N \in Nat, NEW b \in Bytes(N), NEW s \in Nat, NEW len \in Nat,
         s + len <= N, NEW data \in Bytes(len)
  PROVE  /\ PutCharToBlock(b, s, len, data) \in Bytes(N)
         /\ \A i \in 0 .. len - 1 : PutCharToBlock(b, s, len, data)[s + i] = data[i]
         /\ \A i \in 0 .. N - 1 :
              i \notin s .. s + len - 1 => PutCharToBlock(b, s, len, data)[i] = b[i]
<1>1. \A i \in s .. s + len - 1 : i - s \in 0 .. len - 1
  OBVIOUS
<1> QED
  BY <1>1 DEF PutCharToBlock, Bytes

\* trans_block_to_char_array reads back what put_char_to_block wrote.
LEMMA CharsSurvive ==
  ASSUME NEW N \in Nat, NEW b \in Bytes(N), NEW s \in Nat, NEW len \in Nat,
         s + len <= N, NEW data \in Bytes(len)
  PROVE  /\ PutCharToBlock(b, s, len, data) \in Bytes(N)
         /\ TransBlockToCharArray(PutCharToBlock(b, s, len, data), s, len) = data
<1>1. TransBlockToCharArray(PutCharToBlock(b, s, len, data), s, len)
        = [i \in 0 .. len - 1 |-> data[i]]
  BY PutCharBytes DEF TransBlockToCharArray
<1>2. data = [i \in 0 .. len - 1 |-> data[i]]
  BY DEF Bytes
<1> QED
  BY <1>1, <1>2, PutCharBytes

(***************************************************************************)
(* save writes the fields in the order of their places in the block, so    *)
(* each write leaves what is before it alone.                              *)
(***************************************************************************)
SameBefore(t, c, b) == \A i \in 0 .. t - 1 : c[i] = b[i]

\* What is read depends on the bytes read.
LEMMA IntBefore ==
  ASSUME NEW b, NEW c, NEW t \in Nat, SameBefore(t, c, b), NEW s \in Nat, s + 4 <= t
  PROVE  TransBlockToInt(c, s) = TransBlockToInt(b, s)
<1>1. c[s] = b[s] /\ c[s + 1] = b[s + 1] /\ c[s + 2] = b[s + 2] /\ c[s + 3] = b[s + 3]
  BY DEF SameBefore
<1> QED
  BY <1>1 DEF TransBlockToInt

LEMMA LocationBefore ==
  ASSUME NEW b, NEW c, NEW t \in Nat, SameBefore(t, c, b), NEW s \in Nat, s + 8 <= t
  PROVE  TransBlockToLocation(c, s) = TransBlockToLocation(b, s)
<1>1. /\ TransBlockToInt(c, s) = TransBlockToInt(b, s)
      /\ TransBlockToInt(c, s + 4) = TransBlockToInt(b, s + 4)
  BY IntBefore
<1> QED
  BY <1>1 DEF TransBlockToLocation

LEMMA CharsBefore ==
  ASSUME NEW b, NEW c, NEW t \in Nat, SameBefore(t, c, b),
         NEW s \in Nat, NEW len \in Nat, s + len <= t
  PROVE  TransBlockToCharArray(c, s, len) = TransBlockToCharArray(b, s, len)
<1>1. \A i \in 0 .. len - 1 : s + i \in 0 .. t - 1
  OBVIOUS
<1>2. \A i \in 0 .. len - 1 : c[s + i] = b[s + i]
  BY <1>1 DEF SameBefore
<1> QED
  BY <1>2 DEF TransBlockToCharArray

\* One write of each kind.
LEMMA IntWritten ==
  ASSUME NEW b \in Block, NEW t \in Nat, t + 4 <= NodeBlockSize, NEW n \in Unsigned
  PROVE  /\ PutIntToBlock(b, t, n) \in Block
         /\ TransBlockToInt(PutIntToBlock(b, t, n), t) = n
         /\ SameBefore(t, PutIntToBlock(b, t, n), b)
<1> USE DEF NodeBlockSize, Block
<1>1. /\ PutIntToBlock(b, t, n) \in Block
      /\ TransBlockToInt(PutIntToBlock(b, t, n), t) = n
  BY IntSurvives
<1>2. \A i \in 0 .. 127 : i \notin t .. t + 3 => PutIntToBlock(b, t, n)[i] = b[i]
  BY PutIntBytes
<1> QED
  BY <1>1, <1>2 DEF SameBefore

LEMMA CharsWritten ==
  ASSUME NEW b \in Block, NEW t \in Nat, NEW len \in Nat, t + len <= NodeBlockSize,
         NEW data \in Bytes(len)
  PROVE  /\ PutCharToBlock(b, t, len, data) \in Block
         /\ TransBlockToCharArray(PutCharToBlock(b, t, len, data), t, len) = data
         /\ SameBefore(t, PutCharToBlock(b, t, len, data), b)
<1> USE DEF NodeBlockSize, Block
<1>1. /\ PutCharToBlock(b, t, len, data) \in Block
      /\ TransBlockToCharArray(PutCharToBlock(b, t, len, data), t, len) = data
  BY CharsSurvive
<1>2. \A i \in 0 .. 127 :
        i \notin t .. t + len - 1 => PutCharToBlock(b, t, len, data)[i] = b[i]
  BY PutCharBytes
<1> QED
  BY <1>1, <1>2 DEF SameBefore

LEMMA LocationWritten ==
  ASSUME NEW b \in Block, NEW t \in Nat, t + 8 <= NodeBlockSize, NEW l \in Location
  PROVE  /\ PutLocation(b, t, l) \in Block
         /\ TransBlockToLocation(PutLocation(b, t, l), t) = l
         /\ SameBefore(t, PutLocation(b, t, l), b)
<1> DEFINE c == PutIntToBlock(b, t, l.filenum)
           d == PutIntToBlock(c, t + 4, l.linenum)
<1>1. l.filenum \in Unsigned /\ l.linenum \in Unsigned
  BY DEF Location
<1>2. l = [filenum |-> l.filenum, linenum |-> l.linenum]
  BY DEF Location
<1>3. c \in Block /\ TransBlockToInt(c, t) = l.filenum /\ SameBefore(t, c, b)
  BY <1>1, IntWritten DEF NodeBlockSize
<1>4. PutLocation(b, t, l) = d
  BY DEF PutLocation
<1> HIDE DEF c
<1>5. d \in Block /\ TransBlockToInt(d, t + 4) = l.linenum /\ SameBefore(t + 4, d, c)
  BY <1>1, <1>3, IntWritten DEF NodeBlockSize
<1> HIDE DEF d
<1>6. TransBlockToInt(d, t) = l.filenum
  BY <1>3, <1>5, IntBefore
<1>7. SameBefore(t, d, b)
  BY <1>3, <1>5 DEF SameBefore
<1> QED
  BY <1>2, <1>4, <1>5, <1>6, <1>7 DEF TransBlockToLocation

\* Both types survive in one integer, and one of them in one byte.
LEMMA ModeSurvives ==
  ASSUME NEW k \in BOOLEAN, NEW v \in BOOLEAN
  PROVE  /\ Mode(k, v) \in Unsigned
         /\ Bit(Mode(k, v), 128) = k
         /\ Bit(Mode(k, v), 64) = v
         /\ (Mode(k, FALSE) = 128) = k
         /\ Mode(k, FALSE) \in 0 .. 255
BY SMT DEF Mode, Bit, Unsigned

\* A number that fits one byte leaves the first of its four bytes zero.
LEMMA FirstByte ==
  ASSUME NEW b \in Block, NEW s \in Nat, s + 4 <= NodeBlockSize,
         TransBlockToInt(b, s) \in 0 .. 255
  PROVE  b[s] = 0
<1>1. s \in 0 .. 127 /\ s + 1 \in 0 .. 127 /\ s + 2 \in 0 .. 127 /\ s + 3 \in 0 .. 127
  BY DEF NodeBlockSize
<1>2. b \in [0 .. 127 -> 0 .. 255]
  <2>1. NodeBlockSize - 1 = 127
    BY DEF NodeBlockSize
  <2> QED
    BY <2>1, Zenon DEF Block, Bytes, Byte
<1>3. \A p, q, r, t \in Nat : 256 * (256 * (256 * p + q) + r) + t \in 0 .. 255 => p = 0
  BY SMT
<1>4. b[s] \in Nat /\ b[s + 1] \in Nat /\ b[s + 2] \in Nat /\ b[s + 3] \in Nat
  <2>1. \A i \in 0 .. 127 : b[i] \in 0 .. 255
    BY <1>2
  <2>2. \A n \in 0 .. 255 : n \in Nat
    OBVIOUS
  <2> QED
    BY <1>1, <2>1, <2>2
<1>5. 256 * (256 * (256 * b[s] + b[s + 1]) + b[s + 2]) + b[s + 3] \in 0 .. 255
  BY DEF TransBlockToInt
<1> QED
  BY <1>3, <1>4, <1>5

(***************************************************************************)
(* What each structure keeps                                               *)
(***************************************************************************)
\* binary_tree_node::save and load: no field overlaps another, the last one
\* ends with the block, and both types survive in one integer.
THEOREM TreeNodeSurvives ==
  \A x \in TreeNode, b \in Block :
    /\ SaveTreeNode(x, b) \in Block
    /\ LoadTreeNode(SaveTreeNode(x, b)) = x
<1> SUFFICES ASSUME NEW x \in TreeNode, NEW b \in Block
             PROVE  /\ SaveTreeNode(x, b) \in Block
                    /\ LoadTreeNode(SaveTreeNode(x, b)) = x
  OBVIOUS
<1> USE DEF NodeBlockSize, KLen, VLen
<1> DEFINE mode == Mode(x.k_type, x.v_type)
           b1 == PutLocation(b, 0, x.left)
           b2 == PutLocation(b1, 8, x.right)
           b3 == PutIntToBlock(b2, 16, x.size)
           b4 == PutIntToBlock(b3, 20, x.hash)
           b5 == PutIntToBlock(b4, 24, x.random)
           b6 == PutCharToBlock(b5, 28, 32, x.key)
           b7 == PutCharToBlock(b6, 60, 64, x.value)
           b8 == PutIntToBlock(b7, 124, mode)
<1>1. /\ x.left \in Location /\ x.right \in Location
      /\ x.size \in Unsigned /\ x.hash \in Unsigned /\ x.random \in Unsigned
      /\ x.key \in Bytes(32) /\ x.value \in Bytes(64)
      /\ x.k_type \in BOOLEAN /\ x.v_type \in BOOLEAN
  BY DEF TreeNode
<1>2. SaveTreeNode(x, b) = b8
  BY DEF SaveTreeNode
<1>e1. b1 = PutLocation(b, 0, x.left)
  OBVIOUS
<1>e2. b2 = PutLocation(b1, 8, x.right)
  OBVIOUS
<1>e3. b3 = PutIntToBlock(b2, 16, x.size)
  OBVIOUS
<1>e4. b4 = PutIntToBlock(b3, 20, x.hash)
  OBVIOUS
<1>e5. b5 = PutIntToBlock(b4, 24, x.random)
  OBVIOUS
<1>e6. b6 = PutCharToBlock(b5, 28, 32, x.key)
  OBVIOUS
<1>e7. b7 = PutCharToBlock(b6, 60, 64, x.value)
  OBVIOUS
<1>e8. b8 = PutIntToBlock(b7, 124, mode)
  OBVIOUS
<1> HIDE DEF b1, b2, b3, b4, b5, b6, b7, b8
<1>3. /\ mode \in Unsigned
      /\ Bit(mode, 128) = x.k_type
      /\ Bit(mode, 64) = x.v_type
  <2>1. mode \in Unsigned
    BY <1>1, ModeSurvives, Zenon
  <2>2. Bit(mode, 128) = x.k_type
    BY <1>1, ModeSurvives, Zenon
  <2>3. Bit(mode, 64) = x.v_type
    BY <1>1, ModeSurvives, ZenonT(60)
  <2> QED
    BY <2>1, <2>2, <2>3
<1> HIDE DEF mode
<1>b1. /\ b1 \in Block
       /\ TransBlockToLocation(b1, 0) = x.left
  <2>1. b1 \in Block /\ TransBlockToLocation(b1, 0) = x.left /\ SameBefore(0, b1, b)
    BY <1>1, <1>e1, LocationWritten
  <2> QED
    BY <2>1
<1>b2. /\ b2 \in Block
       /\ TransBlockToLocation(b2, 0) = x.left
       /\ TransBlockToLocation(b2, 8) = x.right
  <2>1. b2 \in Block /\ TransBlockToLocation(b2, 8) = x.right /\ SameBefore(8, b2, b1)
    BY <1>1, <1>e2, <1>b1, LocationWritten
  <2> QED
    BY <2>1, <1>b1, LocationBefore
<1>b3. /\ b3 \in Block
       /\ TransBlockToLocation(b3, 0) = x.left
       /\ TransBlockToLocation(b3, 8) = x.right
       /\ TransBlockToInt(b3, 16) = x.size
  <2>1. b3 \in Block /\ TransBlockToInt(b3, 16) = x.size /\ SameBefore(16, b3, b2)
    BY <1>1, <1>e3, <1>b2, IntWritten
  <2> QED
    BY <2>1, <1>b2, LocationBefore
<1>b4. /\ b4 \in Block
       /\ TransBlockToLocation(b4, 0) = x.left
       /\ TransBlockToLocation(b4, 8) = x.right
       /\ TransBlockToInt(b4, 16) = x.size
       /\ TransBlockToInt(b4, 20) = x.hash
  <2>1. b4 \in Block /\ TransBlockToInt(b4, 20) = x.hash /\ SameBefore(20, b4, b3)
    BY <1>1, <1>e4, <1>b3, IntWritten
  <2> QED
    BY <2>1, <1>b3, LocationBefore, IntBefore
<1>b5. /\ b5 \in Block
       /\ TransBlockToLocation(b5, 0) = x.left
       /\ TransBlockToLocation(b5, 8) = x.right
       /\ TransBlockToInt(b5, 16) = x.size
       /\ TransBlockToInt(b5, 20) = x.hash
       /\ TransBlockToInt(b5, 24) = x.random
  <2>1. b5 \in Block /\ TransBlockToInt(b5, 24) = x.random /\ SameBefore(24, b5, b4)
    BY <1>1, <1>e5, <1>b4, IntWritten
  <2> QED
    BY <2>1, <1>b4, LocationBefore, IntBefore
<1>b6. /\ b6 \in Block
       /\ TransBlockToLocation(b6, 0) = x.left
       /\ TransBlockToLocation(b6, 8) = x.right
       /\ TransBlockToInt(b6, 16) = x.size
       /\ TransBlockToInt(b6, 20) = x.hash
       /\ TransBlockToInt(b6, 24) = x.random
       /\ TransBlockToCharArray(b6, 28, 32) = x.key
  <2>1. b6 \in Block /\ TransBlockToCharArray(b6, 28, 32) = x.key /\ SameBefore(28, b6, b5)
    BY <1>1, <1>e6, <1>b5, CharsWritten
  <2> QED
    BY <2>1, <1>b5, LocationBefore, IntBefore
<1>b7. /\ b7 \in Block
       /\ TransBlockToLocation(b7, 0) = x.left
       /\ TransBlockToLocation(b7, 8) = x.right
       /\ TransBlockToInt(b7, 16) = x.size
       /\ TransBlockToInt(b7, 20) = x.hash
       /\ TransBlockToInt(b7, 24) = x.random
       /\ TransBlockToCharArray(b7, 28, 32) = x.key
       /\ TransBlockToCharArray(b7, 60, 64) = x.value
  <2>1. b7 \in Block /\ TransBlockToCharArray(b7, 60, 64) = x.value /\ SameBefore(60, b7, b6)
    BY <1>1, <1>e7, <1>b6, CharsWritten
  <2> QED
    BY <2>1, <1>b6, LocationBefore, IntBefore, CharsBefore
<1>b8. /\ b8 \in Block
       /\ TransBlockToLocation(b8, 0) = x.left
       /\ TransBlockToLocation(b8, 8) = x.right
       /\ TransBlockToInt(b8, 16) = x.size
       /\ TransBlockToInt(b8, 20) = x.hash
       /\ TransBlockToInt(b8, 24) = x.random
       /\ TransBlockToCharArray(b8, 28, 32) = x.key
       /\ TransBlockToCharArray(b8, 60, 64) = x.value
       /\ TransBlockToInt(b8, 124) = mode
  <2>1. b8 \in Block /\ TransBlockToInt(b8, 124) = mode /\ SameBefore(124, b8, b7)
    BY <1>1, <1>e8, <1>3, <1>b7, IntWritten
  <2> QED
    BY <2>1, <1>b7, LocationBefore, IntBefore, CharsBefore
<1>4. LoadTreeNode(b8) =
        [left |-> x.left,
         right |-> x.right,
         size |-> x.size,
         hash |-> x.hash,
         random |-> x.random,
         key |-> x.key,
         value |-> x.value,
         k_type |-> x.k_type,
         v_type |-> x.v_type]
  BY <1>3, <1>b8 DEF LoadTreeNode
<1>5. x =
        [left |-> x.left,
         right |-> x.right,
         size |-> x.size,
         hash |-> x.hash,
         random |-> x.random,
         key |-> x.key,
         value |-> x.value,
         k_type |-> x.k_type,
         v_type |-> x.v_type]
  BY DEF TreeNode
<1> QED
  BY <1>2, <1>4, <1>5, <1>b8

\* TREAP::save and load: a map's header survives.
THEOREM MapHeaderSurvives ==
  \A x \in MapHeader, b \in Block :
    /\ SaveMap(x, b) \in Block
    /\ LoadMap(SaveMap(x, b)) = x
<1> SUFFICES ASSUME NEW x \in MapHeader, NEW b \in Block
             PROVE  /\ SaveMap(x, b) \in Block
                    /\ LoadMap(SaveMap(x, b)) = x
  OBVIOUS
<1> USE DEF NodeBlockSize, KLen
<1> DEFINE mode == Mode(x.k_type, x.v_type)
           b1 == PutLocation(b, 0, x.root)
           b2 == PutIntToBlock(b1, 8, x.hash_top)
           b3 == PutCharToBlock(b2, 12, 32, x.name)
           b4 == PutIntToBlock(b3, 44, mode)
<1>1. /\ x.root \in Location
      /\ x.hash_top \in Unsigned
      /\ x.name \in Bytes(32)
      /\ x.k_type \in BOOLEAN /\ x.v_type \in BOOLEAN
  BY DEF MapHeader
<1>2. SaveMap(x, b) = b4
  BY DEF SaveMap
<1>e1. b1 = PutLocation(b, 0, x.root)
  OBVIOUS
<1>e2. b2 = PutIntToBlock(b1, 8, x.hash_top)
  OBVIOUS
<1>e3. b3 = PutCharToBlock(b2, 12, 32, x.name)
  OBVIOUS
<1>e4. b4 = PutIntToBlock(b3, 44, mode)
  OBVIOUS
<1> HIDE DEF b1, b2, b3, b4
<1>3. /\ mode \in Unsigned
      /\ Bit(mode, 128) = x.k_type
      /\ Bit(mode, 64) = x.v_type
  <2>1. mode \in Unsigned
    BY <1>1, ModeSurvives, Zenon
  <2>2. Bit(mode, 128) = x.k_type
    BY <1>1, ModeSurvives, ZenonT(60)
  <2>3. Bit(mode, 64) = x.v_type
    BY <1>1, ModeSurvives, ZenonT(60)
  <2> QED
    BY <2>1, <2>2, <2>3
<1> HIDE DEF mode
<1>b1. /\ b1 \in Block
       /\ TransBlockToLocation(b1, 0) = x.root
  <2>1. b1 \in Block /\ TransBlockToLocation(b1, 0) = x.root /\ SameBefore(0, b1, b)
    BY <1>1, <1>e1, LocationWritten
  <2> QED
    BY <2>1
<1>b2. /\ b2 \in Block
       /\ TransBlockToLocation(b2, 0) = x.root
       /\ TransBlockToInt(b2, 8) = x.hash_top
  <2>1. b2 \in Block /\ TransBlockToInt(b2, 8) = x.hash_top /\ SameBefore(8, b2, b1)
    BY <1>1, <1>e2, <1>b1, IntWritten
  <2> QED
    BY <2>1, <1>b1, LocationBefore
<1>b3. /\ b3 \in Block
       /\ TransBlockToLocation(b3, 0) = x.root
       /\ TransBlockToInt(b3, 8) = x.hash_top
       /\ TransBlockToCharArray(b3, 12, 32) = x.name
  <2>1. b3 \in Block /\ TransBlockToCharArray(b3, 12, 32) = x.name /\ SameBefore(12, b3, b2)
    BY <1>1, <1>e3, <1>b2, CharsWritten
  <2> QED
    BY <2>1, <1>b2, LocationBefore, IntBefore
<1>b4. /\ b4 \in Block
       /\ TransBlockToLocation(b4, 0) = x.root
       /\ TransBlockToInt(b4, 8) = x.hash_top
       /\ TransBlockToCharArray(b4, 12, 32) = x.name
       /\ TransBlockToInt(b4, 44) = mode
  <2>1. b4 \in Block /\ TransBlockToInt(b4, 44) = mode /\ SameBefore(44, b4, b3)
    BY <1>1, <1>e4, <1>3, <1>b3, IntWritten
  <2> QED
    BY <2>1, <1>b3, LocationBefore, IntBefore, CharsBefore
<1>4. LoadMap(b4) =
        [root |-> x.root,
         hash_top |-> x.hash_top,
         name |-> x.name,
         k_type |-> x.k_type,
         v_type |-> x.v_type]
  BY <1>3, <1>b4 DEF LoadMap
<1>5. x =
        [root |-> x.root,
         hash_top |-> x.hash_top,
         name |-> x.name,
         k_type |-> x.k_type,
         v_type |-> x.v_type]
  BY DEF MapHeader
<1> QED
  BY <1>2, <1>4, <1>5, <1>b4

\* db_list::save and load: a list's header survives, its type included.
THEOREM ListHeaderSurvives ==
  \A x \in ListHeader, b \in Block :
    /\ SaveList(x, b) \in Block
    /\ LoadList(SaveList(x, b)) = x
<1> SUFFICES ASSUME NEW x \in ListHeader, NEW b \in Block
             PROVE  /\ SaveList(x, b) \in Block
                    /\ LoadList(SaveList(x, b)) = x
  OBVIOUS
<1> USE DEF NodeBlockSize, KLen
<1> DEFINE mode == Mode(x.k_type, FALSE)
           b1 == PutLocation(b, 0, x.head)
           b2 == PutLocation(b1, 8, x.tail)
           b3 == PutIntToBlock(b2, 16, x.size)
           b4 == PutCharToBlock(b3, 20, 32, x.name)
           b5 == PutIntToBlock(b4, 52, mode)
<1>1. /\ x.head \in Location /\ x.tail \in Location
      /\ x.size \in Unsigned
      /\ x.name \in Bytes(32)
      /\ x.k_type \in BOOLEAN
  BY DEF ListHeader
<1>2. SaveList(x, b) = b5
  BY DEF SaveList
<1>e1. b1 = PutLocation(b, 0, x.head)
  OBVIOUS
<1>e2. b2 = PutLocation(b1, 8, x.tail)
  OBVIOUS
<1>e3. b3 = PutIntToBlock(b2, 16, x.size)
  OBVIOUS
<1>e4. b4 = PutCharToBlock(b3, 20, 32, x.name)
  OBVIOUS
<1>e5. b5 = PutIntToBlock(b4, 52, mode)
  OBVIOUS
<1> HIDE DEF b1, b2, b3, b4, b5
<1>3. /\ mode \in Unsigned
      /\ (mode = 128) = x.k_type
  <2>1. mode \in Unsigned
    BY <1>1, ModeSurvives, Zenon
  <2>2. (mode = 128) = x.k_type
    BY <1>1, ModeSurvives, Zenon
  <2> QED
    BY <2>1, <2>2
<1> HIDE DEF mode
<1>b1. /\ b1 \in Block
       /\ TransBlockToLocation(b1, 0) = x.head
  <2>1. b1 \in Block /\ TransBlockToLocation(b1, 0) = x.head /\ SameBefore(0, b1, b)
    BY <1>1, <1>e1, LocationWritten
  <2> QED
    BY <2>1
<1>b2. /\ b2 \in Block
       /\ TransBlockToLocation(b2, 0) = x.head
       /\ TransBlockToLocation(b2, 8) = x.tail
  <2>1. b2 \in Block /\ TransBlockToLocation(b2, 8) = x.tail /\ SameBefore(8, b2, b1)
    BY <1>1, <1>e2, <1>b1, LocationWritten
  <2> QED
    BY <2>1, <1>b1, LocationBefore
<1>b3. /\ b3 \in Block
       /\ TransBlockToLocation(b3, 0) = x.head
       /\ TransBlockToLocation(b3, 8) = x.tail
       /\ TransBlockToInt(b3, 16) = x.size
  <2>1. b3 \in Block /\ TransBlockToInt(b3, 16) = x.size /\ SameBefore(16, b3, b2)
    BY <1>1, <1>e3, <1>b2, IntWritten
  <2> QED
    BY <2>1, <1>b2, LocationBefore
<1>b4. /\ b4 \in Block
       /\ TransBlockToLocation(b4, 0) = x.head
       /\ TransBlockToLocation(b4, 8) = x.tail
       /\ TransBlockToInt(b4, 16) = x.size
       /\ TransBlockToCharArray(b4, 20, 32) = x.name
  <2>1. b4 \in Block /\ TransBlockToCharArray(b4, 20, 32) = x.name /\ SameBefore(20, b4, b3)
    BY <1>1, <1>e4, <1>b3, CharsWritten
  <2> QED
    BY <2>1, <1>b3, LocationBefore, IntBefore
<1>b5. /\ b5 \in Block
       /\ TransBlockToLocation(b5, 0) = x.head
       /\ TransBlockToLocation(b5, 8) = x.tail
       /\ TransBlockToInt(b5, 16) = x.size
       /\ TransBlockToCharArray(b5, 20, 32) = x.name
       /\ TransBlockToInt(b5, 52) = mode
  <2>1. b5 \in Block /\ TransBlockToInt(b5, 52) = mode /\ SameBefore(52, b5, b4)
    BY <1>1, <1>e5, <1>3, <1>b4, IntWritten
  <2> QED
    BY <2>1, <1>b4, LocationBefore, IntBefore, CharsBefore
<1>4. LoadList(b5) =
        [head |-> x.head,
         tail |-> x.tail,
         size |-> x.size,
         name |-> x.name,
         k_type |-> x.k_type]
  BY <1>3, <1>b5 DEF LoadList
<1>5. x =
        [head |-> x.head,
         tail |-> x.tail,
         size |-> x.size,
         name |-> x.name,
         k_type |-> x.k_type]
  BY DEF ListHeader
<1> QED
  BY <1>2, <1>4, <1>5, <1>b5

\* db_struct::save and load: db_root.dat leads to the two root maps.
THEOREM RootsSurvive ==
  \A x \in Roots, b \in Block :
    /\ SaveRoots(x, b) \in Block
    /\ LoadRoots(SaveRoots(x, b)) = x
<1> SUFFICES ASSUME NEW x \in Roots, NEW b \in Block
             PROVE  /\ SaveRoots(x, b) \in Block
                    /\ LoadRoots(SaveRoots(x, b)) = x
  OBVIOUS
<1> USE DEF NodeBlockSize
<1> DEFINE b1 == PutLocation(b, 0, x.map1)
           b2 == PutLocation(b1, 8, x.map2)
<1>1. /\ x.map1 \in Location /\ x.map2 \in Location
  BY DEF Roots
<1>2. SaveRoots(x, b) = b2
  BY DEF SaveRoots
<1>e1. b1 = PutLocation(b, 0, x.map1)
  OBVIOUS
<1>e2. b2 = PutLocation(b1, 8, x.map2)
  OBVIOUS
<1> HIDE DEF b1, b2
<1>b1. /\ b1 \in Block
       /\ TransBlockToLocation(b1, 0) = x.map1
  <2>1. b1 \in Block /\ TransBlockToLocation(b1, 0) = x.map1 /\ SameBefore(0, b1, b)
    BY <1>1, <1>e1, LocationWritten
  <2> QED
    BY <2>1
<1>b2. /\ b2 \in Block
       /\ TransBlockToLocation(b2, 0) = x.map1
       /\ TransBlockToLocation(b2, 8) = x.map2
  <2>1. b2 \in Block /\ TransBlockToLocation(b2, 8) = x.map2 /\ SameBefore(8, b2, b1)
    BY <1>1, <1>e2, <1>b1, LocationWritten
  <2> QED
    BY <2>1, <1>b1, LocationBefore
<1>4. LoadRoots(b2) =
        [map1 |-> x.map1,
         map2 |-> x.map2]
  BY <1>b2 DEF LoadRoots
<1>5. x =
        [map1 |-> x.map1,
         map2 |-> x.map2]
  BY DEF Roots
<1> QED
  BY <1>2, <1>4, <1>5, <1>b2

\* queue_node::save and load: the links and the element survive, but the type
\* is always read as unsigned, because load takes the first of the four bytes
\* that save wrote.  Nothing reads it: the list's own type is used.
THEOREM QueueTypeIsLost ==
  \A x \in QueueNode, b \in Block :
    /\ SaveQueueNode(x, b) \in Block
    /\ LoadQueueNode(SaveQueueNode(x, b)) = [prev |-> x.prev, succ |-> x.succ, key |-> x.key, k_type |-> FALSE]
<1> SUFFICES ASSUME NEW x \in QueueNode, NEW b \in Block
             PROVE  /\ SaveQueueNode(x, b) \in Block
                    /\ LoadQueueNode(SaveQueueNode(x, b)) = [prev |-> x.prev, succ |-> x.succ, key |-> x.key, k_type |-> FALSE]
  OBVIOUS
<1> USE DEF NodeBlockSize, QLen
<1> DEFINE mode == Mode(x.k_type, FALSE)
           b1 == PutLocation(b, 0, x.prev)
           b2 == PutLocation(b1, 8, x.succ)
           b3 == PutCharToBlock(b2, 16, 64, x.key)
           b4 == PutIntToBlock(b3, 80, mode)
<1>1. /\ x.prev \in Location /\ x.succ \in Location
      /\ x.key \in Bytes(64)
      /\ x.k_type \in BOOLEAN
  BY DEF QueueNode
<1>2. SaveQueueNode(x, b) = b4
  BY DEF SaveQueueNode
<1>e1. b1 = PutLocation(b, 0, x.prev)
  OBVIOUS
<1>e2. b2 = PutLocation(b1, 8, x.succ)
  OBVIOUS
<1>e3. b3 = PutCharToBlock(b2, 16, 64, x.key)
  OBVIOUS
<1>e4. b4 = PutIntToBlock(b3, 80, mode)
  OBVIOUS
<1> HIDE DEF b1, b2, b3, b4
<1>3. /\ mode \in Unsigned
      /\ mode \in 0 .. 255
  <2>1. mode \in Unsigned
    BY <1>1, ModeSurvives, Zenon
  <2>2. mode \in 0 .. 255
    BY <1>1, ModeSurvives, Zenon
  <2> QED
    BY <2>1, <2>2
<1> HIDE DEF mode
<1>b1. /\ b1 \in Block
       /\ TransBlockToLocation(b1, 0) = x.prev
  <2>1. b1 \in Block /\ TransBlockToLocation(b1, 0) = x.prev /\ SameBefore(0, b1, b)
    BY <1>1, <1>e1, LocationWritten
  <2> QED
    BY <2>1
<1>b2. /\ b2 \in Block
       /\ TransBlockToLocation(b2, 0) = x.prev
       /\ TransBlockToLocation(b2, 8) = x.succ
  <2>1. b2 \in Block /\ TransBlockToLocation(b2, 8) = x.succ /\ SameBefore(8, b2, b1)
    BY <1>1, <1>e2, <1>b1, LocationWritten
  <2> QED
    BY <2>1, <1>b1, LocationBefore
<1>b3. /\ b3 \in Block
       /\ TransBlockToLocation(b3, 0) = x.prev
       /\ TransBlockToLocation(b3, 8) = x.succ
       /\ TransBlockToCharArray(b3, 16, 64) = x.key
  <2>1. b3 \in Block /\ TransBlockToCharArray(b3, 16, 64) = x.key /\ SameBefore(16, b3, b2)
    BY <1>1, <1>e3, <1>b2, CharsWritten
  <2> QED
    BY <2>1, <1>b2, LocationBefore
<1>b4. /\ b4 \in Block
       /\ TransBlockToLocation(b4, 0) = x.prev
       /\ TransBlockToLocation(b4, 8) = x.succ
       /\ TransBlockToCharArray(b4, 16, 64) = x.key
       /\ TransBlockToInt(b4, 80) = mode
  <2>1. b4 \in Block /\ TransBlockToInt(b4, 80) = mode /\ SameBefore(80, b4, b3)
    BY <1>1, <1>e4, <1>3, <1>b3, IntWritten
  <2> QED
    BY <2>1, <1>b3, LocationBefore, CharsBefore
<1>4. b4[80] = 0
  BY <1>3, <1>b4, FirstByte
<1>5. (b4[16 + QLen] = 128) = FALSE
  <2>1. 16 + QLen = 80
    OBVIOUS
  <2>2. b4[16 + QLen] # 128
    BY <1>4, <2>1
  <2> QED
    BY <2>2
<1>6. LoadQueueNode(b4) =
        [prev |-> x.prev, succ |-> x.succ, key |-> x.key, k_type |-> FALSE]
  BY <1>5, <1>b4 DEF LoadQueueNode
<1> QED
  BY <1>2, <1>6, <1>b4

(***************************************************************************)
(* Keys and names                                                          *)
(***************************************************************************)
\* Every set of indices has a smallest.
LEMMA SmallestIndex ==
  ASSUME NEW T \in SUBSET Nat, T # {}
  PROVE  \E i \in T : \A j \in T : ~ (j < i)
<1> DEFINE R == {p \in Nat \X Nat : p[1] < p[2]}
<1>1. R = OpToRel(<, Nat)
  BY DEF OpToRel
<1>2. IsWellFoundedOn(R, Nat)
  BY <1>1, NatLessThanWellFounded
<1>3. PICK i \in T : \A j \in T : ~ (<<j, i>> \in R)
  BY <1>2, WFMin
<1>4. \A j \in T : ~ (j < i)
  BY <1>3
<1> QED
  BY <1>4

\* cmpstr orders strings: it compares at the first byte that differs.
LEMMA StringOrder ==
  ASSUME NEW a \in Bytes(KLen), NEW b \in Bytes(KLen), NEW c \in Bytes(KLen)
  PROVE  /\ ~ StringLess(a, a)
         /\ StringLess(a, b) /\ StringLess(b, c) => StringLess(a, c)
         /\ StringLess(a, b) \/ StringLess(b, a) \/ \A i \in 0 .. KLen - 1 : a[i] = b[i]
         /\ (\A i \in 0 .. KLen - 1 : a[i] = b[i]) => ~ StringLess(a, b)
<1>1. /\ \A i \in 0 .. 31 : a[i] \in Int
      /\ \A i \in 0 .. 31 : b[i] \in Int
      /\ \A i \in 0 .. 31 : c[i] \in Int
  <2>1. \A n \in 0 .. 255 : n \in Int
    OBVIOUS
  <2>2. a \in [0 .. 31 -> 0 .. 255] /\ b \in [0 .. 31 -> 0 .. 255] /\ c \in [0 .. 31 -> 0 .. 255]
    <3>1. KLen - 1 = 31
      BY DEF KLen
    <3> QED
      BY <3>1, Zenon DEF Bytes, Byte
  <2> QED
    BY <2>1, <2>2
<1>2. ~ StringLess(a, a)
  BY <1>1 DEF StringLess, KLen
<1>3. ASSUME StringLess(a, b), StringLess(b, c)
      PROVE  StringLess(a, c)
  <2>1. PICK i \in 0 .. 31 : a[i] < b[i] /\ \A k \in 0 .. i - 1 : a[k] = b[k]
    BY <1>3 DEF StringLess, KLen
  <2>2. PICK j \in 0 .. 31 : b[j] < c[j] /\ \A k \in 0 .. j - 1 : b[k] = c[k]
    BY <1>3 DEF StringLess, KLen
  <2>3. CASE i <= j
    <3>1. a[i] < c[i]
      BY <1>1, <2>1, <2>2, <2>3
    <3>2. \A k \in 0 .. i - 1 : a[k] = c[k]
      BY <2>1, <2>2, <2>3
    <3> QED
      BY <3>1, <3>2 DEF StringLess, KLen
  <2>4. CASE j < i
    <3>1. a[j] < c[j]
      BY <1>1, <2>1, <2>2, <2>4
    <3>2. \A k \in 0 .. j - 1 : a[k] = c[k]
      BY <2>1, <2>2, <2>4
    <3> QED
      BY <3>1, <3>2 DEF StringLess, KLen
  <2> QED
    BY <2>3, <2>4
<1>4. StringLess(a, b) \/ StringLess(b, a) \/ \A i \in 0 .. KLen - 1 : a[i] = b[i]
  <2> DEFINE T == {i \in 0 .. 31 : a[i] # b[i]}
  <2>1. CASE T = {}
    BY <2>1 DEF KLen
  <2>2. CASE T # {}
    <3>0. T \in SUBSET (0 .. 31)
      OBVIOUS
    <3>1. PICK i \in T : \A j \in T : ~ (j < i)
      <4> HIDE DEF T
      <4> QED
        BY <2>2, <3>0, SmallestIndex
    <3>2. i \in 0 .. 31 /\ \A j \in 0 .. i - 1 : a[j] = b[j]
      BY <3>1
    <3>3. a[i] < b[i] \/ b[i] < a[i]
      BY <1>1, <3>1
    <3> QED
      BY <3>2, <3>3 DEF StringLess, KLen
  <2> QED
    BY <2>1, <2>2
<1>5. (\A i \in 0 .. KLen - 1 : a[i] = b[i]) => ~ StringLess(a, b)
  BY <1>1 DEF StringLess, KLen
<1> QED
  BY <1>2, <1>3, <1>4, <1>5

\* The operators < and == of data_type2 order the keys of a map, of either
\* type, as a search tree needs: for two keys one is smaller or they are
\* equal, never both, and smaller is transitive.
THEOREM KeysAreOrdered ==
  \A k_type \in BOOLEAN : \A a, b, c \in Bytes(KLen) :
    /\ ~ KeyLess(k_type, a, a)
    /\ KeyLess(k_type, a, b) /\ KeyLess(k_type, b, c) => KeyLess(k_type, a, c)
    /\ KeyLess(k_type, a, b) \/ KeyLess(k_type, b, a) \/ KeyEqual(k_type, a, b)
    /\ KeyEqual(k_type, a, b) => ~ KeyLess(k_type, a, b)
<1> SUFFICES ASSUME NEW k_type \in BOOLEAN,
                    NEW a \in Bytes(KLen), NEW b \in Bytes(KLen), NEW c \in Bytes(KLen)
             PROVE  /\ ~ KeyLess(k_type, a, a)
                    /\ KeyLess(k_type, a, b) /\ KeyLess(k_type, b, c)
                         => KeyLess(k_type, a, c)
                    /\ KeyLess(k_type, a, b) \/ KeyLess(k_type, b, a)
                         \/ KeyEqual(k_type, a, b)
                    /\ KeyEqual(k_type, a, b) => ~ KeyLess(k_type, a, b)
  OBVIOUS
<1>1. CASE k_type
  BY <1>1, StringOrder DEF KeyLess, KeyEqual
<1>2. CASE ~ k_type
  <2>1. \A x \in Bytes(KLen) : TransBlockToInt(x, 0) \in Int
    <3> TAKE x \in Bytes(KLen)
    <3>1. x \in [0 .. 31 -> 0 .. 255]
      BY SMTT(30) DEF Bytes, Byte, KLen
    <3>2. \A n \in 0 .. 255 : n \in Int
      OBVIOUS
    <3>3. x[0] \in Int /\ x[1] \in Int /\ x[2] \in Int /\ x[3] \in Int
      BY <3>1, <3>2
    <3> QED
      BY <3>3 DEF TransBlockToInt
  <2> QED
    BY <1>2, <2>1 DEF KeyLess, KeyEqual
<1> QED
  BY <1>1, <1>2

\* Keys made from numbers are ordered like the numbers, whatever the buffer
\* held behind the four bytes.
THEOREM NumbersKeepTheirOrder ==
  \A m, n \in Unsigned : \A a, b \in Bytes(KLen) :
    /\ KeyLess(FALSE, PutIntToBlock(a, 0, m), PutIntToBlock(b, 0, n)) <=> m < n
    /\ KeyEqual(FALSE, PutIntToBlock(a, 0, m), PutIntToBlock(b, 0, n)) <=> m = n
<1> SUFFICES ASSUME NEW m \in Unsigned, NEW n \in Unsigned,
                    NEW a \in Bytes(KLen), NEW b \in Bytes(KLen)
             PROVE  /\ KeyLess(FALSE, PutIntToBlock(a, 0, m), PutIntToBlock(b, 0, n))
                          <=> m < n
                    /\ KeyEqual(FALSE, PutIntToBlock(a, 0, m), PutIntToBlock(b, 0, n))
                          <=> m = n
  OBVIOUS
<1>1. /\ TransBlockToInt(PutIntToBlock(a, 0, m), 0) = m
      /\ TransBlockToInt(PutIntToBlock(b, 0, n), 0) = n
  BY IntSurvives DEF KLen
<1> QED
  BY <1>1 DEF KeyLess, KeyEqual

\* A key that was assigned equals the one it was copied from, also where only
\* four of its bytes were copied.
THEOREM AssignedKeysAreEqual ==
  \A k_type \in BOOLEAN : \A a, b \in Bytes(KLen) :
    KeyEqual(k_type, AssignKey(k_type, a, b), b)
<1> SUFFICES ASSUME NEW k_type \in BOOLEAN, NEW a \in Bytes(KLen), NEW b \in Bytes(KLen)
             PROVE  KeyEqual(k_type, AssignKey(k_type, a, b), b)
  OBVIOUS
<1>1. CASE k_type
  BY <1>1 DEF KeyEqual, AssignKey, KLen
<1>2. CASE ~ k_type
  <2>1. \A i \in {0, 1, 2, 3} : AssignKey(k_type, a, b)[i] = b[i]
    BY <1>2 DEF AssignKey, KLen
  <2> QED
    BY <1>2, <2>1 DEF KeyEqual, TransBlockToInt
<1> QED
  BY <1>1, <1>2

\* uprint tells two names apart exactly if they differ within the buffer:
\* names that fit are never confused, longer ones are cut.
THEOREM NamesAreCut ==
  \A len \in Nat : \A a, b \in Name :
    /\ Uprint(len, a) \in Bytes(len)
    /\ Len(a) <= len /\ Len(b) <= len /\ Uprint(len, a) = Uprint(len, b) => a = b
    /\ Len(a) >= len /\ Len(b) >= len /\ (\A i \in 1 .. len : a[i] = b[i])
         => Uprint(len, a) = Uprint(len, b)
<1> SUFFICES ASSUME NEW len \in Nat, NEW a \in Name, NEW b \in Name
             PROVE  /\ Uprint(len, a) \in Bytes(len)
                    /\ Len(a) <= len /\ Len(b) <= len /\ Uprint(len, a) = Uprint(len, b)
                         => a = b
                    /\ Len(a) >= len /\ Len(b) >= len /\ (\A i \in 1 .. len : a[i] = b[i])
                         => Uprint(len, a) = Uprint(len, b)
  OBVIOUS
<1>1. /\ Len(a) \in Nat /\ \A i \in 1 .. Len(a) : a[i] \in Byte \ {0}
      /\ Len(b) \in Nat /\ \A i \in 1 .. Len(b) : b[i] \in Byte \ {0}
  BY DEF Name
<1>2. \A i \in 0 .. len - 1 : (IF i < Len(a) THEN a[i + 1] ELSE 0) \in Byte
  <2>1. \A i \in 0 .. len - 1 : i < Len(a) => i + 1 \in 1 .. Len(a)
    BY <1>1
  <2> QED
    BY <1>1, <2>1 DEF Byte
<1>3. Uprint(len, a) \in Bytes(len)
  BY <1>2 DEF Uprint, Bytes
<1>4. ASSUME Len(a) <= len, Len(b) <= len, Uprint(len, a) = Uprint(len, b)
      PROVE  a = b
  <2>1. \A i \in 0 .. len - 1 :
          (IF i < Len(a) THEN a[i + 1] ELSE 0) = (IF i < Len(b) THEN b[i + 1] ELSE 0)
    BY <1>4 DEF Uprint
  <2>2. Len(a) = Len(b)
    <3>1. CASE Len(a) < Len(b)
      <4>1. Len(a) \in 0 .. len - 1 /\ Len(a) + 1 \in 1 .. Len(b)
        BY <1>1, <1>4, <3>1
      <4>2. b[Len(a) + 1] = 0
        BY <1>1, <2>1, <3>1, <4>1
      <4> QED
        BY <1>1, <4>1, <4>2
    <3>2. CASE Len(b) < Len(a)
      <4>1. Len(b) \in 0 .. len - 1 /\ Len(b) + 1 \in 1 .. Len(a)
        BY <1>1, <1>4, <3>2
      <4>2. a[Len(b) + 1] = 0
        BY <1>1, <2>1, <3>2, <4>1
      <4> QED
        BY <1>1, <4>1, <4>2
    <3> QED
      BY <1>1, <3>1, <3>2
  <2>3. ASSUME NEW i \in 1 .. Len(a)
        PROVE  a[i] = b[i]
    <3>1. i - 1 \in 0 .. len - 1 /\ i - 1 < Len(a) /\ i - 1 < Len(b) /\ (i - 1) + 1 = i
      BY <1>1, <1>4, <2>2
    <3> QED
      BY <2>1, <3>1
  <2>4. a \in Seq(Byte \ {0}) /\ b \in Seq(Byte \ {0})
    BY DEF Name
  <2> QED
    BY <2>2, <2>3, <2>4, SeqEqual
<1>5. ASSUME Len(a) >= len, Len(b) >= len, \A i \in 1 .. len : a[i] = b[i]
      PROVE  Uprint(len, a) = Uprint(len, b)
  <2>1. \A i \in 0 .. len - 1 : i < Len(a) /\ i < Len(b) /\ i + 1 \in 1 .. len
    BY <1>1, <1>5
  <2>2. \A i \in 0 .. len - 1 :
          (IF i < Len(a) THEN a[i + 1] ELSE 0) = (IF i < Len(b) THEN b[i + 1] ELSE 0)
    BY <1>5, <2>1
  <2> QED
    BY <2>2 DEF Uprint
<1> QED
  BY <1>3, <1>4, <1>5

=============================================================================
