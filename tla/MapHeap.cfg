\* Three insertions leave a son with a smaller RANDOM than its father.
CONSTANTS
  m1 = m1
  b1 = b1
  b2 = b2
  b3 = b3
  h1 = h1
  v1 = v1
  Maps = {m1}
  Blocks = {b1, b2, b3}
  Handles = {h1}
  Keys = {1, 2, 3}
  Values = {v1}
  Randoms = {1, 2, 3}
  MaxTop = 3
  NULL = NULL
  NONE = NONE
SPECIFICATION Spec
INVARIANTS HeapOrder
