\* Two maps on one set of blocks, used through two variables.
CONSTANTS
  m1 = m1
  m2 = m2
  b1 = b1
  b2 = b2
  b3 = b3
  h1 = h1
  h2 = h2
  v1 = v1
  v2 = v2
  Maps = {m1, m2}
  Blocks = {b1, b2, b3}
  Handles = {h1, h2}
  Keys = {1, 2, 3}
  Values = {v1, v2}
  Randoms = {1}
  MaxTop = 3
  NULL = NULL
  NONE = NONE
SPECIFICATION Spec
SYMMETRY SharedSymmetry
VIEW View
INVARIANTS NodesOwned
PROPERTIES StoreSpec
