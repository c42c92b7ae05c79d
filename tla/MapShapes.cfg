\* One map with four keys: every shape its tree can take.
CONSTANTS
  m1 = m1
  b1 = b1
  b2 = b2
  b3 = b3
  b4 = b4
  h1 = h1
  v1 = v1
  v2 = v2
  Maps = {m1}
  Blocks = {b1, b2, b3, b4}
  Handles = {h1}
  Keys = {1, 2, 3, 4}
  Values = {v1, v2}
  Randoms = {1, 2, 3}
  MaxTop = 5
  NULL = NULL
  NONE = NONE
SPECIFICATION Spec
SYMMETRY Symmetry
VIEW View
INVARIANTS TypeOK SearchOrder NodesOwned KeysListed HashUnique
PROPERTIES StoreSpec
