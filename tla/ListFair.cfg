\* One process, no crash: no block is lost and every operation ends.
CONSTANTS
  p1 = p1
  b1 = b1
  b2 = b2
  b3 = b3
  b4 = b4
  v1 = v1
  Procs = {p1}
  Blocks = {b1, b2, b3, b4}
  Values = {v1}
  NULL = NULL
SPECIFICATION FairSpec
INVARIANTS NoLeak
PROPERTIES CallReturns
