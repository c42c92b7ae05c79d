\* clear frees the nodes and leaves the header on disk as it was.
CONSTANTS
  p1 = p1
  b1 = b1
  b2 = b2
  b3 = b3
  v1 = v1
  Procs = {p1}
  Blocks = {b1, b2, b3}
  Values = {v1}
  NULL = NULL
SPECIFICATION ClearSpec
PROPERTIES ClearEmpties
