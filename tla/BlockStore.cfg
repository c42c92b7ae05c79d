\* Two processes on a node file and a record file, killed at any point.
SPECIFICATION FairSpec
CONSTANTS
  Procs = {p1, p2}
  NodeFiles = {0}
  RecordFiles = {0}
  MaxLine = 1
  Values = {u, v}
  Zero = Zero
INVARIANTS TypeOK ReadIsWhole
PROPERTIES StoreSpec LockIsReleased
