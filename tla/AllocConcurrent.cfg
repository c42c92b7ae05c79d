\* Two processes, no crash: the allocator implements a pool of blocks.
CONSTANTS
  p1 = p1
  p2 = p2
  Procs = {p1, p2}
  MaxNodeBlockNumber = 2
  FileLimit = 2
  NoProc = NoProc
SPECIFICATION FairSpec
INVARIANTS TypeOK UsedMemoryExact
PROPERTIES MCPoolSpec LockIsReleased
