\* Two processes, each of which may be killed between any two system calls, and
\* resets while nobody is in a call.
CONSTANTS
  p1 = p1
  p2 = p2
  Procs = {p1, p2}
  MaxNodeBlockNumber = 2
  FileLimit = 2
  MaxRead = 1
  NoProc = NoProc
SPECIFICATION ResetCrashSpec
SYMMETRY Symmetry
INVARIANTS GrantIsExclusive FreeStackSound UsedMemoryCoversLive
