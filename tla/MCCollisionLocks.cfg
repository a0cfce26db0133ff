SPECIFICATION Spec
CONSTANTS
  src = src
  srcLib = srcLib
  docs = docs
  Runs = {r1, r2}
  Scopes <- MCScopes
  Overlap <- MCOverlap
  Lease = 1
  Procs = {p1, p2}
  NoProc = NoProc
  MayCrash = TRUE
  MutexMayDrop = TRUE
  MaxTime = 1
  MaxFence = 2
  MaxRev = 2
SYMMETRY Symmetry
INVARIANTS TypeOK LiveLocksNeverCollide OneHolderPerScope
PROPERTY HistoryIsImmutable
CHECK_DEADLOCK FALSE
