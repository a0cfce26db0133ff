SPECIFICATION Spec
CONSTANTS
  src = src
  srcLib = srcLib
  docs = docs
  root = root
  a = a
  b = b
  Runs = {root, a, b}
  Scopes <- MCScopes
  Overlap <- MCOverlap
  Lease = 2
  Procs = {p1}
  NoProc = NoProc
  NoPut = NoPut
  NoRun = NoRun
  Parent <- Tree
  Level <- Levels
  Budget <- OneChild
  Claims <- OneScope
  Outcomes = {"SUCCEEDED"}
  MayStall = FALSE
  MayFail = TRUE
  MutexMayDrop = FALSE
  MaxTime = 2
  MaxRev = 2
INVARIANTS TypeOK LiveRunsApart
PROPERTY SpawnBudgetKept
CHECK_DEADLOCK FALSE
