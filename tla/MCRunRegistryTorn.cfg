SPECIFICATION Spec
CONSTANTS
  src = src
  srcLib = srcLib
  docs = docs
  root = root
  a = a
  b = b
  Runs = {a, b}
  Scopes <- MCScopes
  Overlap <- MCOverlap
  Lease = 2
  Procs = {p1}
  NoProc = NoProc
  NoPut = NoPut
  NoRun = NoRun
  Parent <- Flat
  Level <- AllLegacy
  Budget <- OneChild
  Claims <- Claims2
  Outcomes = {"SUCCEEDED"}
  MayStall = FALSE
  MayFail = TRUE
  MutexMayDrop = FALSE
  MaxTime = 4
  MaxRev = 2
SYMMETRY Symmetry
INVARIANT LiveRunsNeverCollide
CHECK_DEADLOCK FALSE
