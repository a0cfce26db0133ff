SPECIFICATION Spec
CONSTANTS
  src = src
  srcLib = srcLib
  docs = docs
  root = root
  a = a
  b = b
  Runs = {a}
  Scopes <- MCScopes
  Overlap <- MCOverlap
  Lease = 2
  Procs = {p1, p2}
  NoProc = NoProc
  NoPut = NoPut
  NoRun = NoRun
  Parent <- Flat
  Level <- AllLegacy
  Budget <- OneChild
  Claims <- Claims1
  Outcomes = {"SUCCEEDED", "FAILED"}
  MayStall = TRUE
  MayFail = TRUE
  MutexMayDrop = TRUE
  MaxTime = 4
  MaxRev = 2
PROPERTY FirstTerminalWins
CHECK_DEADLOCK FALSE
