SPECIFICATION RSpec
CONSTANTS
  src = src
  Runs = {a, b}
  Scopes = {src}
  Overlap <- Same
  Lease = 1
  Procs = {p1}
  NoProc = NoProc
  NoPut = NoPut
  NoRun = NoRun
  Parent <- Flat
  Level <- AllLegacy
  Budget <- Unlimited
  Claims <- OneClaim
  Outcomes = {"SUCCEEDED"}
  MayStall = TRUE
  MayFail = TRUE
  MutexMayDrop = FALSE
  Leaders = {l1}
  NoLeader = NoLeader
  NoJob = NoJob
  NoPlan = NoPlan
  Grace = 0
  MaxTime = 1
  MaxRev = 3
  MaxPlans = 1
  MaxBoardRev = 1
SYMMETRY Symmetry
INVARIANTS LiveRunHoldsItsScopes TerminalRunHoldsNothing
PROPERTIES SparesTheLiving OutcomeStays
CHECK_DEADLOCK FALSE
