SPECIFICATION Spec
CONSTANTS
  Tasks = {t1}
  Rail = Rail
  NoRow = NoRow
  Imports = {i1}
  NoOp = NoOp
  NoImport = NoImport
  NoWork = NoWork
  MaxContent = 1
  MaxCalls = 7
  MaxTroubles = 0
  r1 = r1
  r2 = r2
  r3 = r3
  a1 = a1
  a2 = a2
  h1 = h1
  h2 = h2
  Runs = {r1, r2, r3}
  NoRun = NoRun
  Agent <- MCAgent
  Thread <- MCThread
  Verifiers = {r2, r3}
  LastStage = 3
  VerifierStages <- MCVerifierStages
INVARIANT AdvanceStaysPossible
CHECK_DEADLOCK FALSE
