SPECIFICATION Spec
CONSTANTS
  Procs = {p1, p2, p3}
  NoProc = NoProc
  Boards = {b1}
  PoolSize = 3
  QueueLimit = 1
  MayLoseSession = TRUE
INVARIANT PoolAccounted
PROPERTIES EveryRequestEnds ImplementsMutex
