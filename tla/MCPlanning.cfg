SPECIFICATION Spec
CONSTANTS
  Imports = {i1}
  Idle = Idle
  Applied = Applied
  MaxTime = 1
  MaxCalls = 4
  MaxTroubles = 1
  Plans = {p1, p2}
  NoPlan = NoPlan
  Texts = {x1, x2}
  Readers = {v1}
  NoCopy = NoCopy
  NoJob = NoJob
  Decisions = {d1, d2}
  NoDecision = NoDecision
  Blocking = {d2}
  Listers = {w1}
  NoDeed = NoDeed
SYMMETRY Symmetry
INVARIANTS TypeOK OneActive LatestStands AnsweredOnce OwnRevision
CHECK_DEADLOCK FALSE
