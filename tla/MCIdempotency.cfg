SPECIFICATION Spec
CONSTANTS
  Calls = {c1, c2, c3}
  Scopes = {s1, s2}
  Hashes = {h1, h2}
  RunIds = {r1}
  NoRun = NoRun
  NoRecord = NoRecord
  NoCall = NoCall
  TTL = 1
  MaxAge = 3
  MaxTime = 2
SYMMETRY Symmetry
INVARIANTS TypeOK ExactlyOncePerScope RunIdBoundOnce ReplayIsFaithful CompletedIsRecorded
CHECK_DEADLOCK FALSE
