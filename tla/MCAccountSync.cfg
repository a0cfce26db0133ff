SPECIFICATION FairSpec
CONSTANTS
  Requests = {c1}
  Rounds = {t1}
  NoProc = NoProc
  NoOp = NoOp
  NoSnap = NoSnap
  NoIntent = NoIntent
  SLA = 1
  Health = 2
  Kinds = {"sync", "notify", "beat"}
  MaxTroubles = 1
INVARIANTS TypeOK NoLostUpdate ParityIsEarned GateFollowsSnapshot
PROPERTIES HeartbeatIsServed SilenceIsNoticed
