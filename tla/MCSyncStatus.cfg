SPECIFICATION FairSpec
CONSTANTS
  s1 = s1
  s2 = s2
  Servers = {s1, s2}
  Slots = {a}
  NoTick = NoTick
  NoSlot = NoSlot
  NoRow = NoRow
  Skew <- MCSkew
  Window = 0
  Imports = {i1}
  Idle = Idle
  Applied = Applied
  MaxHash = 1
  MaxRev = 2
  MaxTroubles = 1
INVARIANTS TypeOK GreenIsProof
PROPERTIES AckNeverFalls RowIsRenewed
