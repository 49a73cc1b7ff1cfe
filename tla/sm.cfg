SPECIFICATION Spec
CONSTANTS
  Server = {s1, s2}
  Client = {c1, c2}
  Gid = {g1, g2, g3, g4}
  NoGid = NoGid
  NShards = 5
  None = None
  MaxOps = 2
  MaxRequests = 2
  MaxOverlap = 2
  MaxFaults = 1
ACTION_CONSTRAINT OverlapOrSerial
SYMMETRY Symmetry
INVARIANTS TypeOK ReplicasAgreeOnGroups JoinBalances IdleIsStable QueryIsFresh
CHECK_DEADLOCK FALSE
