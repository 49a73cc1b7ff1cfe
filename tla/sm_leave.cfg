SPECIFICATION Spec
CONSTANTS
  Server = {s1}
  Client = {c1}
  Gid = {g1, g2, g3, g4, g5}
  NoGid = NoGid
  NShards = 10
  None = None
  MaxOps = 2
  MaxRequests = 2
  MaxOverlap = 2
  MaxFaults = 0
ACTION_CONSTRAINT OverlapOrSerial
SYMMETRY Symmetry
INVARIANT LeaveReassigns
CHECK_DEADLOCK FALSE
