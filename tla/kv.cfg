SPECIFICATION FairSpec
CONSTANTS
  Server = {s1, s2}
  Client = {c1}
  Key = {k}
  None = None
  MaxRaftState = 2
  MaxOps = 2
  MaxRequests = 3
  MaxFaults = 1
ACTION_CONSTRAINT WriteThenUse
INVARIANTS TypeOK ReplicasFollowLog
PROPERTIES ImplementsKVStore OpsFinish
CHECK_DEADLOCK FALSE
