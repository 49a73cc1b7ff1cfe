SPECIFICATION FairSpec
CONSTANTS
  s1 = s1
  t1 = t1
  t2 = t2
  g1 = g1
  g2 = g2
  Gid = {g1, g2}
  Peers <- TwoGroups
  Client = {c1}
  Key = {0}
  NShards = 2
  NoGid = NoGid
  None = None
  Nil = Nil
  Absent = Absent
  MaxRaftState = 2
  MaxOps = 1
  MaxConfigs = 2
  MaxLog = 12
  MaxFaults = 1
ACTION_CONSTRAINTS JoinFirst AppendThenUse FirstIsTaken SecondJoins FaultLater FollowerLater
INVARIANTS TypeOK  AnswersAreCommitted
PROPERTY ComesToRest
CHECK_DEADLOCK FALSE
