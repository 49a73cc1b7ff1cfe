SPECIFICATION Spec
CONSTANTS
  Server = {s1, s2, s3}
  Command = {c}
  None = None
  MaxTerm = 1
  MaxIndex = 2
  MaxCalls = 1
  MaxLate = 0
  MaxApplied = 2
  MaxRestarts = 1
  MaxRaftState = 2
SYMMETRY Symmetry
ACTION_CONSTRAINTS PromptElections TwoServices
INVARIANTS NoPanic SnapshotSound
PROPERTIES ImplementsReplicatedLog LeaderAppendOnly
CHECK_DEADLOCK FALSE
