SPECIFICATION Spec
CONSTANTS
  Server = {s1, s2, s3}
  Command = {c}
  None = None
  MaxTerm = 1
  MaxIndex = 2
  MaxCalls = 1
  MaxLate = 1
  MaxApplied = 2
  MaxRestarts = 0
  MaxRaftState = 2
SYMMETRY Symmetry
ACTION_CONSTRAINTS PromptElections StartedFirst NothingLost OnePeerIsQuick
PROPERTY ImplementsReplicatedLog
CHECK_DEADLOCK FALSE
