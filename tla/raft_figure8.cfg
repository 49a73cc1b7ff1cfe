SPECIFICATION Spec
CONSTANTS
  Server <- Five
  Command <- Commands
  None = None
  MaxTerm = 4
  MaxIndex = 3
  MaxCalls = 1
  MaxLate = 0
  MaxApplied = 1
  MaxRestarts = 0
  MaxRaftState <- NoSnapshots
ACTION_CONSTRAINT TakeTurns
INVARIANT AppliedValuesMatch
CHECK_DEADLOCK FALSE
