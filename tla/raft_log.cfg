SPECIFICATION Spec
CONSTANTS
  Server = {s1, s2, s3}
  Command = {c, d}
  None = None
  MaxTerm = 2
  MaxIndex = 2
  MaxCalls = 1
  MaxLate = 1
  MaxApplied = 0
  MaxRestarts = 1
  MaxRaftState <- NoSnapshots
SYMMETRY Symmetry
ACTION_CONSTRAINTS PromptElections OneFault LateIsOld FirstCommand
INVARIANTS TypeOK ElectionSafety ElectionInv LogSafety LeaderCompleteness LogMatching ChosenDurable EntryIdentity
PROPERTY VotesAreFinal
CHECK_DEADLOCK FALSE
