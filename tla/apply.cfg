SPECIFICATION FairSpec
CONSTANTS
  Handler = {h1}
  Capacity = 2
  MaxIndex = 3
INVARIANTS TypeOK BatchFits
PROPERTIES AppliesCommitted CallsReturn
CHECK_DEADLOCK FALSE
