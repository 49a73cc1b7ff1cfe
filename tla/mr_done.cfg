SPECIFICATION Spec
CONSTANTS
  Worker = {w1, w2}
  None = None
  NMap = 2
  NReduce = 2
  MaxCrashes = 1
SYMMETRY WorkerSymmetry
INVARIANT DoneMeansOutput
CHECK_DEADLOCK FALSE
