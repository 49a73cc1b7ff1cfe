SPECIFICATION Spec
CONSTANTS
  Worker = {w1, w2}
  None = None
  NMap = 3
  NReduce = 2
  MaxCrashes = 1
ACTION_CONSTRAINT FewRequeued
SYMMETRY WorkerSymmetry
INVARIANT TypeOK
INVARIANT QueueCoherent
INVARIANT ReduceFindsFiles
INVARIANT MapBarrierIsEmpty
INVARIANT OnceMeansOutput
CHECK_DEADLOCK FALSE
