SPECIFICATION Spec
CONSTANTS
  MaxStarts = 2
  MaxInstances = 2
  MaxPauses = 0
INVARIANT StoppedMeansStopped
