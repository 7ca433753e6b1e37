SPECIFICATION Spec
CONSTANTS
  MaxStarts = 2
  MaxInstances = 2
  MaxPauses = 1
INVARIANTS
  TypeOK
  SettledTruth
  LockAccounted
PROPERTIES
  ImplementsNative
  StopReturns
  RefusalEndsService
