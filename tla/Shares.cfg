SPECIFICATION Spec
CONSTANTS
  NumThreads = 2
  MaxShares = 3
  Pieces = 2
  Capacity = 3
INVARIANTS
  TypeOK
  WireSound
  IdsDistinct
PROPERTY SubmitReturns
