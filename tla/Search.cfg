SPECIFICATION Spec
CONSTANTS
  Byte = 2
  Half = 3
  NonceAt = 1
  MinBlob = 5
  HashLen = 7
  LongTargets = {0, 63}
  MaxJobs = 2
INVARIANTS
  TypeOK
  ConversionsExact
  NoncesFresh
