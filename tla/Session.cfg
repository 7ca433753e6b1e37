SPECIFICATION Spec
CONSTANTS
  Threads = {t1, t2}
  MaxSent = 3
  NoJob = NoJob
INVARIANTS
  TypeOK
  NoJobMissed
  ShareTally
PROPERTIES
  SignalEnds
  CloseNoticed
  InOrder
