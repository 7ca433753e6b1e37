SPECIFICATION Spec
CONSTANTS
  NumThreads = 2
  Seeds = {s1, s2}
  NoSeed = NoSeed
  WarmSeeds = {NoSeed, s1}
  BatchSize = 1
  MaxJobs = 2
  NoJob = NoJob
  Addresses = {a1, a2}
  Free = Free
  Builds = {b1, b2}
  NoBuild = NoBuild
  NoVm = NoVm
  NoThread = NoThread
INVARIANTS
  TypeOK
  RebuildSound
  AssuredVm
  SteadySeedSafe
  ColdStartIdle
PROPERTIES
  StopCompletes
  JobUptake
