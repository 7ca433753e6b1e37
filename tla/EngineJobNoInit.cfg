SPECIFICATION Spec
CONSTANTS
  NumThreads = 3
  Seeds = {s1, s2}
  NoSeed = NoSeed
  WarmSeeds = {NoSeed}
  BatchSize = 2
  MaxJobs = 3
  NoJob = NoJob
  Addresses = {a1, a2, a3}
  Free = Free
  Builds = {b1, b2}
  NoBuild = NoBuild
  NoVm = NoVm
  NoThread = NoThread
PROPERTIES
  JobTriggersInit
