SPECIFICATION PolicySpec
CONSTANTS
  Temperatures = {350, 400, 401, 449, 450, 451, 549, 550, 551, 649, 650, 700}
  Levels = {0, 19, 20, 21, 39, 40, 41, 80, 81, 100}
  CpuCounts = {1, 2, 3, 4, 5, 8, 9, 10, 12}
  Memories = {0, 1, 2, 3, 4, 6, 9, 16, 32}
INVARIANTS
  FlagsTruthful
  LimitsSound
