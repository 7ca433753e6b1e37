SPECIFICATION Spec
CONSTANTS
  Wrappers = {w1, w2}
  Seeds = {s1, s2}
  Addr = {a1, a2, a3, a4, a5, a6, a7}
  Null = Null
  Free = Free
  NoCall = NoCall
  Counts = {0, 1, 2}
  Levels = {19, 39, 40}
  Temperatures = {400, 401, 451, 551}
INVARIANTS
  TypeOK
  Owned
  SeedServed
