SPECIFICATION Spec
CONSTANTS
  Threads = {t1, t2, t3, t4}
  Sessions = {s1, s2, s3, s4, s5}
  PoolSize = 2
  NoSession = NoSession
  NoThread = NoThread
SYMMETRY Symmetry
INVARIANTS
  RowsHaveSession
