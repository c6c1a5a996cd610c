SPECIFICATION FairSpec
CONSTANTS
  Threads = {t1, t2, t3}
  Sessions = {s1, s2, s3, s4}
  PoolSize = 1
  NoSession = NoSession
  NoThread = NoThread
INVARIANTS
  TypeOK
  Exclusive
  SessionBounds
PROPERTIES
  LendsExclusively
  StatementsEnd
