SPECIFICATION FairSpec
CONSTANTS
  Sessions = {s1, s2, s3}
  PoolSize = 2
  NoSession = NoSession
  NoThread = NoThread
  MaxReports = 1
  MaxLosses = 1
  MaxQueue = 2
INVARIANTS
  TypeOK
  ProcessSurvives
  PoolBuiltFirst
  NeverNull
PROPERTIES
  ClientRuns
  ServerStarts
  CurvesAnswered
