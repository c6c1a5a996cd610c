SPECIFICATION FairSpec
CONSTANTS
  MaxReports = 3
  MaxLosses = 2
  MaxQueue = 3
INVARIANTS
  TypeOK
  AskedInService
PROPERTIES
  NoReportDropped
  StartupEnds
  LoopComesBack
  CallbackReturns
  Resubscribes
  ReportsArrive
