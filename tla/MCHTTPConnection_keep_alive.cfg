SPECIFICATION Spec
CONSTANTS
  Requests <- WellFormed
  MaxRequests = 1
  Cuts <- WholeCuts
  Pipelined = FALSE
INVARIANTS
  KeepAliveDecides
CHECK_DEADLOCK FALSE
