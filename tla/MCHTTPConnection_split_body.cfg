SPECIFICATION Spec
CONSTANTS
  Requests <- WellFormed
  MaxRequests = 1
  Cuts <- BodyCuts
  Pipelined = FALSE
INVARIANTS
  IncompleteBodyWaits
CHECK_DEADLOCK FALSE
