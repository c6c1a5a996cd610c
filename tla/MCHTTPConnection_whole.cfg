SPECIFICATION Spec
CONSTANTS
  Requests <- WellFormed
  MaxRequests = 3
  Cuts <- WholeCuts
  Pipelined = FALSE
INVARIANTS
  BodiesWhole
  NothingStranded
PROPERTIES
  AnswersEachOnce
CHECK_DEADLOCK FALSE
