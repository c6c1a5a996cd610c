SPECIFICATION Spec
CONSTANTS
  Requests <- AllRequests
  MaxRequests = 3
  Cuts <- Kinds
  Pipelined = TRUE
INVARIANTS
  TypeOK
  HandledInOrder
  OwnBodyOnly
  SilentAfterClose
CHECK_DEADLOCK FALSE
