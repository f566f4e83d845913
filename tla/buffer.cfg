SPECIFICATION Spec
CONSTANTS
  Byte = {0, 1}
  Capacity = 4
  OverflowChecks = TRUE
INVARIANT TypeOK
PROPERTY OperationsImplementBytes
CHECK_DEADLOCK FALSE
