SPECIFICATION Spec
CONSTANTS
  Byte = {0, 1}
  Capacity = 3
  OverflowChecks = FALSE
PROPERTY ErrorsWriteNothing
CHECK_DEADLOCK FALSE
