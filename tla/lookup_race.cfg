SPECIFICATION Spec
CONSTANTS
  Packetiser = {p1}
  Cores = {2}
PROPERTY LookupKeepsRings
CHECK_DEADLOCK FALSE
