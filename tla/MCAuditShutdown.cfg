SPECIFICATION AuditSpec
CONSTANTS
  MaxEntries = 2
CHECK_DEADLOCK FALSE
PROPERTIES
  AlwaysEnds
