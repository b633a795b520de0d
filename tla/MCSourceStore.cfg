SPECIFICATION SourceSpec
CONSTANTS
  Sources = {a}
  Internal = {}
  MaxTime = 2
  Retention = 0
  IndexLag = 0
  MaxRows = 2
  MinObservations = 1
  RequireComplete = TRUE
CHECK_DEADLOCK FALSE
INVARIANT VerifiedIsAllThatHappened
