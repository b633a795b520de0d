\* A line of the history cut inside a character: nothing bounds the file again.
SPECIFICATION HistorySpec
CONSTANTS
  Addresses = {"a1", "a2"}
  HistoryMax = 2
  MaxVerdicts = 5
INVARIANT HistoryBounded
CHECK_DEADLOCK FALSE
