CONSTANTS
  r1 = r1
  r2 = r2
  Runs = {r1, r2}
  Plans <- SomePlans
  LogCap = 14
SPECIFICATION Spec
INVARIANT NoNodeKillsTheRun
CHECK_DEADLOCK FALSE
