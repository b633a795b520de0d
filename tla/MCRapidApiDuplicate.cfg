SPECIFICATION RapidFairSpec
CONSTANTS
  Callers = {1, 2}
  Keys = {"x", "y"}
  Allowance = 2
  CacheSize = 1
  Months = 2
  MaxLost = 1
PROPERTIES
  NoPaidDuplicate
