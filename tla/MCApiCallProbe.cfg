SPECIFICATION FairSpec
CONSTANTS
  Calls = {1, 2, 3}
  FailureThreshold = 2
  RecoveryTimeout = 2
  MaxRetries = 1
PROPERTIES
  ProbeEventually
