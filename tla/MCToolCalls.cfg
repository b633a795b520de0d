SPECIFICATION ToolCallsSpec
CONSTANTS
  Areas = {"http", "rapid", "audit", "playbook", "threeSum", "cores", "paging", "tools"}
  Calls = {1, 2, 3}
  FailureThreshold = 2
  RecoveryTimeout = 2
  MaxRetries = 1
  Callers = {1, 2}
  Keys = {"x", "y"}
  Allowance = 2
  CacheSize = 1
  Months = 2
  MaxLost = 1
  MaxEntries = 3
  Templates = {"c2", "lateral", "parent", "web"}
  Ladder <- MCLadder
  Runs = {r}
  NoAddress = NoAddress
  Suspects <- MCSuspects
  Mates <- MCMates
  Levels <- MCLevels
  Suspicion <- MCSuspicion
  Vulnerable = "first"
  Requests <- MCRequests
  MaxCalls = 1
  Tactics = {"recon", "impact", "exfiltration"}
  Unknown = "other"
  MaxAge = 3
  MinTransitions = 1
  NoTarget = 0
  AlertRows <- MCAlertRows
  FitHistories <- MCFitHistories
  Models <- MCModels
  Contexts <- MCContexts
  Sightings <- MCSightings
  Cutoffs = {1, 2}
  MaxHorizon = 2
  Alerts <- MCAlerts
  At <- MCAt
  TooLarge = {3}
  Limit = 2
  Room = 2
  Blocks = 1
  MaxScan = 4
  TotalCap = 4
  TailLines = 5
  PagingTools = {"alerts", "local", "search", "crawl", "crawlMarkdown", "domain", "export"}
CHECK_DEADLOCK FALSE
INVARIANTS
  CallsTypeOK
  HalfOpenHasOwner
  SpendBounded
  AuditConserved
  NoBlindAnswer
  EvidenceNeverLowers
  TriggersEarned
  SequencesFaithful
  LineagesStable
  GivesUpAfterAll
  ForecastsHold
  NothingLeftOut
PROPERTIES
  NoRequestWhileCooling
  EveryCallEnds
  ProbeUnlessAborted
  WaitersServed
  ShutdownEnds
