SPECIFICATION ServicesSpec
CONSTANTS
  Services = {"source", "sweep", "auth", "history", "gate", "cluster", "case", "ioc", "memory", "abuse", "rag"}
  Sources = {a, c}
  Internal = {c}
  MaxTime = 2
  Retention = 1
  IndexLag = 1
  MaxRows = 1
  MinObservations = 1
  RequireComplete = FALSE
  Newest = 3
  Stamp <- MCStamp
  PageSize = 1
  MaxHits = 2
  MaxSweeps = 2
  MaxChanges = 2
  Clients = {w1, w2}
  TokenTtl = 2
  RefreshBuffer = 1
  HttpTimeout = 1
  Writes = 1
  Reads = 2
  RetryAfterMax = 1
  BackoffMax = 1
  Retries = 1
  Addresses = {a, b}
  HistoryMax = 2
  MaxVerdicts = 6
  Peers = {p, q}
  PeerLimit = 2
  ToolLimit = 1
  WindowLength = 2
  MaxKeys = 1
  MaxSecond = 4
  MaxRequests = 2
  Fits = {f, g, h}
  Entities = {e}
  Fitters = {v, w}
  MaxFits = 2
  FitTtl = 1
  MaxHour = 2
  MaxSaves = 3
  CaseMax = 2
  MaxCases = 3
  MaxItems = 2
  Indicators = {i, j}
  IocMax = 1
  IocTtl = 1
  PromoteAge = 0
  MaxDay = 3
  MaxSightings = 4
  Writers = {w1, w2}
  Verdicts <- MCVerdicts
  Notes <- MCNotes
  NoNote = ""
  Marked <- MCMarked
  Folded <- MCFolded
  Cap = 2
  Ttl = 1
  SupportCap = 2
  DecayAge = 1
  MaxMoment = 2
  MaxCalls = 3
  Nobody = Nobody
  Reporters = {w1, w2}
  Reportable = {1, 2}
  Whitelisted = {2}
  Window = 1
  MaxClock = 1
  Ingesters = {w1, w2}
  Docs = {1, 2, 3}
  CaseDocs = {1, 2}
  FirstCases <- MCFirstCases
  MaxLength = 2
  ParentChild = TRUE
  MaxChunks = 5
  Batch = 2
  File <- MCFile
  Posts <- MCPosts
  MaxEdits = 1
SYMMETRY ServiceSymmetry
CHECK_DEADLOCK FALSE
INVARIANTS
  ServicesTypeOK
  VerifiedHasAll
  CompleteIsExact
  TokenAgeBounded
  HistoryHeals
  LimitsHold
  FitsKept
  CasesKept
  PromotionEarned
  CapHolds
  ConfirmationsConserved
  ReportsAccountedFor
  CorpusTrue
PROPERTIES
  LedgerKept
  AuditRowsKept
  OnlyAnalystsConfirm
  NotesSurvive
