SPECIFICATION ComponentsSpec
CONSTANTS
  p1 = p1
  p2 = p2
  p3 = p3
  t1 = t1
  t2 = t2
  none = none
  Callers = {p1, p2}
  Backends = {"memory", "redis"}
  Window = 2
  Expiry = 4
  ScriptsFail = TRUE
  MaxDelay = 1
  MaxTime = 6
  Goroutines = {p1, p2, p3}
  Accounts = {t1, t2}
  NoAccount = none
  Admins = {p1, p2}
  Hashes = {t1, t2}
  NoApiKey = none
  MaxKeyID = 2
  Requests = {p1, p2}
  Texts = {"s1", "s2", "t1"}
  Inputs <- CacheInputs
  NoText = none
  Strategies = {"1", "3"}
  TTL = 1
  MaxEntries = 1
  Sample = 2
  MaxCacheTime = 2
  MaxChecks = 3
  PassAccounts = {t1, t2}
  NoPassAccount = none
  NoError = none
  Errors <- PassErrors
  MaxRetries = 1
  MaxFrames = 2
  Chats = {p1, p2}
  Models = {t1, t2}
  NoModel = none
  Faults = {"waiting_room_required"}
  MaxSessionRetries = 1
  MaxCreateRetries = 1
  Providers <- AdProviders
  QuotaModels = {"m", "n"}
  SessionModel <- SessionModels
  NoQuotaModel = none
  QuotaRequests = {p3}
  Limit = 1
  Day = 5
  ResetTime = 2
  ClearTime = 4
  Grace = 2
  MaxAge = 2
  MaxQuotaTime = 7
  CountedModels <- TelemetryModels
  Minute = 3
  Retention = 6
  Ranges = {4, 6}
  MaxTicks = 11
  MaxRequests = 2
  Calls <- ToolCallsAsked
  Earlier <- ToolCallsDone
  Existing <- Files
  Workdir <- ToolDir
  NoPath <- NoFile
  NoCommand <- NoShell
  MaxCalls = 2
  MaxTurns = 5
  Clients = {p1, p2}
  Channels = {"Puter", "Kimchi"}
  ChannelKey <- RecordKeys
  Names = {"x", "y"}
  Statuses = {"available", "offline"}
  Seeds <- RecordSeeds
  Offers <- RecordOffers
  Outcomes <- RecordOutcomes
  NoModelRecord = none
  NoLook = none
  MaxID = 4
  MaxOps = 2
  SessionRequests = {p1, p2}
  SessionInputs <- DirInputs
  Keys = {"k", "l"}
  Dirs = {"d", "e"}
  None = none
  SessionBackends = {"redis", "memory"}
  MaxSessions = 1
  MaxArrivals = 3
INVARIANTS
  CountExactInMemory CounterExact KeysAgree ReadWasCharged
  OneAnswer EndIsTold UndisturbedSucceeds OneCreator FiguresOfToday FiguresFit RunsAccounted
  CallsComeThrough PathsKeepTheirPlace RequestIsConversation
  RewrittenStaysInside RepeatedEffectsDropped OnlySuccessHoldsBack
  ListedIsFound WorkdirFollowsSession
PROPERTIES AcceptedApart ImplementsTracker RefusedNotSelected
SYMMETRY MCSymmetry
CHECK_DEADLOCK FALSE
