CONSTANTS
  Calls = {g1, g2}
  Tokens = {t1}
  NoToken = NoToken
  Idle = Idle
  Window = 2
  MaxPerWindow = 1
  CacheTTL = 2
  CacheSize = 1
  LookupSlots = 1
  MaxTime = 3
  Prompts = {claude}
  Conversations = {codex}
  Messages = {opencode}
  Tools = {u1, u2}
  NoTool = NoTool
  MaxMoments = 2
  MaxRequests = 2
  MaxLengths = 1
  Codes = {k1, k2}
  CodeUsers = {q1, q2}
  AtRest = AtRest
  MaxPending = 1
  CodeTTL = 1
  MaxCodeTime = 1
  Machines = {d1}
  AuthThreads = {a1, a2}
  NoAuth = NoAuth
  RowLocks = FALSE
  MaxTokens = 4
  Migrators = {mg1}
  Sessions = {s1, s2}
  SchemaCommits = TRUE
  MaxFaults = 2
  DayLength = 2
  LastInstant = 5
  MaxRows = 2
  Zones <- TestZones
  Responses <- TestResponses
  Unbounded = Unbounded
  Providers = {p1, p2}
  AnyProvider = AnyProvider
  PricedRows = {w1}
  Pricers = {x1, x2}
  NotPricing = NotPricing
  NoOffer = NoOffer
  Offers <- TestOffers
  TierFloor = 2
  NightStart = 3
  NightEnd = 1
  LockingReads = FALSE
  InputTokens = {1, 2}
  Hours = {1, 3}
  Api = Api
  Proxy = Proxy
  BootOnly = {}
  Refreshers = {f1, f2}
  NotRefreshing = NotRefreshing
  MaxPatches = 2
SPECIFICATION PartsSpec
INVARIANTS PartsTypeOK RateLimitHolds NoStuckRefusal ToolCountsFollowRows NoToolForgotten CodeRedeemedOnce DeviceCredentials OneLiveBrowser MigrationComplete EvaluationsKept ReportsAgree BoundRowsReplay 
SYMMETRY PartSymmetry
CHECK_DEADLOCK FALSE
