SPECIFICATION MCSpec
CONSTANTS
  Stable = "usd"
  Bridge = "eth"
  Tokens = {"usd", "eth", "aave"}
  MaxRefreshes = 2
  MaxQuoteCycles = 2
  MaxStoreFaults = 1
  Venues = {"a", "b", "c", "d"}
  TabVenue = "a"
  Coins = {"x", "y"}
  Quotes <- SixQuotes
  Boards <- TwoBoards
  MaxCycles = 2
  Instances = {1, 2}
  LastBucket = 3
  MaxItems = 2
  Lifetime = 2
  Candles = {"a", "b"}
  MaxSeq = 4
  Lookback = 2
  BatchSize = 1
  MaxBatches = 2
  MaxExpired = 1
  MaxLoadFaults = 1
  MaxReconciles = 1
  Writers = {"stream", "rest"}
  Tickers <- ThreeTickers
  LastInstant = 2
  MaxWriteFaults = 1
  Upstreams <- UpstreamOrder
  Serves <- UpstreamServes
  Callers = {1, 2}
  CacheCapacity = 1
  CacheLife = 1
  FactLife = 1
  LastSecond = 2
  Evidences = {1, 2, 3}
  Facts = {1, 2}
  WindowLength = 2
  FreshFor = 1
  MinSamples = 1
  RecoveryWindows = 2
  EvidenceLimit = 2
  LastHour = 3
  Readers = {1, 2}
  Versions = {1, 2}
  ResponseLife = 1
  RequestTime = 1
  LastTick = 4
  Pages <- ShortPages
CHECK_DEADLOCK FALSE
 
INVARIANT WeightsFilled
INVARIANT SnapshotsCoherent
INVARIANT TickersDerived
INVARIANT WarehouseFollows
INVARIANT AnswersAcceptable
INVARIANT HealthEarned
INVARIANT ResearchSound
 
