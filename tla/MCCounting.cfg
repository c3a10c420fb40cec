SPECIFICATION Spec
CONSTANTS
  Items = {1, 2, 3}
  ItemBucket <- MCBucket
  ItemService <- MCService
  ItemName <- MCName
  AccKinds = {"aggregates", "rollups", "edges", "standalone", "metrics", "reader", "writer"}
  MaxNames = 1
  MaxServices = 1
  ChunkRows = 1
  HourBuckets = 2
  AccFaults = 1
  MpModes = {"single", "labelled", "shared", "hist"}
  Growth <- MCGrowth
  FirstTotal <- MCFirst
  Heartbeat = 2
  MpMaxTime = 6
  MpMaxPoints <- MCPoints
  MpMaxStarts = 3
  MpMaxFaults = 2
  StoreAttempts = 2
  HistBounds <- MCBounds
  MaxObserved = 6
  MrKinds = {"sum", "delta_sum", "histogram", "delta_histogram"}
  MrPaces <- MCPaces
  BucketLen = 2
  HourLen = 2
  MrMaxTime = 9
  LateTicks = 1
  MrMaxEvents = 2
  SsModes = {"writer", "standalone", "mix"}
  SsSpans = 2
  SsMaxTime = 3
  SsBucket = 2
  TailWindow = 2
  FlushEvery = 1
  Grains = {1, 4}
  SpoolBatch = 2
  SsAttempts = 2
  ReadTicks = 1
  MaxSsFaults = 1
  MixKept = {0, 1, 3}
  MixWeights = {0, 3, 7}
  MixRatio = 2
  MixTimes = {0, 5}
  SmRoutes = {"unmatched", "r"}
  SmClasses = {"2xx", "5xx"}
  SmMaxRequests = 2
  SmMaxExports = 3
  SmMaxStarts = 2
INVARIANTS
  AccountsBalance
  SeriesFaithful
  RollupsFaithful
  PagesFaithful
  SelfMetricsExact
CHECK_DEADLOCK FALSE
