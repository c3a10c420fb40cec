SPECIFICATION Spec
CONSTANTS
  r1 = r1
  r2 = r2
  Ladders = {"metric", "span"}
  MetricTiers <- MCMetricTiers
  SpanTiers <- MCSpanTiers
  Windows <- MCWindows
  MaxTime = 9
  LateWrite = 1
  Lag = 1
  SpanRetry = 3
  Arriving = {2, 5}
  LateBuckets = {2}
  MaxQuiet = 1
  MaxStops = 1
  BucketsPerPass = 1
  RetSpans = {1, 2, 3}
  RetTrace <- MCRetTrace
  RetLoads <- MCRetLoads
  RetMaxTime = 5
  StagingLag = 1
  Interesting = 2
  BoringWindow = 1
  ErrorWindow = 3
  ExemplarWindow = 4
  LogWindow = 1
  ErrorLogWindow = 3
  CapWindow = 2
  CapTraces = 1
  ProjectLogWindow = 3
  SlowSampleTraces = 1
  ReclaimFloor = 1
  CursorMaxAge = 2
  BatchSize = 2
  PartSize = 1
  MaxPerCycle = 2
  PressureTiers = {"normal", "critical"}
  MaxRetStops = 1
  RetArrivals <- MCRetArrivals
  PinnedTraces = {2}
  ShLogs = {1, 2, 3}
  SampledLogs = {1}
  OldLogs = {3}
  ShMaxTime = 6
  ShArrivals <- MCShArrivals
  ShPinnable = {2}
  InsertMax = 2
  MaxShardFiles = 2
  CreateLead = 1
  EndedCloseDelay = 1
  ShardDeleteDelay = 4
  PoolCloseDelay = 1
  LogCutoff = 2
  PressedCutoff = 1
  CappedLogs = {2}
  LogCapWindow = 1
  CycleMax = 3
  MaxAttached = 3
  MaxShStops = 1
  CoRows0 = {1, 2, 3}
  CoMaxId = 5
  CopyBatch = 2
  MaxCoStops = 3
  MaxCoDeletes = 2
  CkModes = {"periodic", "ended", "recover"}
  CkReaders = {"r1"}
  CkMaxFrames = 2
  CkMaxReads = 2
  CkMaxTime = 2
  CkMaxFaults = 1
  EndedTries = 2
  BusyTimeout = 2
  BadConnTries = 3
  ReadKeys = {"a", "b"}
  StatsKeys = {"s"}
  VitalsKeys = {"v"}
  RcReqs <- MCReqs
  ReadSlots = 1
  Fresh = 1
  Stale = 1
  RequestBudget = 1
  ScanBudget = 2
  RefreshBudget = 2
  RcStores = {"memory", "redis"}
  RcMaxTime = 4
  MaxRcFaults = 1
  BdReqs <- MCReqs
  MaxBoards = 2
  MaxPanelIds = 3
  MaxQueryIds = 3
  PanelLimit = 2
  SelfPanels = 2
  MaxBdFaults = 1
  MaxBdEdits = 3
  FieldNames = {"f", "g"}
  MaxFieldIds = 3
  FieldLimit = 2
SYMMETRY ReqSymmetry
INVARIANTS
  TiersSound
  RetentionSound
  ShardsSound
  CutoverSound
  CheckpointsSound
  CacheSound
  BoardsSound
PROPERTIES
  PinsHold
CHECK_DEADLOCK FALSE
