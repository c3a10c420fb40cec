SPECIFICATION Spec
CONSTANTS
  r1 = r1
  r2 = r2
  LcModes = {"standalone", "ingest", "reader", "writer"}
  LcItems = 2
  MaxLcFaults = 1
  FaultItems = 1
  Clients = {"c1"}
  KeyPrints = {"x", "y", "z"}
  MaxTokens = 2
  ProbeTTL = 2
  LogInterval = 2
  MaxPrints = 2
  GtMaxTime = 7
  MaxGtRequests = 5
  MaxGtFaults = 2
  SesReqs <- MCReqs
  SesMaxTime = 5
  AccessTTL = 2
  AccessSkew = 1
  SesGrace = 1
  SesTTL = 4
  MaxGrants = 2
  MaxSesFaults = 1
  PjSlugs = {"own", "app"}
  SeedSlug = "own"
  MaxPj = 2
  MaxKeys = 3
  PjReqs <- MCReqs
  DepKinds = {"alerts"}
  PjMaxTime = 4
  TouchInterval = 2
  MaxPjStops = 1
  AlMaxTime = 7
  SloBucket = 2
  SloLag = 1
  StageWindow = 3
  AlSpans = {1, 2}
  SloSpans = {1, 2}
  CatchUp = 2
  AlCooldown = 5
  AlWindows = {2, 4}
  SloWindows = {2, 6}
  BurnFactor = 2
  AlertOps = {"a", "b"}
  Threshold = 60
  SlowMs = 100
  CompareBuckets = 1
  MaxAlEvents = 1
  ExpKinds = {"go", "python", "js", "logs", "bugbarn", "web"}
  MaxItems = 5
  ExpQueueSize = 2
  ExpBatchSize = 2
  MaxBackoff = 2
  MaxExpFaults = 1
  MaxPages = 2
SYMMETRY ReqSymmetry
INVARIANTS
  PodsSound
  GatesSound
  SessionsSound
  ProjectsSound
  AlertsSound
  ExportersSound
CHECK_DEADLOCK FALSE
