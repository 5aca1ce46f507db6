SPECIFICATION SupportingSpec
CONSTANTS
  w1 = w1
  w2 = w2
  c3 = c3
  k1 = k1
  k2 = k2
  Callers = {w1, w2, c3}
  NoLimits = NoLimits
  Limits <- TwoLimits
  Costs = {1, 2}
  Threshold = 2
  Cooldown = 1
  Lease = 1
  Window = 2
  StateTTL = 4
  QuotaTTL = 3
  Lifetime = 3
  MaxTime = 6
  Jobs = {w1, w2}
  Contents = {"a", "b", "u"}
  Unkeyed = {"u"}
  Unread = {"b", "u"}
  Deadlines = {2}
  NoDeadline = 99
  Reserve = 1
  Attempts = 2
  MaxEntries = 1
  MaxInflight = 1
  DeferTicks = 1
  MaxSummaryTime = 2
  Lines <- MCLines
  MaxLines = 4
  Tokens = 8
  SequenceLimit = 5
  Special = 2
  Overlap = 2
  ChunkLimits = {2, 9}
  EmbedWorkers = {w1, w2}
  Documents <- MCDocuments
  GroupSize = 2
  CacheEntries = 2
  LegacyConsumers = {w1, w2}
  Events = {"e1", "e2", "e3", "e4", "e5", "e7", "e8"}
  Deliveries <- MCDeliveries
  ActionOf <- MCAction
  RepoOf <- MCRepo
  MalformedEvents = {"e7"}
  ReadBatch = 2
  MaxDelivery = 2
  History = 3
  MaxLegacyFaults = 2
  IntakeCallers = {k1, k2}
  IntakeWorkers = {w1, w2}
  Ids = {"i1", "i2", "i3"}
  Payloads = {"p", "q"}
  CallerBatches <- MCBatches
  StreamMax = 2
  MaxIntakeFaults = 1
  MaxSends = 2
  Consumers <- MCConsumers
  CurrentRelease = "new"
  RefreshSeconds = 1
  MaxAge = 3
  TimeLimit = 1
  HeartbeatLife = 2
  MaxReadyTime = 2
  MaxTroubles = 1
  MaxBeats = 1
  Absent = Absent
  Blank = Blank
  Malformed = Malformed
  MaxEdits = 2
SYMMETRY Interchangeable
INVARIANTS AdmissionSound SummariesSound IntakeSound ReadySound LegacySound TextsSound PreflightSuffices
PROPERTY Fenced
CHECK_DEADLOCK FALSE
