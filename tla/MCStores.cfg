SPECIFICATION Spec
CONSTANTS
  Names = {n1, n2}
  MaxAttempts = 2
  MaxActive = 2
  BatchSize = 1
  RecoverySize = 2
  TargetCount = 2
  MaxCycles = 1
  MaxRepairs = 1
  Trenders = {w1, w2}
  Repositories = {"a", "b"}
  Pages <- MCPages
  Attempts = 2
  RetryTicks = 1
  CacheTicks = 1
  StaleTicks = 2
  FreshTicks = 2
  MaxTime = 3
  MaxSnapshots = 2
  EmbedJobs = {"e1", "e2"}
  RefreshJobs = {"f1", "f2"}
  Version <- MCVersion
  Hash <- MCHash
  Observation <- MCObservation
  Unlocked = "nobody"
  Deliveries <- MCDeliveries
SYMMETRY MCSymmetry
INVARIANTS WorkKept
PROPERTIES FreshnessHonest RepositoryHonest
CHECK_DEADLOCK FALSE
