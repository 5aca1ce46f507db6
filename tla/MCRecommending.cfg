SPECIFICATION RecommendingSpec
CONSTANTS
  Writers = {w1}
  MaxWriters = 2
  MaxMinted = 3
  MaxRestarts = 1
  Requests = {r1, r2}
  NoRequest = NoRequest
  Channels = 2
  MaxEntries = 1
  MaxFlights = 1
  MaxWaiting = 1
  Parts = {"pool", "pass", "ranking", "diversity", "page", "anchor"}
  ra = ra
  rb = rb
  Repos = {ra, rb}
  Searches = {1, 2}
  Limit = 1
  SemanticTarget = 1
  PerChannel = 1
  MaxCandidates = 2
  Reads = 6
  Rounds = 2
  MaxChanges = 1
  MaxExclusions = 1
  Builds = {"good", "other", "bad", "not"}
  Quality <- MCQuality
  Preprocessing <- MCPreprocessing
  Disks <- MCDisks
  RankUsers = {"u1", "u2"}
  Canary = {"u1"}
  Candidates = {ra, rb}
  PointVersions = {"v1", "v2"}
  PageSize = 2
  MaxDeploys = 1
  Pool = {1, 2, 3, 4}
  MaxPool = 3
  Breadth = 2
  Minimum = 2
  PageLimit = 3
  Sources <- MCSources
  Labels = {"o", "t"}
  Cap <- MCCap
  SearchLimit = 5
  MaxNear = 1
  Ranked = {1, 2, 3, 4, 5, 6}
  Languages = {"p"}
  NoLanguage = "none"
  MaxSameLanguage = 1
  Targets = {2, 4, 6}
  Shares = {0, 2, 3}
  MaxSeen = 1
  Generations = {"g1", "g2", "g3"}
  AnchorCapacity = 2
  AnchorTicks = 3
  MaxAnchorTime = 4
SYMMETRY MCSymmetry
INVARIANTS ReadyMeansQuiet PoolsCurrent NothingLeaks PassHonest RankingSound DiversityHonest PageServed
PROPERTY AcceptedCurrent
CHECK_DEADLOCK FALSE
