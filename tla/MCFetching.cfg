SPECIFICATION FairSpec
CONSTANTS
  Runs = {"r1", "r2"}
  Consumers = {"c1", "c2"}
  Jobs = {"j1", "j2", "j4"}
  Keys = {"k1", "k2"}
  Nobody = "nobody"
  RunOf <- MCRunOf
  Work <- MCWork
  KeyOf <- MCKeyOf
  Workers <- MCWorkers
  MaxFlights = 1
  MaxEntries = 1
  MaxRetries <- MCRetries
  Clients = {"q1", "q2", "q3"}
  Scopes = {"sa", "sb"}
  ScopeOf <- MCScopeOf
  Capacity = 1
  IdleTicks = 1
  WindowTicks = 2
  StaggerTicks = 1
  Delays = {2}
  MaxQuota = 1
  MaxCost = 1
  MaxAttempts = 2
INVARIANTS FetchesOwned
PROPERTIES RetryAfterHonoured FetchingEnds
CHECK_DEADLOCK FALSE
