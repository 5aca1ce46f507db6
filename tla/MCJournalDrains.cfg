CONSTANTS
  w1 = w1  w2 = w2  p1 = p1  v1 = v1  v2 = v2  none = none
  NoPin = NoPin  NoEntry = NoEntry
  Workers <- WorkersOne  Producers <- ProducersOne  Vectors <- VectorsOne
  Ops <- OpsCapacity  Withdrawals <- WithdrawalsNone
  MaxRepositories = 2  MaxSessions = 1  IdleExpiry = 2  MinDwell = 1  FullDwell = 2
  RefreshOnNoop = FALSE
  MaxPending = 2  MaxDead = 2  MaxHistory = 6  MaxFaults = 2  MayLose = FALSE
SPECIFICATION FairSpec
CHECK_DEADLOCK FALSE
PROPERTIES SessionsKept Drains
