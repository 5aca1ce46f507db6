CONSTANTS
  w1 = w1  w2 = w2  p1 = p1  v1 = v1  v2 = v2  none = none
  NoPin = NoPin  NoEntry = NoEntry
  Workers <- WorkersTwo  Producers <- ProducersOne  Vectors <- VectorsTwo
  Ops <- OpsRenewed  Withdrawals <- WithdrawalsRenewed
  MaxRepositories = 2  MaxSessions = 1  IdleExpiry = 2  MinDwell = 1  FullDwell = 2
  RefreshOnNoop = FALSE
  MaxPending = 1  MaxDead = 1  MaxHistory = 4  MaxFaults = 1  MayLose = TRUE
SPECIFICATION Spec
CHECK_DEADLOCK FALSE
SYMMETRY Interchangeable
INVARIANT JournalSound
PROPERTIES ChainSpec WithdrawalHolds
