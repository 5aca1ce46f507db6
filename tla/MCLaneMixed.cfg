CONSTANTS
  Workers = {w1, w2}
  Onboarder = onboarder
  NoOne = NoOne
  NoEvent = NoEvent
  NoMsg = NoMsg
  NoFence = NoFence
  Events <- EventsPlanned
  InitialPV = {0, 1}
  StreamMax = 2
  DlqMax = 1
  HistorySize = 2
  MaxAttempts = 1
  MaxMessages = 3
  MaxFaults = 1
  MaxPV = 2
SYMMETRY WorkerSymmetry
SPECIFICATION MixedSpec
INVARIANTS LedgerOrdered FenceAtCursor NothingLost
PROPERTIES ProfileForward LedgerSpec
CHECK_DEADLOCK FALSE
