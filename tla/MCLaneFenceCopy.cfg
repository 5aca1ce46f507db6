CONSTANTS
  Workers = {w1}
  Onboarder = onboarder
  NoOne = NoOne
  NoEvent = NoEvent
  NoMsg = NoMsg
  NoFence = NoFence
  Events <- EventsLimited
  InitialPV = {1}
  StreamMax = 2
  DlqMax = 2
  HistorySize = 2
  MaxAttempts = 2
  MaxMessages = 2
  MaxFaults = 1
  MaxPV = 1
SPECIFICATION Spec
PROPERTY FenceLiftedAfterCopy
CHECK_DEADLOCK FALSE
