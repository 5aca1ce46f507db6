CONSTANTS
  Workers = {w1}
  Onboarder = onboarder
  NoOne = NoOne
  NoEvent = NoEvent
  NoMsg = NoMsg
  NoFence = NoFence
  Events <- EventsReplayed
  InitialPV = {1}
  StreamMax = 2
  DlqMax = 2
  HistorySize = 2
  MaxAttempts = 5
  MaxMessages = 3
  MaxFaults = 1
  MaxPV = 2
SPECIFICATION FairSpec
PROPERTIES Drains
CHECK_DEADLOCK FALSE
