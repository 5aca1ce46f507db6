CONSTANTS
  Threads = {t1, t2}
  Users = {"hotA", "hotB", "cold"}
  Messages = {"a1", "a2", "b1", "b2", "c1"}
  Owner <- OwnerHotCold
  Capacity = 4
  NoWork = NoWork
SPECIFICATION FairSpec
INVARIANTS LanesExact TurnsSound
PROPERTIES LaneServed ShutdownCompletes
CHECK_DEADLOCK FALSE
