SPECIFICATION MCSpec
CONSTANTS
  Requests <- MCRequests
  Classes <- MCClasses
  ClassOf <- MCClassOf
  Limited <- MCLimited
  Workers <- MCWorkers
  Capacity <- MCCapacity
  Absences <- MCAbsences
  Reads <- MCReads
  IOWorkers = 1
  IOCapacity = 1
  Query <- MCQuery
  Encoders = {"e1", "e2"}
  MaxConcurrency = 1
  MaxFlights = 2
  MaxWaiters = 1
  MaxEntries = 1
  Nobody = "nobody"
  Health = "h"
  Resources = {"clients"}
  MaxGenerations = 2
  MaxRetries = 1
  MaxFailures = 1
INVARIANTS SlotsAndReads FlightsAndClients
PROPERTY ServingEnds
CHECK_DEADLOCK FALSE
