SPECIFICATION Spec
CONSTANTS
  Clients <- MCClients
  Locations <- MCLocations
  Assignable <- MCAssignable
  Requests <- MCRequests
  QueueSize = 1
  MaxWorkers = 2
  WorkerAtStart = TRUE
INVARIANT
  OnePerPosition
\* every request may have been made
CHECK_DEADLOCK FALSE
