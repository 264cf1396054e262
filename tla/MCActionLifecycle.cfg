SPECIFICATION Spec
CONSTANTS
  Clients = {c1, c2}
  Requests = {r1, r2}
  Kinds = {"command", "package", "update"}
  NoOne = NoOne
INVARIANTS
  DispatchedOnce
  
  WaitersHaveWorkers
PROPERTIES
  SummaryIsTrue
  ActionSettles
\* every request may have been answered and every thread ended
CHECK_DEADLOCK FALSE
