SPECIFICATION Spec
CONSTANTS
  p1 = p1
  a1 = a1
  Programs = {p1}
  Adapters = {a1}
  Threshold = 2
  Span = 1
  MaxTime = 2
  MaxSessions = 2
  MaxLaunches = 1
  MaxThreads = 3
  MaxRestores = 1
  MaxFaults = 1
INVARIANTS
  
  SkipIsJustified
CHECK_DEADLOCK FALSE
