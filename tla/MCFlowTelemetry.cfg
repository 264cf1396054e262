SPECIFICATION Spec
CONSTANTS
  k1 = k1
  k2 = k2
  Keys = {k1, k2}
  MaxPackets = 3
  MaxTime = 5
  MaxSessions = 2
  MaxFaults = 1
  DayLength = 3
  ZoneShift = 0
  WindowLength = 2
  IdleTimeout = 1
  FileLimit = 1
SYMMETRY Symmetry
INVARIANTS
  PacketsAreKept
  CountedOnce
  SummaryIsQueryable
CHECK_DEADLOCK FALSE
