SPECIFICATION Spec
CONSTANTS
  w1 = w1
  w2 = w2
  Workers = {w1, w2}
  MaxTime = 2
  MaxCaptures = 2
  PacketsPerInterval = 1
  MaxFaults = 1
SYMMETRY Symmetry
INVARIANTS
  ExtractedIsStored
  SafeIsWhole
PROPERTIES
  ActiveIsKept
