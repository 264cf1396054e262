SPECIFICATION Spec
CONSTANTS
  Windows = {w1}
  MaxSessions = 3
  MaxAttempts = 2
  NoWindow = NoWindow
INVARIANTS
  StoredOnce
PROPERTIES
  ImplementsDelivery
  LastSessionDelivers
\* every attempt of every session may have been made
CHECK_DEADLOCK FALSE
