SPECIFICATION Spec
CONSTANTS
  Macs = {m1}
  MaxConns = 2
  Roles = {"service", "combined", "interactive"}
INVARIANTS
  NoDeadEntries
  PendingCheckIsAnswerable
PROPERTIES
  NoFalseAgentStopped
  
  
\* the model may stop when every connection has been used
CHECK_DEADLOCK FALSE
