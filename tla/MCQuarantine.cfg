SPECIFICATION Spec
CONSTANTS
  Original = "ALLOW"
  MaxCalls = 5
INVARIANTS
  BlockedIsArmed
  NormalIsOpen
  
  
PROPERTY
  BlockEnds
\* The server may send nothing more.
CHECK_DEADLOCK FALSE
