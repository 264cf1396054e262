SPECIFICATION Spec
CONSTANTS
  MaxCalls = 2
  MaxConns = 2
  Ops = {"screenshot", "flows", "isolate", "quarantine", "command", "disconnect"}
INVARIANTS
  AnswersAreOwn
  ViewsAreEarned
  SuppressionIsOwned
\* The calls of the instance come to an end.
CHECK_DEADLOCK FALSE
