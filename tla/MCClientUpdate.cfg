SPECIFICATION Spec
CONSTANTS
  a1 = a1
  a2 = a2
  a3 = a3
  a4 = a4
  bad = bad
  sound = sound
  other = other
  Actions <- AllActions
  Packages <- AllPackages
  PackageOf <- ThePackages
  OperationOf <- TheOperations
  Contents <- TheContents
  Chunks = 2
  LocksOpenFiles = TRUE
  MaxFaults = 2
INVARIANTS
  StagedIsVerified

  
\* Every package of the instance may have been handled.
CHECK_DEADLOCK FALSE
