SPECIFICATION Spec
CONSTANTS
  NumClients = 2
  BucketSize = 1
  MaxJobs = 2
  MaxLosses = 1
INVARIANTS
  LoadIsBounded
  CompletedIsReported
PROPERTIES
  ImplementsJob
  CollectionEnds
\* Every collection of the instance may have ended.
CHECK_DEADLOCK FALSE
