\* The validator is a batch job: after its last run it really stops.
CONSTANTS
  StartHeight = 0
  EndHeight = 3
  Offset = 2
  RpcThreads = 2
  DbThreads = 1
  MaxFailures = 2
  MaxRuns = 2

SPECIFICATION Spec
CHECK_DEADLOCK FALSE

INVARIANT TypeOK
INVARIANT FinishedMeansAllCounted
PROPERTY RunTerminates
PROPERTY CursorMonotone
