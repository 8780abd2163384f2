\* Two children at a time, two continues, a stop, a timeout, a crash or an error.
SPECIFICATION Spec
CONSTANTS
  Width = 2
  MaxParallel = 2
  MaxRequests = 2
  MaxFaults = 1
  Environment = {"stop-leaf", "stop-run", "timeout", "crash", "error"}
INVARIANTS
  TypeOK
  FailedNeverRuns
  RunningLeafHasWorker
PROPERTIES
  StopStands
\* the run is over, or waits for the user and no bound is left
CHECK_DEADLOCK FALSE
