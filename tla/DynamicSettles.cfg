\* Fairness: one child at a time, two continues, one of which may time out.
SPECIFICATION FairSpec
CONSTANTS
  Width = 2
  MaxParallel = 1
  MaxRequests = 2
  MaxFaults = 1
  Environment = {"timeout"}
PROPERTIES
  RunSettles
\* the run is over, or waits for the user and no bound is left
CHECK_DEADLOCK FALSE
