\* Fairness: a request at a time, a checked node that is tried again when it fails and
\* opens a new round when it succeeds, every limit at one, two ends of the process.
SPECIFICATION FairSpec
CONSTANTS
  None = None
  Threads = {t1}
  Tokens = {1, 2, 3, 4, 5}
  Identities = {1, 2, 3, 4}
  Nodes = {"work"}
  Entry = "work"
  ManualNodes = {"work"}
  OnSuccess <- RoundSuccess
  OnFailure <- RoundFailure
  MaxAttempts = 1
  MaxRounds = 1
  MaxRepairs = 1
  MaxTries = 1
  Crashes = 2
  Environment = {"stale-recover", "retry", "torn-stop"}
PROPERTIES
  RunSettles
CHECK_DEADLOCK FALSE
