\* Two requests at a time, a node whose checked review sends it back, one end of
\* the process, and a startup that cannot read what it needs.
SPECIFICATION Spec
VIEW Seen
CONSTANTS
  None = None
  Threads = {t1, t2}
  Tokens = {1, 2, 3, 4, 5, 6, 7, 8}
  Identities = {1, 2, 3, 4, 5}
  Nodes = {"work", "review"}
  Entry = "work"
  ManualNodes = {"review"}
  OnSuccess <- ReviewSuccess
  OnFailure <- ReviewFailure
  MaxAttempts = 1
  MaxRounds = 0
  MaxRepairs = 1
  MaxTries = 0
  Crashes = 1
  Environment = {"unreadable"}
INVARIANTS
  TypeOK
  RunningIsListed
  RunningIsDriven
  OneDriver
  PausedIsOffered
  ExitLeavesNothingRunning
PROPERTIES
  PauseIsKept
CHECK_DEADLOCK FALSE
