\* Two attempts of one session, a prompt each or both of one, and one disturbance: a
\* pruning, a death, a refusal, a cancellation, an edit of the settings or a close.
SPECIFICATION FairSpec
CONSTANTS
  Attempts = {a1, a2}
  Sessions = {s1}
  MaxConnections = 2
  MaxPrompts = 2
  MaxFaults = 1
  Environment = {"idle", "death", "refusal", "timeout", "cancel", "config", "close"}
  Session <- MCSession
INVARIANTS
  TypeOK
  RightlyEnded
  NoStray
  DrainIsComplete
PROPERTIES
  Served
\* the user may have nothing more to prompt
CHECK_DEADLOCK FALSE
