\* Three prompts, an edit, a stop, a restart and a fault; no prompt is used.
SPECIFICATION Spec
CONSTANTS
  None = None
  Slots = 4
  Limit = 2
  Delays = FALSE
  Sends = 3
  Uses = 0
  Edits = 1
  Stops = 1
  Crashes = 1
  Faults = 1
INVARIANTS
  SentAtMostOnce
  NothingLost
  AcceptedLeaves
  TurnIsCarried
PROPERTIES
  StopHolds
\* the user may have nothing more to submit
CHECK_DEADLOCK FALSE
