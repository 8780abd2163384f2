\* Two prompts, one of them used from the queue, with delays.
SPECIFICATION Spec
CONSTANTS
  None = None
  Slots = 4
  Limit = 2
  Delays = TRUE
  Sends = 2
  Uses = 1
  Edits = 1
  Stops = 0
  Crashes = 1
  Faults = 1
INVARIANTS
  TurnIsCarried
\* the user may have nothing more to submit
CHECK_DEADLOCK FALSE
