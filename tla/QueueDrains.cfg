\* Four prompts, two of them queued: is every one sent in the end?
SPECIFICATION FairSpec
CONSTANTS
  None = None
  Slots = 5
  Limit = 2
  Delays = FALSE
  Sends = 4
  Uses = 0
  Edits = 0
  Stops = 0
  Crashes = 0
  Faults = 0
INVARIANTS
  TypeOK
PROPERTIES
  QueueDrains
\* the user may have nothing more to submit
CHECK_DEADLOCK FALSE
