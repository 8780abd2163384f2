\* One occurrence, a restart, two faults or sleeps, a question.
SPECIFICATION SteadySpec
CONSTANTS
  None = None
  Mode = "direct_new"
  Policy = "skip"
  Occ = {1}
  Manual = {}
  MaxRetries = 1
  Crashes = 1
  Stalls = 2
  Edits = 0
  Asks = 1
INVARIANTS
  NoOrphanRun
PROPERTIES
  AbandonedByLossOnly
  ImplementsContract
  EventuallySettled
\* every occurrence is settled and no bound is left
CHECK_DEADLOCK FALSE
