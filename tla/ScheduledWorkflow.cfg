\* A planned and a manual occurrence of a workflow job, a restart, an edit.
SPECIFICATION Spec
CONSTANTS
  None = None
  Mode = "workflow"
  Policy = "retry"
  Occ = {1, 2}
  Manual = {2}
  MaxRetries = 2
  Crashes = 1
  Stalls = 0
  Edits = 1
  Asks = 0
INVARIANTS
  TypeOK
  LaunchAtMostOnce
  SerialPerTask
PROPERTIES
  TerminalIsFinal
  LeaseIsFenced
\* every occurrence is settled and no bound is left
CHECK_DEADLOCK FALSE
