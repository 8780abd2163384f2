\* Two prompts to one session, a restart, a question; no stalls.
SPECIFICATION FairSpec
CONSTANTS
  None = None
  Mode = "direct_continuous"
  Policy = "retry"
  Occ = {1, 2}
  Manual = {2}
  MaxRetries = 1
  Crashes = 1
  Stalls = 0
  Edits = 0
  Asks = 1
PROPERTIES
  EventuallySettled
\* every occurrence is settled and no bound is left
CHECK_DEADLOCK FALSE
