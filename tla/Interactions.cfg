\* A permission request and a form in either order, answered, stopped, closed, crashed.
SPECIFICATION FairSpec
CONSTANTS
  Ids = {"id0"}
  Forms = {"form1"}
  Users = {1}
  MaxRequests = 2
  MaxFaults = 1
  Environment = {"stop", "close", "crash", "second-answer", "broken"}
INVARIANTS
  TypeOK
  PendingIsOwned
  CalmAnswersAgree
PROPERTIES
  AnswerOrStopReleases
\* every question is answered and the prompt is over
CHECK_DEADLOCK FALSE
