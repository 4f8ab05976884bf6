SPECIFICATION Spec
INVARIANT AnswersAsSql
INVARIANT RetryRepeats
PROPERTY EveryJobEnds
\* The ids are used up.
CHECK_DEADLOCK FALSE
CONSTANTS
  NULL = NULL
  StaleTimeout = 10
  MaxActive = 1
  PageSize = 1
  Callers <- SomeCallers
  Submissions <- SomeSubmissions
  Labels = {"new"}
  Creds = {"other"}
  Ids = {1, 2}
  MaxTime = 12
  Totals = {0, 1}
  Pages = 3
