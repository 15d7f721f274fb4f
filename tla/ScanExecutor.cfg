SPECIFICATION FairSpec
CONSTANTS
  Delayed = TRUE
  RetryOnce = TRUE
  MaxTasks = 4
CHECK_DEADLOCK FALSE
INVARIANTS SummaryAddsUp OneResultPerTask
PROPERTIES Returns
