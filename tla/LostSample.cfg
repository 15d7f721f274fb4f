SPECIFICATION Spec
CONSTANTS
  Delayed = FALSE
  RetryOnce = TRUE
  MaxTasks = 3
CHECK_DEADLOCK FALSE
INVARIANT LostSampleIsFatal
