SPECIFICATION RecSpec
CONSTANTS
  c1 = c1
  c2 = c2
  Callers <- MCCallers
  Exceptions = TRUE
  FlushEvery = 1
  MaxAttempts = 2
  MaxPDUs = 2
  MaxTime = 2
SYMMETRY MCSymmetry
CHECK_DEADLOCK FALSE
INVARIANTS CaptureHoldsAccepted NothingLingers UnflushedAreRecent
