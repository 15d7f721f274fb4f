SPECIFICATION Spec
CONSTANTS
  Retries = 1
  Link = link
  Callers = {link}
  MaxAttempts = 2
  FlushEvery = 1
  MaxTime = 0
  Delayed = FALSE
  Exceptions = FALSE
  MaxPDUs = 1
  MaxExchanges = 2
CHECK_DEADLOCK FALSE
INVARIANT LastReadFailureIsReturned
