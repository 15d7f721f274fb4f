SPECIFICATION Spec
CONSTANTS
  Retries = 2
  Link = link
  Callers = {link}
  MaxAttempts = 4
  FlushEvery = 1
  MaxTime = 0
  Delayed = TRUE
  Exceptions = FALSE
  MaxPDUs = 2
  MaxExchanges = 2
CHECK_DEADLOCK FALSE
INVARIANTS OnlySuccessIsRecorded BrokenLinkIsReplaced
PROPERTIES FinalFailuresEnd
