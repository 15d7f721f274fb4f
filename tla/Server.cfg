SPECIFICATION Spec
CONSTANTS
  AddrMax = 2
  Objects <- MCObjects
  Requests <- MCRequests
  Unrecorded = Unrecorded
  Clients <- MCClients
  Captures <- MCCaptures
  Configs <- MCConfigs
  Asked <- MCAsked
  MaxElapsed = 6
  MaxRequests = 2
CHECK_DEADLOCK FALSE
INVARIANTS HoldsLatest CountersAddUp
PROPERTIES ClockKeepsPace
