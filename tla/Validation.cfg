SPECIFICATION Spec
CONSTANTS
  AddrMax = 15
  MaxBlock = 3
  MaxBits = 5
  MaxWriteRegisters = 2
  MaxWriteCoils = 4
  MaxEcho = 3
  MaxFileRequests = 2
  MaxFileResponse = 11
  MaxUnit = 7
  Widths <- MCWidths
  MaxDelay = 6
  MaxDiscoverHosts = 3
  MaxSpeed = 9
  Width = 4
  Configs <- MCConfigs
CHECK_DEADLOCK FALSE
INVARIANTS AcceptedRequestsFit ChangesAreConfirmed UnitsAskedOnce
