SPECIFICATION MCSpec
CONSTANTS
  AddrMax = 7
  MaxBlock = 4
  StartAddress = 1
  EndAddress = 7
  RequestCap = 30
  SafeSizes <- MCSafeSizes
  RefinementWindow = 2
  RefinementCounts <- MCRefinementCounts
  RefinementCap = 9
  Step = 1
  StepHalfOffset = FALSE
  SteppedSizes <- MCNoSizes
  Seeds <- MCNoSeeds
  BoundarySizes <- MCNoSizes
CHECK_DEADLOCK FALSE
INVARIANTS TypeOK ReadsStayInRange EveryAddressSettled CapturesWhatIsReadable ReadsBounded
PROPERTIES EdgesAreRetried ImplementsRangeScan Terminates
