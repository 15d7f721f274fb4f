SPECIFICATION MCSpec
CONSTANTS
  AddrMax = 7
  MaxBlock = 4
  StartAddress = 0
  EndAddress = 7
  RequestCap = 30
  SafeSizes <- MCSafeSizes
  RefinementWindow = 1
  RefinementCounts <- MCRefinementCounts
  RefinementCap = 5
  Step = 1
  StepHalfOffset = FALSE
  SteppedSizes <- MCNoSizes
  Seeds <- MCNoSeeds
  BoundarySizes <- MCNoSizes
CHECK_DEADLOCK FALSE
INVARIANT EveryAddressSettled
