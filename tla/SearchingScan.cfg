SPECIFICATION MCSpec
CONSTANTS
  AddrMax = 11
  MaxBlock = 3
  StartAddress = 1
  EndAddress = 9
  RequestCap = 40
  SafeSizes <- MCSafeSizes
  RefinementWindow = 1
  RefinementCounts <- MCRefinementCounts
  RefinementCap = 0
  Step = 8
  StepHalfOffset = TRUE
  SteppedSizes <- MCSteppedSizes
  Seeds <- MCSeeds
  BoundarySizes <- MCBoundarySizes
  SunSpecChoices <- MCSunSpecChoices
CHECK_DEADLOCK FALSE
INVARIANTS TypeOK ReadsStayInScope BlockIsCaptured EdgesAreExact HitsAreExpanded ReadsBounded
PROPERTIES Terminates
