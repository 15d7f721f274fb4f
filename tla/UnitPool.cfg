SPECIFICATION FairSpec
CONSTANTS
  UnitList <- MCUnits
  Parallel = 3
INVARIANTS ResultIsComplete ClosedWhenQuiet CancelStopsAtNextUnit
PROPERTIES PoolDrains
