SPECIFICATION Spec
CONSTANTS
  Commands <- MCCommands
  PollsWanted = {0, 2}
  MaxPolls = 3
  PlanLength = 2
  Intervals = {0, 1, 2}
  Duration = 3
  MaxIterations = 2
  FingerprintUnits = 2
  ReadFunctions = 2
  Width = 4
  SubnetLists <- MCSubnetLists
  DeviceSets <- MCDeviceSets
  Parallel = 2
  Rank <- MCRank
INVARIANTS ExitCodeTells WriteIsSentOnce PollsAddUp CaptureIsFinished DiscoveryIsExact
PROPERTIES CommandEnds
