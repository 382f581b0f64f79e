SPECIFICATION FairSpec
CONSTANTS
  None = None
  Key <- MCKey
  BatchSize = 1
  FlowTimeout = 1
  BootTime = 10
  MaxTime = 3
  MaxPackets = 2
  MaxDrops = 1
  MaxGivenUp = 1
PROPERTY EvictsOldFlowsOnly
CHECK_DEADLOCK FALSE
