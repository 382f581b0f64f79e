SPECIFICATION FairSpec
CONSTANTS
  None = None
  Key <- MCKey
  BatchSize = 1
  FlowTimeout = 1
  BootTime = 10
  MaxTime = 0
  MaxPackets = 2
  MaxDrops = 1
  MaxGivenUp = 1
INVARIANTS
  NothingAhead
  PostsEachFlowOnce
PROPERTIES
  InOrderUnlessTimedOut
  ReportsCatchUp
CHECK_DEADLOCK FALSE
