SPECIFICATION FairSpec
CONSTANTS
  None = None
  Zero = Zero
  Node <- MCNode
  Tenant <- MCTenant
  Reports <- MCReports
  MetricChCap = 1
  MaxMetrics = 3
INVARIANTS
  WrittenAtMostOnce
  NodesFollowArrivals
  RoundsContainTheRace
PROPERTIES
  MetricsGetTheirWrite
CHECK_DEADLOCK FALSE
