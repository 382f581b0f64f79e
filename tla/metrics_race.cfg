SPECIFICATION Spec
CONSTANTS
  None = None
  Zero = Zero
  Node <- MCNode
  Tenant <- MCTenant
  Reports <- MCReports
  MetricChCap = 1
  MaxMetrics = 3
INVARIANT NeverCrashes
CHECK_DEADLOCK FALSE
