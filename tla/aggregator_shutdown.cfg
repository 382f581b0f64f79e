SPECIFICATION Spec
CONSTANTS
  None = None
  IP <- MCIP
  Port <- MCPort
  Protocol <- MCProtocol
  FlowID <- MCFlowID
  TenantID <- MCTenantID
  RDMAInfo <- MCRDMAInfo
  Time <- MCTime
  Batches <- MCBatches
  FlowChCap = 1
  MaxBatches = 2
INVARIANT ShutdownFlushes
CHECK_DEADLOCK FALSE
