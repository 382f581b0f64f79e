SPECIFICATION Spec
CONSTANTS
  None = None
  IP <- MCIP
  Port <- MCPort
  Protocol <- MCProtocol
  FlowID <- MCFlowID
  TenantID <- TwoTenants
  RDMAInfo <- MCRDMAInfo
  Time <- MCTime
  Observed <- MCTwoTenantsObserved
  Cutoffs <- MCCutoffs
INVARIANT TenantScoped
