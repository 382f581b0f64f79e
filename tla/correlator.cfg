SPECIFICATION Spec
CONSTANTS
  None = None
  IP <- MCIP
  Port <- MCPort
  Protocol <- MCProtocol
  FlowID <- MCFlowID
  TenantID <- OneTenant
  RDMAInfo <- MCRDMAInfo
  Time <- MCTime
  Observed <- MCObserved
  Cutoffs <- MCCutoffs
INVARIANTS
  TypeOK
  SlotsMatchKey
  TotalsAreSums
  SeenSpansHalves
  RDMAFollowsForward
PROPERTIES
  IdentityAndHalvesKept
  ImplementsLedger
