SPECIFICATION FairSpec
CONSTANTS
  None = None
  Client <- MCClient
  Tenant <- MCTenant
  Subjects <- MCSubjects
  SendCap = 1
  MaxMsgs = 2
INVARIANTS
  NothingLeftBehind
  NoPanicWhileRunning
PROPERTIES
  ImplementsLossyStream
  DisconnectIsCleanedUp
  ChannelIsEmptied
CHECK_DEADLOCK FALSE
