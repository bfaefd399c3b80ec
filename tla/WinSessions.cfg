SPECIFICATION FairSpec
CONSTANTS
  Reports <- MCReports
  PromptCancel = TRUE
  Usage = "exception"
INVARIANTS
  TypeOK
  RequestsHaveWaiters
  HandlesAccounted
  ConnectsOnFreshFile
  HandleMirrorsReport
PROPERTIES
  RequestsOverBeforeFree
  CallerHandleKept
  ImplementsSession
  CancelEndsCalls
  DisconnectReturns
CHECK_DEADLOCK FALSE
