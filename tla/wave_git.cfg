CONSTANTS
  Foundation <- MCFoundation
  Features <- MCFeatures
  Chain <- MCChain
  Listed <- MCListed
  Integration <- MCIntegration
  Requests <- MCRequests
  MaxExecutions = 3
  OlderToo = FALSE
SPECIFICATION Spec
INVARIANTS
  TypeOK
  SkipHasCodeUnlessDeleted
  ReportedIsReachable
  IntegrationSeesAll
  CompletedIsWhole
CHECK_DEADLOCK FALSE
