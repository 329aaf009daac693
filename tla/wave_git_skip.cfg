CONSTANTS
  Foundation <- MCFoundation
  Features <- MCFeatures
  Chain <- MCChain
  Listed <- MCListed
  Integration <- MCIntegration
  Requests <- MCRequests
  MaxExecutions = 3
  OlderToo = FALSE
SPECIFICATION Spec
INVARIANTS
  SkipHasCode
CHECK_DEADLOCK FALSE
