CONSTANTS
  MaxExecutions = 2
  MaxCrashes = 1
  MaxPauses = 1
SPECIFICATION FairSpec
INVARIANTS
  VerdictAgrees
  ShownIsCurrent
PROPERTIES
  
  EndsEventually
CHECK_DEADLOCK FALSE
