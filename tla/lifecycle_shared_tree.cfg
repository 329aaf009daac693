CONSTANTS
  MaxExecutions = 2
  MaxCrashes = 0
  MaxPauses = 0
SPECIFICATION Spec
INVARIANTS
  WorksInOwnTree
CHECK_DEADLOCK FALSE
