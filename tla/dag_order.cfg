CONSTANTS
  t1 = t1
  t2 = t2
  t3 = t3
  t4 = t4
  Tasks <- FourTasks
  Graphs <- AllGraphs4
  MaxConcurrency = 2
SPECIFICATION FairSpec
INVARIANTS
  DependenciesFirst
  ReadyIsLaunched
  QuiescentWhenSignalled
PROPERTIES
  ImplementsTaskOrder
  EndsUnlessFatal
CHECK_DEADLOCK FALSE
