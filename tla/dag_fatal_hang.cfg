CONSTANTS
  t1 = t1
  t2 = t2
  t3 = t3
  t4 = t4
  Tasks <- ThreeTasks
  Graphs <- AllGraphs3
  MaxConcurrency = 2
SPECIFICATION FairSpec
PROPERTIES
  Ends
CHECK_DEADLOCK FALSE
