CONSTANTS
  a = a
  b = b
  c = c
  d = d
  Tasks <- FourTasks
  FeatureCount = 2
  FeatureOf <- TwoFeatures
  Graphs <- Shapes
  Layouts <- AllLayouts
  MaxConcurrency = 2
  MayFallBack = FALSE
SPECIFICATION FairSpec
INVARIANTS
  TypeOK
  DirectoryExclusive
  SeesDependencies
  CleanMerges
  WorkKept
PROPERTIES
  PhaseEnds
CHECK_DEADLOCK FALSE
