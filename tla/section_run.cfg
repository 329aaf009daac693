CONSTANTS
  a = a
  b = b
  v = v
  Nobody = Nobody
  Tasks <- ThreeTasks
  Graphs <- Shapes
  MaxConcurrency = 2
  Verifiers = {v}
  MaxAttempts = 2
  SkipSets <- Resumptions
SPECIFICATION FairSpec
INVARIANTS
  ReportedIsCommitted
  VerifiedIsFinal
PROPERTIES
  SectionEnds
CHECK_DEADLOCK FALSE
