CONSTANTS
  Ids <- MCIds
  MaxWaves = 2
  Files <- MCFiles
  Documents <- MCDocuments
SPECIFICATION Spec
INVARIANTS
  TypeOK
  ParsedAsWritten
  AcceptedIffExecutable
  LevelsAreEarliest
  ClosureIsLeast
CHECK_DEADLOCK FALSE
