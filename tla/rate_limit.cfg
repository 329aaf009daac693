CONSTANTS
  Agents = {a1, a2, a3}
  MaxRetries = 1
  MayCancel = TRUE
SPECIFICATION FairSpec
INVARIANTS
  TypeOK
  OneWindow
  RetriesAreSpaced
  StatusFollowsPauser
PROPERTIES
  CompletedIsFinal
  SpawnsReturn
CHECK_DEADLOCK FALSE
