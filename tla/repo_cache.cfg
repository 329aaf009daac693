CONSTANTS
  Callers = {c1, c2, c3}
  MaxVersion = 2
  MaxCrashes = 1
  Nobody = Nobody
  Stale = Stale
SPECIFICATION FairSpec
INVARIANTS
  StartsFresh
  NoRaces
PROPERTIES
  CallsEnd
CHECK_DEADLOCK FALSE
