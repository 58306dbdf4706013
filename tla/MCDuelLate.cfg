\* The join of a cancelled search fails after the next search began.
SPECIFICATION Spec
CONSTANTS
  MaxSessions = 2
  MaxConns = 3
  MaxDuels = 1
  LateFailures = TRUE
INVARIANTS
  SavedTokenRestores
CHECK_DEADLOCK FALSE
