\* Three searches or restorations, two duels, five connections.
SPECIFICATION Spec
CONSTANTS
  MaxSessions = 3
  MaxConns = 5
  MaxDuels = 2
  LateFailures = FALSE
INVARIANTS
  DestroyedHoldNothing
  SavedTokenRestores
  NoDeadEnd
CHECK_DEADLOCK FALSE
