\* Two dialogs and two confirmations, with overlapping loads of two lists,
\* lost answers, and a session that ends.
SPECIFICATION Spec
CONSTANTS
  Queries = {q1, q2}
  Amounts <- MCAmounts
  StartingChips = 1
  Inert = TRUE
  MaxLoads = 4
  MaxDialogs = 2
  MaxConfirms = 2
  MaxSessions = 2
  MaxFaults = 1
INVARIANTS
  DialogAdjustsOnce
  ListIsCurrent
CHECK_DEADLOCK FALSE
