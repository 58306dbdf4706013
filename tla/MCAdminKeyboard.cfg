\* The same page, with the list behind an open dialog used by keyboard.
SPECIFICATION Spec
CONSTANTS
  Queries = {q1, q2}
  Amounts <- MCAmounts
  StartingChips = 1
  Inert = FALSE
  MaxLoads = 4
  MaxDialogs = 2
  MaxConfirms = 2
  MaxSessions = 2
  MaxFaults = 1
INVARIANTS
  ListIsCurrent
CHECK_DEADLOCK FALSE
