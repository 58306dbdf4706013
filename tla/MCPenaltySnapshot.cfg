\* What a client sees of a result that is not paid yet.
SPECIFICATION Spec
CONSTANTS
  UserA = ua
  UserB = ub
  Bot = Bot
  Match = m
  Fee = 2
  Payout = 3
  Wealth = {2}
  RegulationKicks = 1
  MaxTurns = 2
  MaxFaults = 1
INVARIANTS
  NoUnpaidResultShown
CHECK_DEADLOCK FALSE
