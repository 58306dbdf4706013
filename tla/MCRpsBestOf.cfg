\* A round that times out can be resolved a second time.
SPECIFICATION Spec
CONSTANTS
  UserA = ua
  UserB = ub
  Bot = Bot
  Match = m
  Fee = 2
  Payout = 3
  EnvPayout = 3
  Wealth = {2}
  BestOf = 3
  MaxRounds = 3
  MaxFaults = 0
INVARIANTS
  WinnerWonRequiredRounds
CHECK_DEADLOCK FALSE
