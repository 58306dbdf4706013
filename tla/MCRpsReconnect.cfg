\* A reconnect whose event is not written.
SPECIFICATION Spec
CONSTANTS
  UserA = ua
  UserB = ub
  Bot = Bot
  Match = m
  Fee = 2
  Payout = 3
  EnvPayout = 3
  Wealth = {2}
  BestOf = 3
  MaxRounds = 2
  MaxFaults = 1
PROPERTIES
  AbortNeedsAbsentee
CHECK_DEADLOCK FALSE
