\* One failing call during the settlement.
SPECIFICATION FairSpec
CONSTANTS
  UserA = ua
  UserB = ub
  Bot = Bot
  Match = m
  Fee = 2
  Payout = 3
  EnvPayout = 3
  Wealth = {2}
  BestOf = 1
  MaxRounds = 2
  MaxFaults = 1
PROPERTIES
  FailuresAreRetried
CHECK_DEADLOCK FALSE
