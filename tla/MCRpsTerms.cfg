\* A prize configured for the game that the environment does not repeat.
SPECIFICATION FairSpec
CONSTANTS
  UserA = ua
  UserB = ub
  Bot = Bot
  Match = m
  Fee = 2
  Payout = 3
  EnvPayout = 4
  Wealth = {2}
  BestOf = 1
  MaxRounds = 2
  MaxFaults = 0
PROPERTIES
  VerdictSettles
CHECK_DEADLOCK FALSE
