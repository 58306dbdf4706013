\* Best of three in up to three rounds, one failing call.
SPECIFICATION FairSpec
CONSTANTS
  UserA = ua
  UserB = ub
  Bot = Bot
  Match = m
  Fee = 2
  Payout = 3
  EnvPayout = 3
  Wealth = {1, 2}
  BestOf = 3
  MaxRounds = 3
  MaxFaults = 1
INVARIANTS
  SettlementFollowsVerdict
PROPERTIES
  ImplementsWallet
  RoundsEnd
  VerdictSettles
CHECK_DEADLOCK FALSE
