\* A duel forfeited while it starts: no failing call is needed.
SPECIFICATION FairSpec
CONSTANTS
  UserA = ua
  UserB = ub
  Bot = Bot
  Match = m
  Fee = 2
  Payout = 3
  Wealth = {2}
  RegulationKicks = 1
  MaxTurns = 2
  MaxFaults = 0
PROPERTIES
  ForfeitsSettle
CHECK_DEADLOCK FALSE
