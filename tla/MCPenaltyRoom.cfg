\* One regulation kick each, then up to one sudden-death pair.
SPECIFICATION FairSpec
CONSTANTS
  UserA = ua
  UserB = ub
  Bot = Bot
  Match = m
  Fee = 2
  Payout = 3
  Wealth = {1, 2}
  RegulationKicks = 1
  MaxTurns = 4
  MaxFaults = 1
INVARIANTS
  TurnsAreIsolated
  PlayIsPaidFor
  SettlementFollowsVerdict
  PublishedMeansSettled
PROPERTIES
  ForfeitToConnected
  ImplementsWallet
  ImplementsShootout
  RoomMovesOn
  VerdictsSettle
CHECK_DEADLOCK FALSE
