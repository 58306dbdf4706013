\* Two operations of the player beside two runs of bootstrap.
SPECIFICATION FairSpec
CONSTANTS
  alice = alice
  g1 = g1
  g2 = g2
  Members = {alice}
  Guests = {g1, g2}
  Visits <- MCVisits
  MaxOps = 2
  MaxBoots = 2
  MaxRefreshes = 1
INVARIANTS
  ShownPlayerHoldsToken
PROPERTIES
  LatestOperationWins
  BusyEnds
CHECK_DEADLOCK FALSE
