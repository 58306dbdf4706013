\* A login while bootstrap runs again.
SPECIFICATION WebSpec
CONSTANTS
  alice = alice
  g1 = g1
  g2 = g2
  Members = {alice}
  Guests = {g1, g2}
  Visits <- MCVisits
  MaxOps = 1
  MaxBoots = 2
  MaxRefreshes = 1
PROPERTIES
  OnlyRejectionInvalidates
CHECK_DEADLOCK FALSE
