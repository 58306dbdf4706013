\* A batch that an unreadable match fills.
SPECIFICATION FairSpec
CONSTANTS
  u1 = u1
  u2 = u2
  m0 = m0
  m1 = m1
  m2 = m2
  Users = {u1, u2}
  Matches = {m0, m1, m2}
  Bot = Bot
  Recovery = Recovery
  Fixtures <- MCFixtures
  Created <- MCCreated
  Rank <- MCRank
  Legacy = {m0}
  BatchSize = 1
  MaxWeek = 2
  MaxFaults = 1
PROPERTIES
  RecordedEventually
