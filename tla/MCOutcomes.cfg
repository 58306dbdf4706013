\* Two matches of two users beside one that cannot be read, recorded by their
\* rooms and by a recovery loop that takes two at a time, with two faults.
SPECIFICATION FairSpec
CONSTANTS
  u1 = u1
  u2 = u2
  m0 = m0
  m1 = m1
  m2 = m2
  Users = {u1, u2}
  Matches = {m0, m1, m2}
  Bot = Bot
  Recovery = Recovery
  Fixtures <- MCFixtures
  Created <- MCCreated
  Rank <- MCRank
  Legacy = {m0}
  BatchSize = 2
  MaxWeek = 2
  MaxFaults = 2
INVARIANTS
  StatsMatchResults
  BoardsMatchResults
PROPERTIES
  RecordedEventually
