\* Two transactions at the same time, of two matches of the same users, an
\* adjustment whose command is replayed, and a purchase.
SPECIFICATION TxSpec
CONSTANTS
  u1 = u1
  u2 = u2
  m1 = m1
  m2 = m2
  Users = {u1, u2}
  Matches = {m1, m2}
  Purchases = {p1}
  Commands = {c1}
  Bot = Bot
  Economies <- MCEconomies
  StartingChips = 3
  Adjustments <- MCAdjustments
  Packs = {1}
  MaxCompleters = 2
  Workers = {w1, w2}
  Rank <- MCRank
  SeatPlans <- MCSeatPlans
  Contracts <- MCContracts
  Buyer <- MCBuyer
INVARIANTS
  NoLockInversion
PROPERTIES
  CommitsAreAtomic
