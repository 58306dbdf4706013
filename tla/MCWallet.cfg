\* Two users and two concurrent matches; one admin command that can be
\* replayed for the other user or another amount; a purchase with up to two
\* completions in flight.
SPECIFICATION Spec
CONSTANTS
  Users = {u1, u2}
  Matches = {m1, m2}
  Purchases = {p1}
  Commands = {c1}
  Bot = Bot
  Economies <- MCEconomies
  StartingChips = 3
  Adjustments <- MCAdjustments
  Packs = {1}
  MaxCompleters = 2
SYMMETRY Symmetry
INVARIANTS
  TypeOK
  LedgerExplainsBalance
  SettledOneWay
  RefundUndoesDebit
  PurchaseCreditedOnce
PROPERTIES
  SettlementIsFinal
  ImplementsEscrow
