\* Safety: queues of two games, invites, and both at once.
SPECIFICATION Spec
CONSTANTS
  s1 = s1
  s2 = s2
  s3 = s3
  s4 = s4
  u1 = u1
  u2 = u2
  u3 = u3
  k1 = k1
  k2 = k2
  Bot = Bot
  UserOf <- MCUserOf
  Sockets = {s1, s2, s3, s4}
  Codes = {c1, c2}
  QueueKeys = {k1, k2}
  Clienteles <- MCSafety
  MaxFaults = 1
INVARIANTS
  QueuedOnce
  OneMatchPerEntry
  LeaversAreOut
  TicketsTellTheTruth
  InvitesPairOnce
CHECK_DEADLOCK FALSE
